------------------------------ MODULE ShimProofs ------------------------------
(***************************************************************************)
(* Proofs about Shim, for every set of classes, pages and arguments:       *)
(* as long as the program reallocates no over-aligned memory and           *)
(* round_up_page does not wrap, memory in use keeps what was written to    *)
(* it, has the room and the alignment asked for, and free of a pointer     *)
(* frees the block it lies in and no other.                                *)
(***************************************************************************)
EXTENDS Shim, FiniteSetTheorems, WellFoundedInduction, TLAPS

-----------------------------------------------------------------------------
(* The hypothesis and the inductive invariant                              *)

\* round_up_page does not wrap for a request of this size.
Serves(size) == IsLarge(size) => size + (PAGE_SIZE - 1) <= SIZE_MAX

\* Nor with the slack of an over-aligned one.
ServesAligned(alignment, size) ==
  IF alignment <= BYTE_ALIGNMENT THEN Serves(size)
  ELSE size <= SIZE_MAX - alignment => Serves(size + Slack(alignment))

\* It wraps for nothing the program asks cmalloc for.
NoWrap ==
  /\ \A size \in Sizes : /\ Serves(size) /\ Serves(AtLeastOne(size))
                         /\ ServesAligned(VALLOC_ALIGNMENT, size)
  /\ \A a \in CallocArgs : ~ProductOverflows(a[1], a[2]) => Serves(a[1] * a[2])
  /\ \A a \in AlignArgs : /\ ServesAligned(a[1], a[2])
                          /\ ServesAligned(a[1], AtLeastOne(a[2]))
  /\ \A s \in Strings : /\ Serves(s[1] + 1)
                        /\ Serves((IF s[1] < s[2] THEN s[1] ELSE s[2]) + 1)

\* The spans lie on pages of their own.
SpansInv(sp) ==
  /\ \A b \in DOMAIN sp :
       /\ b \in Addresses /\ b % BYTE_ALIGNMENT = 0
       /\ sp[b].block_size \in 1 .. SIZE_MAX
       /\ sp[b].length \in Nat \ {0}
       /\ b + sp[b].length <= (LastPage + 1) * PAGE_SIZE
       /\ sp[b].block_size \in Classes => sp[b].length = SPAN_SIZE
  /\ \A b, c \in DOMAIN sp :
       b # c => b + sp[b].length <= c \/ c + sp[c].length <= b

\* t is the first address of a block of the span at b.
IsBlock(sp, b, t) ==
  /\ b \in DOMAIN sp
  /\ \E k \in Nat : t = b + k * sp[b].block_size
  /\ t + sp[b].block_size <= b + sp[b].length

\* The address lies in that block.
In(sp, b, t, a) == IsBlock(sp, b, t) /\ a \in Bytes(t, sp[b].block_size)

\* A pointer in use has its room in an allocated block, from the block's start
\* unless it is over-aligned.
Holds(sp, tk, lv, p) ==
  \E b \in DOMAIN sp, t \in tk :
    /\ In(sp, b, t, p)
    /\ p + lv[p].size <= t + sp[b].block_size
    /\ lv[p].align <= BYTE_ALIGNMENT => p = t

\* What is known of a pointer in use.
Usage == [size : 0 .. SIZE_MAX, align : Nat \ {0}, tag : Tags \cup {0}]

\* A pointer has the alignment it was promised; but for a page it has what the
\* shim takes for one.
AlignedAs(p, promised) ==
  \/ p % promised = 0
  \/ promised = PAGE_SIZE /\ p % VALLOC_ALIGNMENT = 0

\* Pointers in use are aligned, and have their room.
LiveInv(sp, tk, lv) ==
  \A p \in DOMAIN lv :
    /\ lv[p] \in Usage
    /\ AlignedAs(p, lv[p].align) /\ p % BYTE_ALIGNMENT = 0
    /\ Holds(sp, tk, lv, p)

\* Every allocated block has one pointer in use.
OwnersInv(sp, tk, lv) ==
  /\ \A t \in tk : \E b \in DOMAIN sp, p \in DOMAIN lv : In(sp, b, t, p)
  /\ \A p, q \in DOMAIN lv : \A b \in DOMAIN sp, t \in tk :
       In(sp, b, t, p) /\ In(sp, b, t, q) => p = q

\* The bytes of every pointer in use are what its owner wrote.
BytesInv(lv, mm) ==
  /\ mm \in [Addresses -> Tags \cup {0, JUNK}]
  /\ \A p \in DOMAIN lv : \A a \in Bytes(p, lv[p].size) : mm[a] = lv[p].tag

\* The inductive invariant, of any spans, blocks, bytes and pointers.
MallocInv(sp, tk, mm, lv) ==
  /\ SpansInv(sp)
  /\ IsFiniteSet(DOMAIN lv)
  /\ LiveInv(sp, tk, lv)
  /\ OwnersInv(sp, tk, lv)
  /\ BytesInv(lv, mm)

Inv == MallocInv(spans, taken, mem, live)

-----------------------------------------------------------------------------
(* Arithmetic                                                              *)

\* Quotient and remainder of a division.
LEMMA DivMod ==
  ASSUME NEW a \in Nat, NEW m \in Nat \ {0}
  PROVE  a \div m \in Nat /\ a % m \in 0 .. m - 1 /\ a = m * (a \div m) + (a % m)
<1>1. a \div m \in Int /\ a % m \in 0 .. m - 1
  OBVIOUS
<1>2. a = m * (a \div m) + (a % m)
  OBVIOUS
<1>3. a \div m >= 0
  <2>1. PICK q \in Int : q = a \div m
    BY <1>1
  <2>2. q <= -1 => m * q <= -m
    OBVIOUS
  <2>. QED  BY <1>1, <1>2, <2>1, <2>2
<1>. QED  BY <1>1, <1>2, <1>3

\* A multiple is at least a whole unit below a larger one.
LEMMA NextMultiple ==
  ASSUME NEW j \in Nat, NEW k \in Nat, j < k, NEW m \in Nat
  PROVE  m * j + m <= m * k
<1>1. PICK d \in Nat : k = j + 1 + d
  <2>1. k - j - 1 \in Nat /\ k = j + 1 + (k - j - 1)
    OBVIOUS
  <2>. QED  BY <2>1
<1>2. m * k = m * j + m + m * d /\ m * d \in Nat
  BY <1>1
<1>. QED  BY <1>2

\* Quotient and remainder are unique.
LEMMA DivUnique ==
  ASSUME NEW m \in Nat \ {0}, NEW k \in Nat, NEW r \in 0 .. m - 1
  PROVE  (m * k + r) \div m = k /\ (m * k + r) % m = r
<1>1. PICK a \in Nat : a = m * k + r
  <2>1. m * k \in Nat
    OBVIOUS
  <2>. QED  BY <2>1
<1>2. PICK q \in Nat, s \in 0 .. m - 1 : q = a \div m /\ s = a % m /\ a = m * q + s
  BY DivMod
<1>3. PICK x \in Nat, y \in Nat : x = m * k /\ y = m * q
  <2>1. m * k \in Nat /\ m * q \in Nat
    OBVIOUS
  <2>. QED  BY <2>1
<1>4. k < q => x + m <= y
  BY <1>3, NextMultiple
<1>5. q < k => y + m <= x
  BY <1>3, NextMultiple
<1>6. q = k
  BY <1>1, <1>2, <1>3, <1>4, <1>5
<1>7. s = r
  BY <1>1, <1>2, <1>3, <1>6
<1>. QED  BY <1>1, <1>2, <1>6, <1>7

\* size_t arithmetic that does not reach its modulus is exact.
LEMMA ModSmall ==
  ASSUME NEW a \in Nat, NEW m \in Nat \ {0}, a < m
  PROVE  a % m = a
<1>1. (m * 0 + a) % m = a
  BY DivUnique
<1>2. m * 0 + a = a
  OBVIOUS
<1>. QED  BY <1>1, <1>2

\* A multiple leaves no remainder,
LEMMA MultipleMod ==
  ASSUME NEW m \in Nat \ {0}, NEW k \in Nat
  PROVE  (m * k) % m = 0
<1>1. (m * k + 0) % m = 0
  BY DivUnique
<1>2. m * k + 0 = m * k
  <2>1. m * k \in Nat
    OBVIOUS
  <2>. QED  BY <2>1
<1>. QED  BY <1>1, <1>2

\* and what leaves no remainder is a multiple.
LEMMA ModMultiple ==
  ASSUME NEW m \in Nat \ {0}, NEW a \in Nat, a % m = 0
  PROVE  \E k \in Nat : a = m * k
<1>1. a \div m \in Nat /\ a = m * (a \div m) + 0
  BY DivMod
<1>2. PICK q \in Nat : q = a \div m
  BY <1>1
<1>3. a = m * q
  BY <1>1, <1>2
<1>. QED  BY <1>3

\* A multiple of a multiple.
LEMMA MultipleOfMultiple ==
  ASSUME NEW m \in Nat \ {0}, NEW n \in Nat \ {0}, n % m = 0,
         NEW a \in Nat, a % n = 0
  PROVE  a % m = 0
<1>1. PICK k \in Nat : a = n * k
  BY ModMultiple
<1>2. PICK l \in Nat : n = m * l
  BY ModMultiple
<1>3. PICK j \in Nat : j = l * k
  OBVIOUS
<1>4. a = m * j
  BY <1>1, <1>2, <1>3
<1>. QED  BY <1>3, <1>4, MultipleMod

\* Offsets of whole granules add up to whole granules,
LEMMA SumMod ==
  ASSUME NEW m \in Nat \ {0}, NEW a \in Nat, NEW b \in Nat, a % m = 0, b % m = 0
  PROVE  (a + b) % m = 0
<1>1. PICK j \in Nat : a = m * j
  BY ModMultiple
<1>2. PICK k \in Nat : b = m * k
  BY ModMultiple
<1>3. a + b = m * (j + k)
  BY <1>1, <1>2
<1>4. (m * (j + k)) % m = 0
  BY MultipleMod
<1>. QED  BY <1>3, <1>4

\* and so do blocks of whole granules.
LEMMA TimesMod ==
  ASSUME NEW m \in Nat \ {0}, NEW a \in Nat, NEW n \in Nat, a % m = 0
  PROVE  (n * a) % m = 0
<1>1. PICK j \in Nat : a = m * j
  BY ModMultiple
<1>2. PICK k \in Nat : k = n * j
  BY <1>1
<1>3. n * a = m * k
  BY <1>1, <1>2
<1>. QED  BY <1>3, MultipleMod

\* Rounding up moves an address by less than the unit, to a multiple.
LEMMA RoundUpMultiple ==
  ASSUME NEW n \in Nat, NEW unit \in Nat \ {0}
  PROVE  /\ RoundUp(n, unit) \in n .. n + unit - 1
         /\ RoundUp(n, unit) % unit = 0
<1>1. PICK a \in Nat : a = n + unit - 1
  OBVIOUS
<1>2. PICK q \in Nat, r \in 0 .. unit - 1 : q = a \div unit /\ a = unit * q + r
  BY DivMod
<1>3. RoundUp(n, unit) = q * unit
  BY <1>1, <1>2 DEF RoundUp
<1>4. q * unit = unit * q /\ unit * q \in Nat
  OBVIOUS
<1>5. unit * q \in n .. n + unit - 1
  BY <1>1, <1>2, <1>4
<1>6. (unit * q) % unit = 0
  BY MultipleMod
<1>. QED  BY <1>3, <1>4, <1>5, <1>6

\* Between granules, a unit of whole granules moves an address by a granule less
\* than the unit, at most.
LEMMA RoundUpGranules ==
  ASSUME NEW g \in Nat \ {0}, NEW n \in Nat, NEW unit \in Nat \ {0},
         n % g = 0, unit % g = 0
  PROVE  /\ RoundUp(n, unit) % g = 0
         /\ RoundUp(n, unit) + g <= n + unit
<1>1. PICK x \in Nat : /\ x = RoundUp(n, unit) /\ x >= n /\ x < n + unit
                       /\ x % unit = 0
  <2>1. RoundUp(n, unit) \in n .. n + unit - 1 /\ RoundUp(n, unit) % unit = 0
    BY RoundUpMultiple
  <2>2. PICK x \in n .. n + unit - 1 : x = RoundUp(n, unit)
    BY <2>1
  <2>. QED  BY <2>1, <2>2
<1>2. PICK k \in Nat : x = unit * k
  BY <1>1, ModMultiple
<1>3. PICK u \in Nat : unit = g * u
  BY ModMultiple
<1>4. PICK i \in Nat : n = g * i
  BY ModMultiple
<1>5. PICK l \in Nat : l = u * k
  OBVIOUS
<1>6. x = g * l
  BY <1>2, <1>3, <1>5
<1>7. x % g = 0
  BY <1>6, MultipleMod
<1>8. n + unit = g * (i + u)
  BY <1>3, <1>4
<1>9. l < i + u
  <2>1. CASE l = i + u
    BY <2>1, <1>1, <1>6, <1>8
  <2>2. CASE i + u < l
    <3>1. g * (i + u) + g <= g * l
      BY <2>2, NextMultiple
    <3>. QED  BY <3>1, <1>1, <1>6, <1>8
  <2>. QED  BY <2>1, <2>2
<1>10. g * l + g <= g * (i + u)
  BY <1>9, NextMultiple
<1>. QED  BY <1>1, <1>6, <1>7, <1>8, <1>10

-----------------------------------------------------------------------------
(* Spans and blocks                                                        *)

\* The types and the order of the constants.
LEMMA Constants ==
  /\ BYTE_ALIGNMENT \in Nat \ {0} /\ PAGE_SIZE \in Nat \ {0}
  /\ SPAN_SIZE \in Nat \ {0} /\ SIZE_MAX \in Nat \ {0}
  /\ BYTE_ALIGNMENT >= 2
  /\ LastPage \in Nat /\ MaxLive \in Nat
  /\ Classes \subseteq 1 .. SIZE_MAX /\ Classes # {}
  /\ \A c \in Classes : c \in Nat \ {0} /\ c <= SPAN_SIZE
  BY ShimAssumption

\* Classes and pages are whole granules, and pages longer than one.
LEMMA Granules ==
  /\ \A c \in Classes : c % BYTE_ALIGNMENT = 0
  /\ PAGE_SIZE % BYTE_ALIGNMENT = 0 /\ PAGE_SIZE > BYTE_ALIGNMENT
  BY ShimAssumption

\* What valloc aligns to is whole granules.
LEMMA VallocGranules ==
  /\ VALLOC_ALIGNMENT \in Nat \ {0}
  /\ VALLOC_ALIGNMENT % BYTE_ALIGNMENT = 0
<1>1. VALLOC_ALIGNMENT \in Nat /\ VALLOC_ALIGNMENT > BYTE_ALIGNMENT
  BY ShimAssumption
<1>. QED  BY <1>1, Constants, AlignmentAssumption

\* The memory mmap can return, as an interval.
LEMMA Limit ==
  \E lim \in Nat : lim = (LastPage + 1) * PAGE_SIZE /\ Addresses = PAGE_SIZE .. lim - 1
  BY Constants DEF Addresses

\* A block lies in its span, and so in memory.
LEMMA BlockFacts ==
  ASSUME NEW sp, SpansInv(sp), NEW b, NEW t, IsBlock(sp, b, t)
  PROVE  /\ b \in Nat /\ t \in Nat /\ b <= t
         /\ sp[b].block_size \in 1 .. SIZE_MAX /\ sp[b].length \in Nat \ {0}
         /\ t + sp[b].block_size <= b + sp[b].length
         /\ Bytes(t, sp[b].block_size) \subseteq Bytes(b, sp[b].length)
         /\ Bytes(b, sp[b].length) \subseteq Addresses
         /\ t \in Addresses
<1>1. PICK lim \in Nat : lim = (LastPage + 1) * PAGE_SIZE /\ Addresses = PAGE_SIZE .. lim - 1
  BY Limit
<1>2. /\ b \in Addresses /\ sp[b].block_size \in 1 .. SIZE_MAX
      /\ sp[b].length \in Nat \ {0} /\ b + sp[b].length <= lim
      /\ t + sp[b].block_size <= b + sp[b].length
  BY <1>1 DEF SpansInv, IsBlock
<1>3. PICK size \in Nat \ {0}, length \in Nat \ {0} :
        size = sp[b].block_size /\ length = sp[b].length
  BY <1>2, Constants
<1>4. PICK k \in Nat : t = b + k * size
  BY <1>3 DEF IsBlock
<1>5. k * size \in Nat /\ b \in Nat /\ b >= PAGE_SIZE
  BY <1>1, <1>2, Constants
<1>6. t \in Nat /\ b <= t
  BY <1>4, <1>5
<1>7. t + size <= b + length /\ b + length <= lim
  BY <1>2, <1>3
<1>8. Bytes(t, size) \subseteq Bytes(b, length) /\ Bytes(b, length) \subseteq Addresses
  BY <1>1, <1>5, <1>6, <1>7, Constants DEF Bytes
<1>9. t \in Addresses
  BY <1>1, <1>5, <1>6, <1>7, Constants
<1>. QED  BY <1>2, <1>3, <1>5, <1>6, <1>8, <1>9

\* An address is in one block at most.
LEMMA BlocksApart ==
  ASSUME NEW sp, SpansInv(sp), NEW b, NEW t, NEW c, NEW u, NEW a,
         In(sp, b, t, a), In(sp, c, u, a)
  PROVE  b = c /\ t = u
<1>1. IsBlock(sp, b, t) /\ IsBlock(sp, c, u)
  BY DEF In
<1>2. /\ b \in Nat /\ t \in Nat /\ b <= t
      /\ t + sp[b].block_size <= b + sp[b].length
      /\ sp[b].block_size \in Nat \ {0} /\ sp[b].length \in Nat
  BY <1>1, BlockFacts, Constants
<1>3. /\ c \in Nat /\ u \in Nat /\ c <= u
      /\ u + sp[c].block_size <= c + sp[c].length
      /\ sp[c].block_size \in Nat \ {0} /\ sp[c].length \in Nat
  BY <1>1, BlockFacts, Constants
<1>4. /\ a \in Nat /\ t <= a /\ a < t + sp[b].block_size
      /\ u <= a /\ a < u + sp[c].block_size
  BY <1>2, <1>3 DEF In, Bytes
<1>5. b = c
  <2>1. b # c => b + sp[b].length <= c \/ c + sp[c].length <= b
    BY <1>1 DEF SpansInv, IsBlock
  <2>. QED  BY <2>1, <1>2, <1>3, <1>4
<1>6. PICK m \in Nat \ {0} : m = sp[b].block_size /\ m = sp[c].block_size
  BY <1>2, <1>5
<1>7. PICK j \in Nat : t = b + j * m
  BY <1>1, <1>6 DEF IsBlock
<1>8. PICK k \in Nat : u = b + k * m
  BY <1>1, <1>5, <1>6 DEF IsBlock
<1>9. PICK x \in Nat, y \in Nat : x = m * j /\ y = m * k /\ x = j * m /\ y = k * m
  <2>1. m * j \in Nat /\ m * k \in Nat /\ m * j = j * m /\ m * k = k * m
    OBVIOUS
  <2>. QED  BY <2>1
<1>10. j < k => x + m <= y
  BY <1>9, NextMultiple
<1>11. k < j => y + m <= x
  BY <1>9, NextMultiple
<1>12. t = b + x /\ u = b + y
  BY <1>7, <1>8, <1>9
<1>13. a < t + m /\ a < u + m /\ t <= a /\ u <= a
  BY <1>4, <1>6
<1>14. ~(j < k)
  BY <1>2, <1>4, <1>10, <1>12, <1>13
<1>15. ~(k < j)
  BY <1>2, <1>4, <1>11, <1>12, <1>13
<1>16. j = k
  BY <1>14, <1>15
<1>. QED  BY <1>5, <1>7, <1>8, <1>16

\* cmalloc_get_span and the division find the block an address is in.
LEMMA Found ==
  ASSUME SpansInv(spans), NEW b, NEW t, NEW p, In(spans, b, t, p)
  PROVE  BaseOf(p) = b /\ BlockStart(p) = t
<1>1. IsBlock(spans, b, t) /\ b \in DOMAIN spans
  BY DEF In, IsBlock
<1>2. /\ b \in Nat /\ t \in Nat /\ b <= t
      /\ t + spans[b].block_size <= b + spans[b].length
      /\ spans[b].block_size \in Nat \ {0} /\ spans[b].length \in Nat
  BY <1>1, BlockFacts, Constants
<1>3. p \in Nat /\ t <= p /\ p < t + spans[b].block_size
  BY <1>2 DEF In, Bytes
<1>4. p \in Extent(b)
  BY <1>2, <1>3 DEF Extent, Bytes
<1>5. ASSUME NEW c \in DOMAIN spans, p \in Extent(c)
      PROVE  c = b
  <2>1. c \in Nat /\ spans[c].length \in Nat
    BY Constants, Limit DEF SpansInv
  <2>2. c <= p /\ p < c + spans[c].length
    BY <1>5, <2>1, <1>3 DEF Extent, Bytes
  <2>3. b # c => b + spans[b].length <= c \/ c + spans[c].length <= b
    BY <1>1 DEF SpansInv
  <2>. QED  BY <1>2, <1>3, <2>1, <2>2, <2>3
<1>6. BaseOf(p) = b
  BY <1>1, <1>4, <1>5 DEF BaseOf
<1>7. PICK m \in Nat \ {0} : m = spans[b].block_size
  BY <1>2
<1>8. PICK k \in Nat : t = b + k * m
  BY <1>1, <1>7 DEF IsBlock
<1>9. m * k \in Nat /\ k * m = m * k
  OBVIOUS
<1>10. PICK r \in 0 .. m - 1 : p = t + r
  <2>1. p - t \in 0 .. m - 1 /\ p = t + (p - t)
    BY <1>2, <1>3, <1>7
  <2>. QED  BY <2>1
<1>11. p - b = m * k + r
  BY <1>2, <1>8, <1>9, <1>10
<1>12. (p - b) \div m = k
  BY <1>11, DivUnique
<1>13. BlockStart(p) = b + k * m
  BY <1>6, <1>7, <1>12 DEF BlockStart
<1>. QED  BY <1>6, <1>8, <1>13

-----------------------------------------------------------------------------
(* What cmalloc returns                                                    *)

\* A set of classes that is not empty has a smallest one.
LEMMA SmallestExists ==
  ASSUME NEW S \in SUBSET Nat, S # {}
  PROVE  \E i \in S : \A j \in S : i <= j
<1>. DEFINE R == {ss \in Nat \X Nat : ss[1] < ss[2]}
<1>1. IsWellFoundedOn(R, Nat)
  BY NatLessThanWellFounded DEF OpToRel
<1>2. PICK i \in S : \A j \in S : <<j, i>> \notin R
  <2>. HIDE DEF R
  <2>. QED  BY <1>1, WFMin
<1>3. ASSUME NEW j \in S PROVE i <= j
  <2>1. <<j, i>> \in Nat \X Nat /\ <<j, i>>[1] = j /\ <<j, i>>[2] = i
    OBVIOUS
  <2>2. ~(j < i)
    BY <1>2, <2>1
  <2>. QED  BY <2>2
<1>. QED  BY <1>3

\* The block is not shorter than the request, and of a class if the request is
\* small.
LEMMA BlockSizeFits ==
  ASSUME NEW size \in 0 .. SIZE_MAX
  PROVE  /\ BlockSize(size) \in 1 .. SIZE_MAX /\ size <= BlockSize(size)
         /\ ~IsLarge(size) => BlockSize(size) \in Classes
         /\ IsLarge(size) => BlockSize(size) = size /\ BlockSize(size) \notin Classes
<1>. DEFINE fitting == {c \in Classes : c >= size}
<1>3. size \in Nat /\ Classes # {} /\ \A c \in Classes : c \in Nat
  BY Constants
<1>1. CASE IsLarge(size)
  <2>1. \A c \in Classes : c < size
    BY <1>1 DEF IsLarge
  <2>2. \A c \in Classes : ~(c >= size) /\ c # size /\ size >= 1
    BY <1>3, <2>1
  <2>3. fitting = {}
    BY <2>2
  <2>4. BlockSize(size) = size
    BY <2>3 DEF BlockSize
  <2>. QED  BY <1>1, <1>3, <2>2, <2>4
<1>2. CASE ~IsLarge(size)
  <2>4. PICK least \in Classes : ~(least < size)
    BY <1>2 DEF IsLarge
  <2>5. least >= size
    BY <1>3, <2>4
  <2>1. fitting # {} /\ fitting \subseteq Nat
    BY <1>3, <2>5
  <2>2. \E c \in fitting : \A d \in fitting : c <= d
    <3>. HIDE DEF fitting
    <3>. QED  BY <2>1, SmallestExists
  <2>3. BlockSize(size) \in fitting
    BY <2>1, <2>2 DEF BlockSize
  <2>. QED  BY <1>2, <2>3, Constants
<1>. QED  BY <1>1, <1>2

\* Nor is the span shorter than the block.
LEMMA SpanLengthFits ==
  ASSUME NEW size \in 0 .. SIZE_MAX, Serves(size)
  PROVE  /\ SpanLength(size) \in Nat \ {0}
         /\ BlockSize(size) <= SpanLength(size)
         /\ BlockSize(size) \in Classes => SpanLength(size) = SPAN_SIZE
<1>1. CASE ~IsLarge(size)
  <2>1. SpanLength(size) = SPAN_SIZE /\ BlockSize(size) \in Classes
    BY <1>1, BlockSizeFits DEF SpanLength
  <2>. QED  BY <2>1, Constants
<1>2. CASE IsLarge(size)
  <2>1. PICK num \in Nat : num = size + PAGE_SIZE - 1 /\ num <= SIZE_MAX
    BY <1>2, Constants DEF Serves
  <2>2. num % (SIZE_MAX + 1) = num
    BY <2>1, ModSmall, Constants
  <2>3. SpanLength(size) = (num \div PAGE_SIZE) * PAGE_SIZE
    BY <1>2, <2>1, <2>2 DEF SpanLength, SizeT
  <2>4. RoundUp(size, PAGE_SIZE) = (num \div PAGE_SIZE) * PAGE_SIZE
    BY <2>1 DEF RoundUp
  <2>5. RoundUp(size, PAGE_SIZE) \in size .. size + PAGE_SIZE - 1
    BY RoundUpMultiple, Constants
  <2>6. PICK len \in size .. size + PAGE_SIZE - 1 : len = SpanLength(size)
    BY <2>3, <2>4, <2>5
  <2>7. BlockSize(size) = size /\ size >= 1 /\ BlockSize(size) \notin Classes
    BY <1>2, BlockSizeFits
  <2>. QED  BY <2>6, <2>7, Constants
<1>. QED  BY <1>1, <1>2

\* The spans once the block is taken.
WithSpan(place) ==
  [b \in DOMAIN spans \cup {place.base} |->
     IF b = place.base THEN [block_size |-> place.block_size, length |-> place.length]
     ELSE spans[b]]

\* The old spans stay as they are.
Extends(new, old) ==
  \A b \in DOMAIN old : /\ b \in DOMAIN new
                        /\ new[b].block_size = old[b].block_size
                        /\ new[b].length = old[b].length

\* The block is new, aligned and long enough, in a span or with one of its own.
Placed(place, size) ==
  /\ SpansInv(WithSpan(place))
  /\ Extends(WithSpan(place), spans)
  /\ IsBlock(WithSpan(place), place.base, place.start)
  /\ WithSpan(place)[place.base].block_size \in size .. SIZE_MAX
  /\ place.start % BYTE_ALIGNMENT = 0
  /\ place.start \notin taken

\* A span of its own for the block (cmalloc_initialize_span).
LEMMA FreshPlace ==
  ASSUME NEW size \in 0 .. SIZE_MAX, Serves(size), SpansInv(spans),
         \A t \in taken : \E b \in DOMAIN spans : IsBlock(spans, b, t),
         NEW base \in FreeBases(SpanLength(size)), NEW place,
         place = [base |-> base, start |-> base, block_size |-> BlockSize(size),
                  length |-> SpanLength(size)]
  PROVE  Placed(place, size)
<1>1. PICK lim \in Nat : lim = (LastPage + 1) * PAGE_SIZE /\ Addresses = PAGE_SIZE .. lim - 1
  BY Limit
<1>2. PICK bs \in 1 .. SIZE_MAX, len \in Nat \ {0} :
        /\ bs = BlockSize(size) /\ len = SpanLength(size)
        /\ size <= bs /\ bs <= len /\ (bs \in Classes => len = SPAN_SIZE)
  BY BlockSizeFits, SpanLengthFits
<1>3. /\ base \in Addresses /\ base % PAGE_SIZE = 0 /\ Bytes(base, len) \subseteq Addresses
      /\ \A c \in DOMAIN spans : Bytes(base, len) \cap Extent(c) = {}
  BY <1>2 DEF FreeBases
<1>4. base \in Nat /\ base >= PAGE_SIZE /\ base + len <= lim
  <2>1. base \in Nat /\ base >= PAGE_SIZE
    BY <1>1, <1>3, Constants
  <2>2. base + len - 1 \in Bytes(base, len)
    BY <2>1, <1>2 DEF Bytes
  <2>. QED  BY <2>1, <2>2, <1>1, <1>2, <1>3, Constants
<1>5. base % BYTE_ALIGNMENT = 0
  <2>1. PICK k \in Nat : base = PAGE_SIZE * k
    BY <1>3, <1>4, ModMultiple, Constants
  <2>2. (k * PAGE_SIZE) % BYTE_ALIGNMENT = 0
    BY TimesMod, Constants, Granules
  <2>3. base = k * PAGE_SIZE
    BY <2>1, Constants
  <2>. QED  BY <2>2, <2>3
<1>6. ASSUME NEW c \in DOMAIN spans
      PROVE  /\ c # base
             /\ base + len <= c \/ c + spans[c].length <= base
  <2>1. c \in Nat /\ spans[c].length \in Nat \ {0}
    BY <1>1, Constants DEF SpansInv
  <2>2. PICK cl \in Nat \ {0} : cl = spans[c].length
    BY <2>1
  <2>3. Extent(c) = c .. c + cl - 1 /\ Bytes(base, len) = base .. base + len - 1
    BY <2>2 DEF Extent, Bytes
  <2>4. base \notin c .. c + cl - 1
    <3>1. base \in base .. base + len - 1
      BY <1>2, <1>4
    <3>. QED  BY <3>1, <2>3, <1>3
  <2>5. c \notin base .. base + len - 1
    BY <2>1, <2>2, <2>3, <1>3
  <2>. QED  BY <2>1, <2>2, <2>4, <2>5, <1>2, <1>4
<1>. DEFINE sp == WithSpan(place)
<1>7. /\ DOMAIN sp = DOMAIN spans \cup {base}
      /\ sp[base].block_size = bs /\ sp[base].length = len
      /\ \A c \in DOMAIN spans : sp[c] = spans[c]
  <2>1. place.base = base /\ place.block_size = bs /\ place.length = len
    BY <1>2
  <2>. QED  BY <2>1, <1>6 DEF WithSpan
<1>. HIDE DEF sp
<1>8. SpansInv(sp)
  <2>1. ASSUME NEW b \in DOMAIN sp
        PROVE  /\ b \in Addresses /\ b % BYTE_ALIGNMENT = 0
               /\ sp[b].block_size \in 1 .. SIZE_MAX
               /\ sp[b].length \in Nat \ {0}
               /\ b + sp[b].length <= lim
               /\ sp[b].block_size \in Classes => sp[b].length = SPAN_SIZE
    <3>1. CASE b = base
      BY <3>1, <1>2, <1>3, <1>4, <1>5, <1>7
    <3>2. CASE b \in DOMAIN spans
      BY <3>2, <1>1, <1>7 DEF SpansInv
    <3>. QED  BY <3>1, <3>2, <1>7
  <2>2. ASSUME NEW b \in DOMAIN sp, NEW c \in DOMAIN sp, b # c
        PROVE  b + sp[b].length <= c \/ c + sp[c].length <= b
    <3>1. CASE b = base
      BY <3>1, <2>2, <1>6, <1>7
    <3>2. CASE c = base
      BY <3>2, <2>2, <1>6, <1>7
    <3>3. CASE b \in DOMAIN spans /\ c \in DOMAIN spans
      BY <3>3, <2>2, <1>7 DEF SpansInv
    <3>. QED  BY <3>1, <3>2, <3>3, <1>7
  <2>. QED  BY <1>1, <2>1, <2>2 DEF SpansInv
<1>9. Extends(sp, spans)
  BY <1>7 DEF Extends
<1>10. IsBlock(sp, base, base)
  <2>1. base = base + 0 * sp[base].block_size
    BY <1>2, <1>4, <1>7
  <2>2. base + sp[base].block_size <= base + sp[base].length
    BY <1>2, <1>4, <1>7
  <2>. QED  BY <1>7, <2>1, <2>2 DEF IsBlock
<1>11. base \notin taken
  <2>1. SUFFICES ASSUME base \in taken PROVE FALSE
    OBVIOUS
  <2>2. PICK c \in DOMAIN spans : IsBlock(spans, c, base)
    BY <2>1
  <2>3. /\ c \in Nat /\ c <= base
        /\ spans[c].block_size \in 1 .. SIZE_MAX /\ spans[c].length \in Nat \ {0}
        /\ base + spans[c].block_size <= c + spans[c].length
    BY <2>2, BlockFacts
  <2>. QED  BY <2>3, <1>2, <1>4, <1>6, Constants
<1>12. place.base = base /\ place.start = base
  OBVIOUS
<1>13. sp[base].block_size \in size .. SIZE_MAX
  BY <1>2, <1>7
<1>. QED  BY <1>5, <1>8, <1>9, <1>10, <1>11, <1>12, <1>13 DEF sp, Placed

\* A free block of a span of its class (allocate_block).
LEMMA FreeBlockPlace ==
  ASSUME NEW size \in 0 .. SIZE_MAX, SpansInv(spans), ~IsLarge(size),
         NEW base \in DOMAIN spans, spans[base].block_size = BlockSize(size),
         NEW i \in 0 .. SPAN_SIZE \div BlockSize(size) - 1, NEW place,
         place = [base |-> base, start |-> base + i * BlockSize(size),
                  block_size |-> BlockSize(size), length |-> SPAN_SIZE],
         place.start \notin taken
  PROVE  Placed(place, size)
<1>1. PICK bs \in 1 .. SIZE_MAX : /\ bs = BlockSize(size) /\ size <= bs /\ bs \in Classes
                                  /\ bs % BYTE_ALIGNMENT = 0
  BY BlockSizeFits, Constants, Granules
<1>2. spans[base].length = SPAN_SIZE /\ base % BYTE_ALIGNMENT = 0 /\ base \in Addresses
  BY <1>1 DEF SpansInv
<1>3. base \in Nat
  BY <1>2, Limit, Constants
<1>4. PICK q \in Nat, r \in Nat : q = SPAN_SIZE \div bs /\ SPAN_SIZE = bs * q + r
  <2>1. bs \in Nat \ {0}
    BY <1>1, Constants
  <2>2. /\ SPAN_SIZE \div bs \in Nat /\ SPAN_SIZE % bs \in 0 .. bs - 1
        /\ SPAN_SIZE = bs * (SPAN_SIZE \div bs) + (SPAN_SIZE % bs)
    BY <2>1, DivMod, Constants
  <2>3. PICK r \in Nat : r = SPAN_SIZE % bs
    BY <2>1, <2>2
  <2>. QED  BY <2>2, <2>3
<1>5. i \in Nat /\ i < q
  BY <1>1, <1>4
<1>6. PICK x \in Nat : x = bs * i /\ x + bs <= SPAN_SIZE
  <2>1. bs * i \in Nat /\ bs * q \in Nat
    BY <1>1, <1>4, <1>5, Constants
  <2>2. bs * i + bs <= bs * q
    BY <1>1, <1>5, NextMultiple, Constants
  <2>3. bs * i + bs <= SPAN_SIZE
    BY <2>1, <2>2, <1>4, <1>1, Constants
  <2>. QED  BY <2>1, <2>3
<1>7. i * bs = x
  BY <1>1, <1>5, <1>6, Constants
<1>8. place.base = base /\ place.start = base + i * bs /\ place.block_size = bs
      /\ place.length = SPAN_SIZE
  BY <1>1
<1>. DEFINE sp == WithSpan(place)
<1>9. /\ DOMAIN sp = DOMAIN spans
      /\ \A c \in DOMAIN spans : /\ sp[c].block_size = spans[c].block_size
                                 /\ sp[c].length = spans[c].length
  BY <1>1, <1>2, <1>8 DEF WithSpan
<1>. HIDE DEF sp
<1>10. SpansInv(sp)
  BY <1>9 DEF SpansInv
<1>11. Extends(sp, spans)
  BY <1>9 DEF Extends
<1>12. IsBlock(sp, base, place.start)
  <2>1. place.start + bs <= base + SPAN_SIZE
    BY <1>1, <1>3, <1>6, <1>7, <1>8, Constants
  <2>2. sp[base].block_size = bs /\ sp[base].length = SPAN_SIZE
    BY <1>1, <1>2, <1>9
  <2>. QED  BY <1>5, <1>8, <1>9, <2>1, <2>2 DEF IsBlock
<1>13. place.start % BYTE_ALIGNMENT = 0
  <2>1. x % BYTE_ALIGNMENT = 0
    BY <1>1, <1>5, <1>7, TimesMod, Constants
  <2>2. (base + x) % BYTE_ALIGNMENT = 0
    BY <1>2, <1>3, <1>6, <2>1, SumMod, Constants
  <2>. QED  BY <2>2, <1>7, <1>8
<1>14. sp[place.base].block_size \in size .. SIZE_MAX
  BY <1>1, <1>8, <1>9
<1>. QED  BY <1>8, <1>10, <1>11, <1>12, <1>13, <1>14 DEF sp, Placed

\* Whatever block cmalloc finds has these properties.
LEMMA PlaceFacts ==
  ASSUME NEW size \in 0 .. SIZE_MAX, Serves(size), SpansInv(spans),
         \A t \in taken : \E b \in DOMAIN spans : IsBlock(spans, b, t),
         NEW place \in Places(size)
  PROVE  Placed(place, size)
<1>1. CASE \E base \in FreeBases(SpanLength(size)) :
             place = [base |-> base, start |-> base, block_size |-> BlockSize(size),
                      length |-> SpanLength(size)]
  BY <1>1, FreshPlace
<1>2. CASE /\ ~IsLarge(size) /\ place.start \notin taken
           /\ \E base \in {b \in DOMAIN spans : spans[b].block_size = BlockSize(size)},
                 i \in 0 .. SPAN_SIZE \div BlockSize(size) - 1 :
                place = [base |-> base, start |-> base + i * BlockSize(size),
                         block_size |-> BlockSize(size), length |-> SPAN_SIZE]
  BY <1>2, FreeBlockPlace
<1>. QED  BY <1>1, <1>2 DEF Places

-----------------------------------------------------------------------------
(* Steps that keep the invariant                                           *)

\* What the record of a pointer in use holds.
LEMMA UsageFields ==
  ASSUME NEW u \in Usage
  PROVE  /\ u.size \in 0 .. SIZE_MAX /\ u.size \in Nat
         /\ u.align \in Nat \ {0} /\ u.tag \in Tags \cup {0}
<1>1. u.size \in 0 .. SIZE_MAX /\ u.align \in Nat \ {0} /\ u.tag \in Tags \cup {0}
  BY DEF Usage
<1>. QED  BY <1>1, Constants

\* The record of a pointer handed out is one.
LEMMA UsageRecord ==
  ASSUME NEW size \in 0 .. SIZE_MAX, NEW align \in Nat \ {0}, NEW tag \in Tags \cup {0}
  PROVE  [size |-> size, align |-> align, tag |-> tag] \in Usage
  BY DEF Usage

\* The blocks of a span stay as long as it does.
LEMMA InExtends ==
  ASSUME NEW new, NEW old, Extends(new, old), NEW b \in DOMAIN old, NEW t, NEW a
  PROVE  In(new, b, t, a) <=> In(old, b, t, a)
<1>1. /\ b \in DOMAIN new /\ new[b].block_size = old[b].block_size
      /\ new[b].length = old[b].length
  BY DEF Extends
<1>. QED  BY <1>1 DEF In, IsBlock

\* What it means to be in a block.
LEMMA InDomain ==
  ASSUME NEW sp, NEW b, NEW t, NEW a, In(sp, b, t, a)
  PROVE  b \in DOMAIN sp /\ IsBlock(sp, b, t) /\ a \in Bytes(t, sp[b].block_size)
  BY DEF In, IsBlock

\* The bytes of a pointer in use are in its block.
LEMMA RoomInBlock ==
  ASSUME NEW sp, SpansInv(sp), NEW b, NEW t, NEW p, In(sp, b, t, p),
         NEW size \in Nat, p + size <= t + sp[b].block_size,
         NEW a \in Bytes(p, size)
  PROVE  In(sp, b, t, a) /\ a \in Addresses
<1>1. IsBlock(sp, b, t) /\ p \in Bytes(t, sp[b].block_size)
  BY DEF In
<1>2. /\ t \in Nat /\ sp[b].block_size \in 1 .. SIZE_MAX
      /\ Bytes(t, sp[b].block_size) \subseteq Addresses
  BY <1>1, BlockFacts
<1>3. PICK bs \in Nat : bs = sp[b].block_size
  BY <1>2, Constants
<1>4. a \in t .. t + bs - 1
  <2>1. p \in t .. t + bs - 1 /\ a \in p .. p + size - 1
    BY <1>1, <1>3 DEF Bytes
  <2>. QED  BY <2>1, <1>2, <1>3
<1>. QED  BY <1>1, <1>2, <1>3, <1>4 DEF In, Bytes

\* A pointer for these bytes of a block that is not taken.
Grantable(sp, tk, b, t, p, size, align) ==
  /\ SpansInv(sp)
  /\ In(sp, b, t, p) /\ t \notin tk
  /\ size \in 0 .. SIZE_MAX /\ p + size <= t + sp[b].block_size
  /\ align \in Nat \ {0} /\ AlignedAs(p, align) /\ p % BYTE_ALIGNMENT = 0
  /\ align <= BYTE_ALIGNMENT => p = t

\* Outside the block memory stays as it is.
KeepsOutside(mm2, mm, sp, b, t) ==
  /\ mm2 \in [Addresses -> Tags \cup {0, JUNK}]
  /\ \A a \in Addresses \ Bytes(t, sp[b].block_size) : mm2[a] = mm[a]

\* The pointers in use with the new one.
Owned(lv, p, size, align, tag) ==
  [q \in DOMAIN lv \cup {p} |->
     IF q = p THEN [size |-> size, align |-> align, tag |-> tag] ELSE lv[q]]

\* A new block is handed out.
LEMMA GrantInv ==
  ASSUME NEW sp, NEW tk, NEW mm, NEW lv, MallocInv(sp, tk, mm, lv),
         NEW sp2, Extends(sp2, sp), NEW b, NEW t, NEW p, NEW size, NEW align,
         Grantable(sp2, tk, b, t, p, size, align),
         NEW tag \in Tags \cup {0},
         NEW mm2, KeepsOutside(mm2, mm, sp2, b, t),
         \A a \in Bytes(p, size) : mm2[a] = tag
  PROVE  MallocInv(sp2, tk \cup {t}, mm2, Owned(lv, p, size, align, tag))
<1>. DEFINE lv2 == Owned(lv, p, size, align, tag)
<1>1. In(sp2, b, t, p) /\ t \notin tk /\ SpansInv(sp2) /\ b \in DOMAIN sp2
  BY InDomain DEF Grantable
<1>2. ASSUME NEW q \in DOMAIN lv
      PROVE  /\ lv[q] \in Usage
             /\ AlignedAs(q, lv[q].align) /\ q % BYTE_ALIGNMENT = 0
             /\ \E c \in DOMAIN sp, u \in tk :
                  /\ In(sp, c, u, q) /\ In(sp2, c, u, q) /\ c \in DOMAIN sp2
                  /\ q + lv[q].size <= u + sp2[c].block_size
                  /\ lv[q].align <= BYTE_ALIGNMENT => q = u
  <2>1. /\ lv[q] \in Usage
        /\ AlignedAs(q, lv[q].align) /\ q % BYTE_ALIGNMENT = 0
        /\ Holds(sp, tk, lv, q)
    BY DEF MallocInv, LiveInv
  <2>2. PICK c \in DOMAIN sp, u \in tk :
          /\ In(sp, c, u, q)
          /\ q + lv[q].size <= u + sp[c].block_size
          /\ lv[q].align <= BYTE_ALIGNMENT => q = u
    BY <2>1 DEF Holds
  <2>3. In(sp2, c, u, q) /\ c \in DOMAIN sp2 /\ sp2[c].block_size = sp[c].block_size
    BY <2>2, InExtends DEF Extends
  <2>. QED  BY <2>1, <2>2, <2>3
<1>3. p \notin DOMAIN lv
  <2>1. ASSUME p \in DOMAIN lv PROVE FALSE
    <3>1. PICK c \in DOMAIN sp, u \in tk : In(sp2, c, u, p)
      BY <2>1, <1>2
    <3>. QED  BY <3>1, <1>1, BlocksApart
  <2>. QED  BY <2>1
<1>4. /\ DOMAIN lv2 = DOMAIN lv \cup {p}
      /\ lv2[p] = [size |-> size, align |-> align, tag |-> tag]
      /\ lv2[p].size = size /\ lv2[p].align = align /\ lv2[p].tag = tag
      /\ \A q \in DOMAIN lv : lv2[q] = lv[q] /\ q # p
  BY <1>3 DEF Owned
<1>. HIDE DEF lv2
<1>5. IsFiniteSet(DOMAIN lv2)
  BY <1>4, FS_AddElement DEF MallocInv
<1>6. LiveInv(sp2, tk \cup {t}, lv2)
  <2>1. ASSUME NEW q \in DOMAIN lv2
        PROVE  /\ lv2[q] \in Usage
               /\ AlignedAs(q, lv2[q].align) /\ q % BYTE_ALIGNMENT = 0
               /\ Holds(sp2, tk \cup {t}, lv2, q)
    <3>1. CASE q = p
      <4>1. Holds(sp2, tk \cup {t}, lv2, p)
        BY <1>1, <1>4 DEF Holds, Grantable
      <4>2. lv2[p] \in Usage
        BY <1>4, UsageRecord DEF Grantable
      <4>. QED  BY <3>1, <4>1, <4>2, <1>4 DEF Grantable
    <3>2. CASE q \in DOMAIN lv
      <4>1. lv2[q] = lv[q]
        BY <3>2, <1>4
      <4>2. Holds(sp2, tk \cup {t}, lv2, q)
        BY <3>2, <4>1, <1>2 DEF Holds
      <4>. QED  BY <3>2, <4>1, <4>2, <1>2
    <3>. QED  BY <3>1, <3>2, <1>4
  <2>. QED  BY <2>1 DEF LiveInv
<1>7. OwnersInv(sp2, tk \cup {t}, lv2)
  <2>1. ASSUME NEW u \in tk \cup {t}
        PROVE  \E c \in DOMAIN sp2, q \in DOMAIN lv2 : In(sp2, c, u, q)
    <3>1. CASE u = t
      BY <3>1, <1>1, <1>4
    <3>2. CASE u \in tk
      <4>1. PICK c \in DOMAIN sp, q \in DOMAIN lv : In(sp, c, u, q)
        BY <3>2 DEF MallocInv, OwnersInv
      <4>2. In(sp2, c, u, q) /\ c \in DOMAIN sp2
        BY <4>1, InExtends DEF Extends
      <4>. QED  BY <4>2, <1>4
    <3>. QED  BY <3>1, <3>2
  <2>2. ASSUME NEW q \in DOMAIN lv2, NEW r \in DOMAIN lv2,
               NEW c \in DOMAIN sp2, NEW u \in tk \cup {t},
               In(sp2, c, u, q), In(sp2, c, u, r)
        PROVE  q = r
    <3>1. ASSUME NEW s \in DOMAIN lv, In(sp2, c, u, s)
          PROVE  u \in tk /\ c \in DOMAIN sp /\ In(sp, c, u, s)
      <4>1. PICK d \in DOMAIN sp, v \in tk : In(sp, d, v, s) /\ In(sp2, d, v, s)
        BY <1>2
      <4>. QED  BY <4>1, <3>1, <1>1, BlocksApart
    <3>2. ASSUME u = t, NEW s \in DOMAIN lv, In(sp2, c, u, s)
          PROVE  FALSE
      BY <3>1, <3>2, <1>1
    <3>3. ASSUME NEW s \in DOMAIN lv, In(sp2, c, u, p), In(sp2, c, u, s)
          PROVE  FALSE
      <4>1. u = t
        BY <3>3, <1>1, BlocksApart
      <4>. QED  BY <4>1, <3>2, <3>3
    <3>4. CASE q \in DOMAIN lv /\ r \in DOMAIN lv
      BY <3>4, <3>1, <2>2 DEF MallocInv, OwnersInv
    <3>. QED  BY <3>3, <3>4, <2>2, <1>4
  <2>. QED  BY <2>1, <2>2 DEF OwnersInv
<1>8. BytesInv(lv2, mm2)
  <2>1. ASSUME NEW q \in DOMAIN lv2, NEW a \in Bytes(q, lv2[q].size)
        PROVE  mm2[a] = lv2[q].tag
    <3>1. CASE q = p
      BY <3>1, <1>4
    <3>2. CASE q \in DOMAIN lv
      <4>1. PICK c \in DOMAIN sp, u \in tk :
              /\ In(sp2, c, u, q)
              /\ q + lv[q].size <= u + sp2[c].block_size
        BY <3>2, <1>2
      <4>2. lv2[q] = lv[q] /\ a \in Bytes(q, lv[q].size) /\ lv[q].size \in Nat
        BY <3>2, <1>2, <1>4, UsageFields
      <4>3. In(sp2, c, u, a) /\ a \in Addresses
        BY <4>1, <4>2, <1>1, RoomInBlock
      <4>4. a \notin Bytes(t, sp2[b].block_size)
        <5>1. ASSUME a \in Bytes(t, sp2[b].block_size) PROVE FALSE
          <6>1. In(sp2, b, t, a)
            BY <5>1, <1>1 DEF In
          <6>. QED  BY <6>1, <4>3, <1>1, BlocksApart
        <5>. QED  BY <5>1
      <4>5. mm2[a] = mm[a]
        BY <4>3, <4>4 DEF KeepsOutside
      <4>6. mm[a] = lv[q].tag
        BY <3>2, <4>2 DEF MallocInv, BytesInv
      <4>. QED  BY <4>2, <4>5, <4>6
    <3>. QED  BY <3>1, <3>2, <1>4
  <2>. QED  BY <2>1 DEF BytesInv, KeepsOutside
<1>. QED  BY <1>1, <1>5, <1>6, <1>7, <1>8 DEF MallocInv, lv2

\* The block of a pointer is given back, and its span if that leaves it empty.
LEMMA FreeInv ==
  ASSUME NEW sp, NEW tk, NEW mm, NEW lv, MallocInv(sp, tk, mm, lv),
         NEW p \in DOMAIN lv, NEW b, NEW t \in tk, In(sp, b, t, p),
         NEW sp2, Extends(sp, sp2),
         \A c \in DOMAIN sp : \A u \in tk \ {t} : IsBlock(sp, c, u) => c \in DOMAIN sp2,
         NEW mm2, KeepsOutside(mm2, mm, sp, b, t),
         NEW lv2, lv2 = [q \in DOMAIN lv \ {p} |-> lv[q]]
  PROVE  MallocInv(sp2, tk \ {t}, mm2, lv2)
<1>1. SpansInv(sp) /\ b \in DOMAIN sp
  BY InDomain DEF MallocInv
<1>2. /\ DOMAIN lv2 = DOMAIN lv \ {p}
      /\ \A q \in DOMAIN lv2 : lv2[q] = lv[q] /\ q \in DOMAIN lv /\ q # p
  OBVIOUS
<1>3. \A c \in DOMAIN sp2 : /\ c \in DOMAIN sp
                            /\ sp2[c].block_size = sp[c].block_size
                            /\ sp2[c].length = sp[c].length
  BY DEF Extends
<1>4. SpansInv(sp2)
  BY <1>1, <1>3 DEF SpansInv
<1>5. ASSUME NEW q \in DOMAIN lv2
      PROVE  /\ lv[q] \in Usage
             /\ AlignedAs(q, lv[q].align) /\ q % BYTE_ALIGNMENT = 0
             /\ \E c \in DOMAIN sp2, u \in tk \ {t} :
                  /\ In(sp, c, u, q) /\ In(sp2, c, u, q) /\ c \in DOMAIN sp
                  /\ q + lv[q].size <= u + sp[c].block_size
                  /\ sp2[c].block_size = sp[c].block_size
                  /\ lv[q].align <= BYTE_ALIGNMENT => q = u
  <2>1. /\ lv[q] \in Usage
        /\ AlignedAs(q, lv[q].align) /\ q % BYTE_ALIGNMENT = 0
        /\ Holds(sp, tk, lv, q)
    BY <1>2 DEF MallocInv, LiveInv
  <2>2. PICK c \in DOMAIN sp, u \in tk :
          /\ In(sp, c, u, q)
          /\ q + lv[q].size <= u + sp[c].block_size
          /\ lv[q].align <= BYTE_ALIGNMENT => q = u
    BY <2>1 DEF Holds
  <2>3. u # t
    <3>1. ASSUME u = t PROVE FALSE
      <4>1. b = c
        <5>1. IsBlock(sp, b, t) /\ IsBlock(sp, c, t)
          BY <2>2, <3>1 DEF In
        <5>2. t \in Nat /\ sp[b].block_size \in 1 .. SIZE_MAX /\ sp[c].block_size \in 1 .. SIZE_MAX
          BY <5>1, <1>1, BlockFacts
        <5>3. t \in Bytes(t, sp[b].block_size) /\ t \in Bytes(t, sp[c].block_size)
          BY <5>2, Constants DEF Bytes
        <5>. QED  BY <5>1, <5>3, <1>1, BlocksApart DEF In
      <4>2. In(sp, b, t, q)
        BY <4>1, <3>1, <2>2
      <4>. QED  BY <4>2, <1>1, <1>2 DEF MallocInv, OwnersInv
    <3>. QED  BY <3>1
  <2>4. c \in DOMAIN sp2
    BY <2>2, <2>3, InDomain
  <2>5. In(sp2, c, u, q) /\ sp2[c].block_size = sp[c].block_size
    BY <2>2, <2>4, <1>3, InExtends
  <2>. QED  BY <2>1, <2>2, <2>3, <2>4, <2>5
<1>6. IsFiniteSet(DOMAIN lv2)
  BY <1>2, FS_RemoveElement DEF MallocInv
<1>7. LiveInv(sp2, tk \ {t}, lv2)
  <2>1. ASSUME NEW q \in DOMAIN lv2
        PROVE  /\ lv2[q] \in Usage
               /\ AlignedAs(q, lv2[q].align) /\ q % BYTE_ALIGNMENT = 0
               /\ Holds(sp2, tk \ {t}, lv2, q)
    <3>1. lv2[q] = lv[q]
      BY <1>2
    <3>2. Holds(sp2, tk \ {t}, lv2, q)
      BY <3>1, <1>5 DEF Holds
    <3>. QED  BY <3>1, <3>2, <1>5
  <2>. QED  BY <2>1 DEF LiveInv
<1>8. OwnersInv(sp2, tk \ {t}, lv2)
  <2>1. ASSUME NEW u \in tk \ {t}
        PROVE  \E c \in DOMAIN sp2, q \in DOMAIN lv2 : In(sp2, c, u, q)
    <3>1. PICK c \in DOMAIN sp, q \in DOMAIN lv : In(sp, c, u, q)
      BY DEF MallocInv, OwnersInv
    <3>2. c \in DOMAIN sp2
      BY <3>1, InDomain
    <3>3. In(sp2, c, u, q)
      BY <3>1, <3>2, InExtends
    <3>4. q # p
      BY <3>1, <1>1, BlocksApart
    <3>. QED  BY <3>1, <3>2, <3>3, <3>4, <1>2
  <2>2. ASSUME NEW q \in DOMAIN lv2, NEW r \in DOMAIN lv2,
               NEW c \in DOMAIN sp2, NEW u \in tk \ {t},
               In(sp2, c, u, q), In(sp2, c, u, r)
        PROVE  q = r
    <3>1. In(sp, c, u, q) /\ In(sp, c, u, r) /\ c \in DOMAIN sp
      BY <2>2, <1>3, InExtends
    <3>. QED  BY <3>1, <1>2 DEF MallocInv, OwnersInv
  <2>. QED  BY <2>1, <2>2 DEF OwnersInv
<1>9. BytesInv(lv2, mm2)
  <2>1. ASSUME NEW q \in DOMAIN lv2, NEW a \in Bytes(q, lv2[q].size)
        PROVE  mm2[a] = lv2[q].tag
    <3>1. PICK c \in DOMAIN sp2, u \in tk \ {t} :
            /\ In(sp, c, u, q)
            /\ q + lv[q].size <= u + sp[c].block_size
      BY <1>5
    <3>2. lv2[q] = lv[q] /\ a \in Bytes(q, lv[q].size) /\ lv[q].size \in Nat
      BY <1>2, <1>5, UsageFields
    <3>3. In(sp, c, u, a) /\ a \in Addresses
      BY <3>1, <3>2, <1>1, RoomInBlock
    <3>4. a \notin Bytes(t, sp[b].block_size)
      <4>1. ASSUME a \in Bytes(t, sp[b].block_size) PROVE FALSE
        <5>1. In(sp, b, t, a)
          BY <4>1 DEF In
        <5>. QED  BY <5>1, <3>3, <1>1, BlocksApart
      <4>. QED  BY <4>1
    <3>5. mm2[a] = mm[a]
      BY <3>3, <3>4 DEF KeepsOutside
    <3>6. mm[a] = lv[q].tag
      BY <3>2, <1>2 DEF MallocInv, BytesInv
    <3>. QED  BY <3>2, <3>5, <3>6
  <2>. QED  BY <2>1 DEF BytesInv, KeepsOutside
<1>. QED  BY <1>4, <1>6, <1>7, <1>8, <1>9 DEF MallocInv

\* A block is long enough for what it is asked to hold, and stays.
LEMMA ResizeInv ==
  ASSUME NEW sp, NEW tk, NEW mm, NEW lv, MallocInv(sp, tk, mm, lv),
         NEW p \in DOMAIN lv, NEW b, NEW t \in tk, In(sp, b, t, p), p = t,
         NEW size \in 0 .. SIZE_MAX, size <= sp[b].block_size,
         NEW mm2, KeepsOutside(mm2, mm, sp, b, t),
         \A a \in Bytes(p, size) : mm2[a] = lv[p].tag,
         NEW lv2, DOMAIN lv2 = DOMAIN lv, \A q \in DOMAIN lv \ {p} : lv2[q] = lv[q],
         lv2[p] = [size |-> size, align |-> BYTE_ALIGNMENT, tag |-> lv[p].tag]
  PROVE  MallocInv(sp, tk, mm2, lv2)
<1>1. SpansInv(sp) /\ b \in DOMAIN sp /\ IsBlock(sp, b, t)
  BY InDomain DEF MallocInv
<1>2. \A q \in DOMAIN lv :
             /\ lv[q] \in Usage
             /\ AlignedAs(q, lv[q].align) /\ q % BYTE_ALIGNMENT = 0
             /\ Holds(sp, tk, lv, q)
  BY DEF MallocInv, LiveInv
<1>3. t \in Nat /\ sp[b].block_size \in 1 .. SIZE_MAX
  BY <1>1, BlockFacts
<1>7. /\ lv2[p].size = size /\ lv2[p].align = BYTE_ALIGNMENT /\ lv2[p].tag = lv[p].tag
  OBVIOUS
<1>4. LiveInv(sp, tk, lv2)
  <2>1. ASSUME NEW q \in DOMAIN lv2
        PROVE  /\ lv2[q] \in Usage
               /\ AlignedAs(q, lv2[q].align) /\ q % BYTE_ALIGNMENT = 0
               /\ Holds(sp, tk, lv2, q)
    <3>1. CASE q = p
      <4>1. p + size <= t + sp[b].block_size
        BY <1>3, Constants
      <4>2. Holds(sp, tk, lv2, p)
        BY <4>1, <1>1, <1>7 DEF Holds
      <4>3. BYTE_ALIGNMENT \in Nat \ {0} /\ lv[p].tag \in Tags \cup {0}
        BY <1>2, Constants, UsageFields
      <4>4. lv2[p] \in Usage
        BY <4>3, UsageRecord
      <4>5. AlignedAs(p, lv2[p].align) /\ p % BYTE_ALIGNMENT = 0
        BY <1>2, <1>7 DEF AlignedAs
      <4>. QED  BY <3>1, <4>2, <4>4, <4>5
    <3>2. CASE q # p
      <4>1. lv2[q] = lv[q] /\ q \in DOMAIN lv
        BY <3>2
      <4>2. Holds(sp, tk, lv2, q)
        BY <4>1, <1>2 DEF Holds
      <4>. QED  BY <4>1, <4>2, <1>2
    <3>. QED  BY <3>1, <3>2
  <2>. QED  BY <2>1 DEF LiveInv
<1>5. OwnersInv(sp, tk, lv2)
  BY DEF MallocInv, OwnersInv
<1>6. BytesInv(lv2, mm2)
  <2>1. ASSUME NEW q \in DOMAIN lv2, NEW a \in Bytes(q, lv2[q].size), q # p
        PROVE  mm2[a] = lv2[q].tag
    <3>1. PICK c \in DOMAIN sp, u \in tk :
            /\ In(sp, c, u, q)
            /\ q + lv[q].size <= u + sp[c].block_size
      BY <1>2 DEF Holds
    <3>2. lv2[q] = lv[q] /\ a \in Bytes(q, lv[q].size) /\ lv[q].size \in Nat
      BY <2>1, <1>2, UsageFields
    <3>3. In(sp, c, u, a) /\ a \in Addresses
      BY <3>1, <3>2, <1>1, RoomInBlock
    <3>4. a \notin Bytes(t, sp[b].block_size)
      <4>1. ASSUME a \in Bytes(t, sp[b].block_size) PROVE FALSE
        <5>1. In(sp, b, t, a)
          BY <4>1, <1>1 DEF In
        <5>2. b = c /\ t = u
          BY <5>1, <3>3, <1>1, BlocksApart
        <5>3. In(sp, b, t, q)
          BY <5>2, <3>1
        <5>. QED  BY <5>3, <2>1, <1>1 DEF MallocInv, OwnersInv
      <4>. QED  BY <4>1
    <3>5. mm2[a] = mm[a]
      BY <3>3, <3>4 DEF KeepsOutside
    <3>6. mm[a] = lv[q].tag
      BY <3>2 DEF MallocInv, BytesInv
    <3>. QED  BY <3>2, <3>5, <3>6
  <2>2. ASSUME NEW a \in Bytes(p, lv2[p].size) PROVE mm2[a] = lv2[p].tag
    BY <1>7
  <2>. QED  BY <2>1, <2>2 DEF BytesInv, KeepsOutside
<1>. QED  BY <1>1, <1>4, <1>5, <1>6 DEF MallocInv

-----------------------------------------------------------------------------
(* The actions                                                             *)

\* What the bitmaps have as allocated are blocks.
LEMMA TakenBlocks ==
  Inv => \A t \in taken : \E b \in DOMAIN spans : IsBlock(spans, b, t)
  BY InDomain DEF Inv, MallocInv, OwnersInv

\* The program has a tag for one allocation more.
LEMMA UnusedTag ==
  ASSUME Inv, Room
  PROVE  Unused \in Tags
<1>. DEFINE f == [p \in DOMAIN live |-> live[p].tag]
            S == {f[p] : p \in DOMAIN live}
<1>1. IsFiniteSet(DOMAIN live) /\ Cardinality(DOMAIN live) < MaxLive
  BY DEF Inv, MallocInv, Room
<1>2. f \in Surjection(DOMAIN live, S)
  BY DEF Surjection
<1>3. IsFiniteSet(S) /\ Cardinality(S) <= Cardinality(DOMAIN live)
  <2>. HIDE DEF f, S
  <2>. QED  BY <1>1, <1>2, FS_Surjection
<1>4. IsFiniteSet(Tags) /\ Cardinality(Tags) >= MaxLive /\ MaxLive \in Nat
  BY ShimAssumption
<1>5. ~(Tags \subseteq S)
  <2>1. ASSUME Tags \subseteq S PROVE FALSE
    <3>1. Cardinality(Tags) <= Cardinality(S)
      <4>. HIDE DEF f, S
      <4>. QED  BY <2>1, <1>3, FS_Subset
    <3>2. /\ Cardinality(Tags) \in Nat /\ Cardinality(S) \in Nat
          /\ Cardinality(DOMAIN live) \in Nat
      <4>. HIDE DEF f, S
      <4>. QED  BY <1>1, <1>3, <1>4, FS_CardinalityType
    <3>. HIDE DEF f, S
    <3>. QED  BY <3>1, <3>2, <1>1, <1>3, <1>4
  <2>. QED  BY <2>1
<1>6. \E tag \in Tags : \A p \in DOMAIN live : live[p].tag # tag
  BY <1>5
<1>. QED  BY <1>6 DEF Unused

\* Blocks are aligned and long enough, so a pointer into a new one, shifted by
\* no more than the slack, may be handed out.
LEMMA HandedOut ==
  ASSUME Inv, NEW request \in 0 .. SIZE_MAX, Serves(request),
         NEW place \in Places(request), Take(place),
         NEW size \in 0 .. SIZE_MAX, NEW align \in Nat \ {0}, NEW ptr,
         \/ ptr = place.start /\ align = BYTE_ALIGNMENT /\ size <= request
         \/ /\ ptr \in Nat /\ place.start <= ptr
            /\ ptr + size < place.start + request
            /\ align > BYTE_ALIGNMENT
            /\ AlignedAs(ptr, align) /\ ptr % BYTE_ALIGNMENT = 0,
         NEW tag \in Tags \cup {0},
         mem' = Fill(mem, ptr, size, tag),
         Own(ptr, size, align, tag)
  PROVE  Inv'
<1>. DEFINE sp == WithSpan(place)
<1>1. PICK b, t : b = place.base /\ t = place.start
  OBVIOUS
<1>2. Placed(place, request)
  BY TakenBlocks, PlaceFacts DEF Inv, MallocInv
<1>3. spans' = sp /\ taken' = taken \cup {t}
  BY <1>1 DEF Take, WithSpan
<1>4. live' = Owned(live, ptr, size, align, tag)
  BY DEF Own, Owned
<1>. HIDE DEF sp
<1>5. /\ SpansInv(sp) /\ Extends(sp, spans) /\ IsBlock(sp, b, t)
      /\ sp[b].block_size \in request .. SIZE_MAX
      /\ t % BYTE_ALIGNMENT = 0 /\ t \notin taken
  BY <1>1, <1>2 DEF Placed, sp
<1>6. t \in Nat /\ sp[b].block_size \in 1 .. SIZE_MAX
  BY <1>5, BlockFacts
<1>7. PICK bs \in Nat : bs = sp[b].block_size /\ bs >= 1 /\ bs >= request
  BY <1>5, <1>6, Constants
<1>8. /\ ptr \in Nat /\ ptr \in t .. t + bs - 1 /\ ptr + size <= t + bs
      /\ AlignedAs(ptr, align) /\ ptr % BYTE_ALIGNMENT = 0
      /\ align <= BYTE_ALIGNMENT => ptr = t
  <2>1. request \in Nat /\ size \in Nat /\ BYTE_ALIGNMENT \in Nat
    BY Constants
  <2>2. CASE ptr = t /\ align = BYTE_ALIGNMENT /\ size <= request
    BY <2>1, <2>2, <1>5, <1>6, <1>7 DEF AlignedAs
  <2>3. CASE /\ ptr \in Nat /\ t <= ptr
             /\ ptr + size < t + request
             /\ align > BYTE_ALIGNMENT
             /\ AlignedAs(ptr, align) /\ ptr % BYTE_ALIGNMENT = 0
    BY <2>1, <2>3, <1>6, <1>7
  <2>. QED  BY <2>2, <2>3, <1>1
<1>9. In(sp, b, t, ptr)
  BY <1>5, <1>7, <1>8 DEF In, Bytes
<1>10. Grantable(sp, taken, b, t, ptr, size, align)
  BY <1>5, <1>7, <1>8, <1>9 DEF Grantable
<1>11. size \in Nat /\ ptr + size <= t + sp[b].block_size
  BY <1>7, <1>8, Constants
<1>12. \A a \in Bytes(ptr, size) : In(sp, b, t, a) /\ a \in Addresses
  BY <1>5, <1>9, <1>11, RoomInBlock
<1>13. mem \in [Addresses -> Tags \cup {0, JUNK}]
  BY DEF Inv, MallocInv, BytesInv
<1>14. mem' \in [Addresses -> Tags \cup {0, JUNK}]
  BY <1>13 DEF Fill
<1>15. KeepsOutside(mem', mem, sp, b, t)
  <2>1. ASSUME NEW a \in Addresses \ Bytes(t, sp[b].block_size)
        PROVE  mem'[a] = mem[a]
    <3>1. a \notin Bytes(ptr, size)
      BY <1>12 DEF In
    <3>. QED  BY <3>1 DEF Fill
  <2>. QED  BY <2>1, <1>14 DEF KeepsOutside
<1>16. \A a \in Bytes(ptr, size) : mem'[a] = tag
  BY <1>12 DEF Fill
<1>17. MallocInv(spans, taken, mem, live)
  BY DEF Inv
<1>18. MallocInv(sp, taken \cup {t}, mem', Owned(live, ptr, size, align, tag))
  BY <1>5, <1>10, <1>15, <1>16, <1>17, GrantInv
<1>. QED  BY <1>3, <1>4, <1>18 DEF Inv

\* malloc, and what returns its pointer unchanged.
LEMMA MallocStep ==
  ASSUME Inv, NEW size \in 0 .. SIZE_MAX, Serves(size), Malloc(size)
  PROVE  Inv'
<1>1. PICK place \in Places(size) :
        /\ Take(place)
        /\ mem' = Fill(mem, place.start, size, Unused)
        /\ Own(place.start, size, BYTE_ALIGNMENT, Unused)
  BY DEF Malloc
<1>2. Unused \in Tags \cup {0}
  BY UnusedTag DEF Malloc
<1>3. size <= size /\ BYTE_ALIGNMENT \in Nat \ {0}
  BY Constants
<1>. QED  BY <1>1, <1>2, <1>3, HandedOut

\* Without overflow the product is the size that is asked for.
LEMMA Product ==
  ASSUME NEW num \in 0 .. SIZE_MAX, NEW size \in 0 .. SIZE_MAX,
         ~ProductOverflows(num, size)
  PROVE  num * size \in 0 .. SIZE_MAX /\ SizeT(num * size) = num * size
<1>1. num \in Nat /\ size \in Nat /\ SIZE_MAX \in Nat
  BY Constants
<1>2. num * size \in Nat
  BY <1>1
<1>3. num * size <= SIZE_MAX
  <2>1. CASE num = 0
    <3>1. num * size = 0
      BY <2>1, <1>1
    <3>. QED  BY <3>1, <1>1
  <2>2. CASE num # 0
    <3>1. size <= SIZE_MAX \div num
      <4>1. SIZE_MAX \div num \in Nat
        BY <2>2, <1>1, DivMod
      <4>. QED  BY <2>2, <4>1, <1>1 DEF ProductOverflows
    <3>2. PICK q \in Nat, r \in Nat : q = SIZE_MAX \div num /\ SIZE_MAX = num * q + r
      <4>1. /\ SIZE_MAX \div num \in Nat /\ SIZE_MAX % num \in 0 .. num - 1
            /\ SIZE_MAX = num * (SIZE_MAX \div num) + (SIZE_MAX % num)
        BY <2>2, <1>1, DivMod
      <4>2. PICK r \in Nat : r = SIZE_MAX % num
        BY <4>1, <1>1
      <4>. QED  BY <4>1, <4>2
    <3>3. PICK d \in Nat : q = size + d
      <4>1. q - size \in Nat /\ q = size + (q - size)
        BY <3>1, <3>2, <1>1
      <4>. QED  BY <4>1
    <3>4. num * q = num * size + num * d /\ num * d \in Nat
      BY <3>3, <1>1
    <3>. QED  BY <3>2, <3>4, <1>1, <1>2
  <2>. QED  BY <2>1, <2>2
<1>4. PICK x \in Nat : x = num * size /\ x <= SIZE_MAX
  BY <1>2, <1>3
<1>5. x % (SIZE_MAX + 1) = x
  BY <1>1, <1>4, ModSmall
<1>. QED  BY <1>4, <1>5 DEF SizeT

\* ccalloc, whose product does not overflow.
LEMMA CallocStep ==
  ASSUME Inv, NEW num \in 0 .. SIZE_MAX, NEW size \in 0 .. SIZE_MAX,
         ~ProductOverflows(num, size) => Serves(num * size), Calloc(num, size)
  PROVE  Inv'
<1>1. ~ProductOverflows(num, size)
  BY DEF Calloc
<1>2. PICK total \in 0 .. SIZE_MAX :
        total = num * size /\ SizeT(num * size) = total /\ Serves(total)
  BY <1>1, Product
<1>3. PICK place \in Places(total) :
        /\ Take(place)
        /\ mem' = Fill(mem, place.start, total, 0)
        /\ Own(place.start, total, BYTE_ALIGNMENT, 0)
  BY <1>2 DEF Calloc, ZeroFill
<1>4. total <= total /\ BYTE_ALIGNMENT \in Nat \ {0}
  BY Constants
<1>. QED  BY <1>2, <1>3, <1>4, HandedOut

\* The shift to a larger alignment is within the slack.
LEMMA MemalignStep ==
  ASSUME Inv, NEW promised \in Nat, NEW alignment \in Nat, NEW size \in 0 .. SIZE_MAX,
         ServesAligned(alignment, size),
         alignment > BYTE_ALIGNMENT => alignment % BYTE_ALIGNMENT = 0,
         \/ promised = alignment
         \/ promised = PAGE_SIZE /\ alignment = VALLOC_ALIGNMENT,
         MemalignFor(promised, alignment, size)
  PROVE  Inv'
<1>1. CASE alignment <= BYTE_ALIGNMENT
  BY <1>1, MallocStep DEF MemalignFor, ServesAligned
<1>2. CASE ~(alignment <= BYTE_ALIGNMENT)
  <2>1. /\ Room /\ size <= SIZE_MAX - alignment
        /\ \E place \in Places(size + Slack(alignment)) :
             /\ Take(place)
             /\ mem' = Fill(mem, RoundUp(place.start, alignment), size, Unused)
             /\ Own(RoundUp(place.start, alignment), size, promised, Unused)
    BY <1>2 DEF MemalignFor
  <2>2. /\ alignment \in Nat \ {0} /\ alignment > BYTE_ALIGNMENT /\ size \in Nat
        /\ alignment % BYTE_ALIGNMENT = 0
    BY <1>2, Constants
  <2>3. PICK request \in 0 .. SIZE_MAX :
          request = size + Slack(alignment) /\ request = size + alignment - 1
    BY <2>1, <2>2, Constants DEF Slack
  <2>4. Serves(request)
    BY <1>2, <2>1, <2>3 DEF ServesAligned
  <2>5. PICK place \in Places(request) :
          /\ Take(place)
          /\ mem' = Fill(mem, RoundUp(place.start, alignment), size, Unused)
          /\ Own(RoundUp(place.start, alignment), size, promised, Unused)
    BY <2>1, <2>3
  <2>6. Placed(place, request)
    BY <2>4, TakenBlocks, PlaceFacts DEF Inv, MallocInv
  <2>7. PICK t \in Nat : t = place.start /\ t % BYTE_ALIGNMENT = 0
    BY <2>6, BlockFacts DEF Placed
  <2>8. /\ RoundUp(t, alignment) \in t .. t + alignment - 1
        /\ RoundUp(t, alignment) % alignment = 0
    BY <2>2, <2>7, RoundUpMultiple
  <2>9. /\ RoundUp(t, alignment) % BYTE_ALIGNMENT = 0
        /\ RoundUp(t, alignment) + BYTE_ALIGNMENT <= t + alignment
    BY <2>2, <2>7, Constants, RoundUpGranules
  <2>10. PICK ptr \in Nat : /\ ptr = RoundUp(t, alignment)
                            /\ t <= ptr /\ ptr + BYTE_ALIGNMENT <= t + alignment
                            /\ ptr % alignment = 0 /\ ptr % BYTE_ALIGNMENT = 0
    <3>1. PICK ptr \in t .. t + alignment - 1 : ptr = RoundUp(t, alignment)
      BY <2>8
    <3>2. ptr \in Nat /\ t <= ptr
      BY <3>1, <2>7
    <3>. QED  BY <3>1, <3>2, <2>8, <2>9
  <2>11. ptr + size < t + request
    BY <2>2, <2>3, <2>10, Constants
  <2>12. Unused \in Tags \cup {0}
    BY <2>1, UnusedTag
  <2>13. /\ promised \in Nat \ {0} /\ promised > BYTE_ALIGNMENT
         /\ AlignedAs(ptr, promised)
    BY <2>2, <2>10, Constants, Granules DEF AlignedAs
  <2>. QED  BY <2>4, <2>5, <2>7, <2>10, <2>11, <2>12, <2>13, HandedOut
<1>. QED  BY <1>1, <1>2

\* A pointer in use, its span and its block.
LEMMA PointerInBlock ==
  ASSUME Inv, NEW ptr \in DOMAIN live
  PROVE  \E b \in DOMAIN spans, t \in taken :
           /\ In(spans, b, t, ptr) /\ BaseOf(ptr) = b /\ BlockStart(ptr) = t
           /\ spans[b].block_size \in 1 .. SIZE_MAX /\ t \in Nat
           /\ live[ptr].size \in 0 .. SIZE_MAX /\ live[ptr].tag \in Tags \cup {0}
           /\ ptr + live[ptr].size <= t + spans[b].block_size
           /\ live[ptr].align <= BYTE_ALIGNMENT => ptr = t
           /\ live[ptr] \in Usage
<1>1. /\ live[ptr] \in Usage
      /\ Holds(spans, taken, live, ptr)
  BY DEF Inv, MallocInv, LiveInv
<1>6. live[ptr].size \in 0 .. SIZE_MAX /\ live[ptr].tag \in Tags \cup {0}
  BY <1>1, UsageFields
<1>2. PICK b \in DOMAIN spans, t \in taken :
        /\ In(spans, b, t, ptr)
        /\ ptr + live[ptr].size <= t + spans[b].block_size
        /\ live[ptr].align <= BYTE_ALIGNMENT => ptr = t
  BY <1>1 DEF Holds
<1>3. SpansInv(spans)
  BY DEF Inv, MallocInv
<1>4. BaseOf(ptr) = b /\ BlockStart(ptr) = t
  BY <1>2, <1>3, Found
<1>5. spans[b].block_size \in 1 .. SIZE_MAX /\ t \in Nat
  BY <1>2, <1>3, BlockFacts DEF In
<1>. QED  BY <1>1, <1>2, <1>4, <1>5, <1>6

\* cfree of a pointer anywhere in its block.
LEMMA FreeStep ==
  ASSUME Inv, NEW ptr \in DOMAIN live, Free(ptr)
  PROVE  Inv'
<1>1. PICK b \in DOMAIN spans, t \in taken :
        In(spans, b, t, ptr) /\ BaseOf(ptr) = b /\ BlockStart(ptr) = t
  BY PointerInBlock
<1>. DEFINE gone == IF (taken \ {t}) \cap Extent(b) = {} THEN {b} ELSE {}
<1>2. /\ taken' = taken \ {t}
      /\ spans' = [c \in DOMAIN spans \ gone |-> spans[c]]
      /\ live' = [q \in DOMAIN live \ {ptr} |-> live[q]]
      /\ mem' = [a \in Addresses |->
                   IF a \in Bytes(t, spans[b].block_size) THEN JUNK ELSE mem[a]]
  BY <1>1 DEF Free, Freed
<1>3. Extends(spans, spans')
  BY <1>2 DEF Extends
<1>4. SpansInv(spans) /\ mem \in [Addresses -> Tags \cup {0, JUNK}]
  BY DEF Inv, MallocInv, BytesInv
<1>5. ASSUME NEW c \in DOMAIN spans, NEW u \in taken \ {t}, IsBlock(spans, c, u)
      PROVE  c \in DOMAIN spans'
  <2>1. u \in Extent(c)
    <3>1. /\ u \in Nat /\ spans[c].block_size \in 1 .. SIZE_MAX
          /\ Bytes(u, spans[c].block_size) \subseteq Extent(c)
      BY <1>4, <1>5, BlockFacts DEF Extent
    <3>2. u \in Bytes(u, spans[c].block_size)
      BY <3>1, Constants DEF Bytes
    <3>. QED  BY <3>1, <3>2
  <2>2. c \notin gone
    BY <2>1
  <2>. QED  BY <2>2, <1>2
<1>6. KeepsOutside(mem', mem, spans, b, t)
  BY <1>2, <1>4 DEF KeepsOutside
<1>7. MallocInv(spans, taken, mem, live)
  BY DEF Inv
<1>. HIDE DEF gone
<1>8. MallocInv(spans', taken \ {t}, mem', live')
  BY <1>1, <1>2, <1>3, <1>5, <1>6, <1>7, FreeInv
<1>. QED  BY <1>2, <1>8 DEF Inv

\* crealloc into the block the pointer has.
LEMMA ReallocInPlaceStep ==
  ASSUME Inv, NEW ptr \in DOMAIN live, live[ptr].align <= BYTE_ALIGNMENT,
         NEW size \in 0 .. SIZE_MAX, ReallocInPlace(ptr, size)
  PROVE  Inv'
<1>1. PICK b \in DOMAIN spans, t \in taken :
        /\ In(spans, b, t, ptr) /\ BaseOf(ptr) = b /\ ptr = t
        /\ spans[b].block_size \in 1 .. SIZE_MAX /\ t \in Nat
        /\ live[ptr].tag \in Tags \cup {0} /\ live[ptr] \in Usage
  BY PointerInBlock
<1>2. PICK tag \in Tags \cup {0} : tag = live[ptr].tag
  BY <1>1
<1>3. /\ spans[b].block_size >= size
      /\ live' = [live EXCEPT ![ptr].size = size, ![ptr].align = BYTE_ALIGNMENT]
      /\ mem' = Fill(mem, ptr, size, tag)
      /\ spans' = spans /\ taken' = taken
  BY <1>1, <1>2 DEF ReallocInPlace, StaysInPlace
<1>4. SpansInv(spans) /\ mem \in [Addresses -> Tags \cup {0, JUNK}]
  BY DEF Inv, MallocInv, BytesInv
<1>5. ptr + size <= t + spans[b].block_size /\ size \in Nat /\ size <= spans[b].block_size
  BY <1>1, <1>3, Constants
<1>6. \A a \in Bytes(ptr, size) : In(spans, b, t, a) /\ a \in Addresses
  BY <1>1, <1>4, <1>5, RoomInBlock
<1>7. mem' \in [Addresses -> Tags \cup {0, JUNK}]
  BY <1>2, <1>3, <1>4 DEF Fill
<1>8. KeepsOutside(mem', mem, spans, b, t)
  <2>1. ASSUME NEW a \in Addresses \ Bytes(t, spans[b].block_size)
        PROVE  mem'[a] = mem[a]
    <3>1. a \notin Bytes(ptr, size)
      BY <1>6 DEF In
    <3>. QED  BY <3>1, <1>3 DEF Fill
  <2>. QED  BY <2>1, <1>7 DEF KeepsOutside
<1>9. \A a \in Bytes(ptr, size) : mem'[a] = tag
  BY <1>3, <1>6 DEF Fill
<1>10. DOMAIN live' = DOMAIN live /\ \A q \in DOMAIN live \ {ptr} : live'[q] = live[q]
  BY <1>3
<1>11. live'[ptr] = [size |-> size, align |-> BYTE_ALIGNMENT, tag |-> tag]
  <2>1. live[ptr] \in [size : 0 .. SIZE_MAX, align : Nat \ {0}, tag : Tags \cup {0}]
    BY <1>1 DEF Usage
  <2>2. live'[ptr] = [[live[ptr] EXCEPT !.size = size] EXCEPT !.align = BYTE_ALIGNMENT]
    BY <1>3
  <2>. QED  BY <2>1, <2>2, <1>2
<1>12. MallocInv(spans, taken, mem, live)
  BY DEF Inv
<1>13. MallocInv(spans, taken, mem', live')
  BY <1>1, <1>2, <1>5, <1>8, <1>9, <1>10, <1>11, <1>12, ResizeInv
<1>. QED  BY <1>3, <1>13 DEF Inv

\* A move hands out the new block, with the old contents, and then frees the
\* old one.
LEMMA ReallocMoveStep ==
  ASSUME Inv, NEW ptr \in DOMAIN live, live[ptr].align <= BYTE_ALIGNMENT,
         NEW size \in 0 .. SIZE_MAX, Serves(size), ReallocMove(ptr, size)
  PROVE  Inv'
<1>1. PICK b \in DOMAIN spans, t \in taken :
        /\ In(spans, b, t, ptr) /\ BaseOf(ptr) = b /\ BlockStart(ptr) = t /\ ptr = t
        /\ spans[b].block_size \in 1 .. SIZE_MAX /\ t \in Nat
        /\ live[ptr].size \in 0 .. SIZE_MAX /\ live[ptr].tag \in Tags \cup {0}
        /\ ptr + live[ptr].size <= t + spans[b].block_size
  BY PointerInBlock
<1>2. PICK osize \in Nat, tag \in Tags \cup {0}, bs \in Nat \ {0} :
        /\ osize = live[ptr].size /\ tag = live[ptr].tag /\ bs = spans[b].block_size
        /\ osize <= bs /\ bs \in 1 .. SIZE_MAX
  BY <1>1, Constants
<1>3. PICK place \in Places(size) :
        LET to == place.start
            freed == Freed(ptr, taken \cup {to})
        IN /\ taken' = freed.taken
           /\ spans' = [c \in (DOMAIN spans \cup {place.base}) \ freed.gone |->
                          IF c = place.base
                            THEN [block_size |-> place.block_size,
                                  length |-> place.length]
                            ELSE spans[c]]
           /\ mem' = Fill(Copied(ptr, to), to + osize, size - osize, tag)
           /\ live' = [p \in (DOMAIN live \ {ptr}) \cup {to} |->
                         IF p = to THEN [size |-> size, align |-> BYTE_ALIGNMENT,
                                         tag |-> tag]
                         ELSE live[p]]
  BY <1>2 DEF ReallocMove
<1>4. bs < size /\ size \in Nat
  BY <1>1, <1>2, Constants DEF ReallocMove, StaysInPlace
<1>5. PICK nb, to : nb = place.base /\ to = place.start
  OBVIOUS
<1>. DEFINE sp   == WithSpan(place)
            tk   == taken \cup {to}
            gone == IF (tk \ {t}) \cap Extent(b) = {} THEN {b} ELSE {}
<1>6. /\ taken' = tk \ {t}
      /\ DOMAIN spans' = DOMAIN sp \ gone
      /\ \A c \in DOMAIN spans' : spans'[c] = sp[c]
      /\ mem' = Fill(Copied(ptr, to), to + osize, size - osize, tag)
      /\ live' = [p \in (DOMAIN live \ {ptr}) \cup {to} |->
                    IF p = to THEN [size |-> size, align |-> BYTE_ALIGNMENT, tag |-> tag]
                    ELSE live[p]]
  BY <1>1, <1>3, <1>5 DEF Freed, WithSpan
<1>7. Placed(place, size)
  BY TakenBlocks, PlaceFacts DEF Inv, MallocInv
<1>. HIDE DEF sp
<1>8. /\ SpansInv(sp) /\ Extends(sp, spans) /\ IsBlock(sp, nb, to)
      /\ sp[nb].block_size \in size .. SIZE_MAX
      /\ to % BYTE_ALIGNMENT = 0 /\ to \notin taken
  BY <1>5, <1>7 DEF Placed, sp
<1>9. to \in Nat /\ sp[nb].block_size \in 1 .. SIZE_MAX
  BY <1>8, BlockFacts
<1>10. PICK nbs \in Nat : nbs = sp[nb].block_size /\ size <= nbs
  BY <1>8, <1>9, Constants
<1>11. SpansInv(spans) /\ mem \in [Addresses -> Tags \cup {0, JUNK}]
  BY DEF Inv, MallocInv, BytesInv
<1>12. In(sp, b, t, ptr) /\ b \in DOMAIN sp /\ sp[b].block_size = bs
       /\ sp[b].length = spans[b].length
  BY <1>1, <1>2, <1>8, InExtends DEF Extends
<1>13. t # to /\ ptr # to
  BY <1>1, <1>8
\* the two blocks
<1>14. In(sp, nb, to, to) /\ Bytes(to, nbs) \subseteq Addresses
  <2>1. to \in Bytes(to, nbs)
    BY <1>4, <1>9, <1>10, <1>2 DEF Bytes
  <2>2. Bytes(to, nbs) \subseteq Addresses
    BY <1>8, <1>10, BlockFacts
  <2>. QED  BY <2>1, <2>2, <1>8, <1>10 DEF In
<1>15. \A a \in Bytes(to, nbs) : a \notin Bytes(t, bs)
  <2>1. ASSUME NEW a \in Bytes(to, nbs), a \in Bytes(t, bs) PROVE FALSE
    <3>1. In(sp, nb, to, a)
      BY <2>1, <1>8, <1>10 DEF In
    <3>2. In(sp, b, t, a)
      BY <2>1, <1>12 DEF In
    <3>. QED  BY <3>1, <3>2, <1>8, <1>13, BlocksApart
  <2>. QED  BY <2>1
\* the contents
<1>16. PICK copied : copied = Copied(ptr, to)
  OBVIOUS
<1>17. /\ copied \in [Addresses -> Tags \cup {0, JUNK}]
       /\ \A a \in Addresses \ Bytes(to, bs) : a \notin Bytes(t, bs) => copied[a] = mem[a]
       /\ \A a \in Addresses \cap Bytes(to, bs) :
            ptr + (a - to) \in Addresses => copied[a] = mem[ptr + (a - to)]
  <2>1. copied = [a \in Addresses |->
                    IF a \in Bytes(to, bs) /\ ptr + (a - to) \in Addresses
                      THEN mem[ptr + (a - to)]
                    ELSE IF a \in Bytes(t, bs) THEN JUNK ELSE mem[a]]
    BY <1>1, <1>2, <1>16 DEF Copied
  <2>. QED  BY <2>1, <1>11
<1>18. mem' = [a \in Addresses |->
                 IF a \in Bytes(to + osize, size - osize) THEN tag ELSE copied[a]]
  BY <1>6, <1>16 DEF Fill
<1>19. mem' \in [Addresses -> Tags \cup {0, JUNK}]
  BY <1>17, <1>18
<1>20. \A a \in Addresses \ Bytes(to, nbs) : a \notin Bytes(t, bs) => mem'[a] = mem[a]
  <2>1. Bytes(to, bs) \subseteq Bytes(to, nbs)
    BY <1>2, <1>4, <1>9, <1>10 DEF Bytes
  <2>2. Bytes(to + osize, size - osize) \subseteq Bytes(to, nbs)
    BY <1>2, <1>4, <1>9, <1>10 DEF Bytes
  <2>. QED  BY <2>1, <2>2, <1>17, <1>18
<1>21. \A a \in Bytes(to, size) : mem'[a] = tag /\ a \notin Bytes(t, bs) /\ a \in Addresses
  <2>1. ASSUME NEW a \in Bytes(to, size)
        PROVE  mem'[a] = tag /\ a \notin Bytes(t, bs) /\ a \in Addresses
    <3>1. a \in to .. to + size - 1
      BY <2>1 DEF Bytes
    <3>2. a \in Bytes(to, nbs)
      BY <3>1, <1>4, <1>9, <1>10 DEF Bytes
    <3>3. a \in Addresses /\ a \notin Bytes(t, bs)
      BY <3>2, <1>14, <1>15
    <3>4. CASE a \in Bytes(to + osize, size - osize)
      BY <3>3, <3>4, <1>18
    <3>5. CASE a \notin Bytes(to + osize, size - osize)
      <4>1. a < to + osize
        BY <3>1, <3>5, <1>2, <1>4, <1>9 DEF Bytes
      <4>2. a \in Bytes(to, bs)
        BY <3>1, <4>1, <1>2, <1>9 DEF Bytes
      <4>3. ptr + (a - to) \in Bytes(ptr, osize)
        BY <3>1, <4>1, <1>1, <1>2, <1>9 DEF Bytes
      <4>4. ptr + osize <= t + spans[b].block_size
        BY <1>1, <1>2
      <4>5. ptr + (a - to) \in Addresses
        BY <4>3, <4>4, <1>1, <1>2, <1>11, RoomInBlock
      <4>6. mem[ptr + (a - to)] = tag
        BY <4>3, <1>2 DEF Inv, MallocInv, BytesInv
      <4>7. mem'[a] = copied[a]
        BY <3>3, <3>5, <1>18
      <4>. QED  BY <3>3, <4>2, <4>5, <4>6, <4>7, <1>17
    <3>. QED  BY <3>4, <3>5
  <2>. QED  BY <2>1
\* the new block is handed out
<1>. DEFINE lv == Owned(live, to, size, BYTE_ALIGNMENT, tag)
            mm == [a \in Addresses |-> IF a \in Bytes(t, bs) THEN mem[a] ELSE mem'[a]]
<1>22. Grantable(sp, taken, nb, to, to, size, BYTE_ALIGNMENT)
  <2>1. to + size <= to + sp[nb].block_size
    BY <1>4, <1>9, <1>10
  <2>. QED  BY <2>1, <1>8, <1>14, Constants DEF Grantable, AlignedAs
<1>23. KeepsOutside(mm, mem, sp, nb, to)
  <2>1. mm \in [Addresses -> Tags \cup {0, JUNK}]
    BY <1>11, <1>19
  <2>2. \A a \in Addresses \ Bytes(to, nbs) : mm[a] = mem[a]
    BY <1>20
  <2>. QED  BY <2>1, <2>2, <1>10 DEF KeepsOutside
<1>24. \A a \in Bytes(to, size) : mm[a] = tag
  BY <1>21
<1>25. \A a \in Addresses \ Bytes(t, bs) : mem'[a] = mm[a]
  OBVIOUS
<1>. HIDE DEF mm
<1>26. MallocInv(sp, tk, mm, lv)
  <2>1. MallocInv(spans, taken, mem, live)
    BY DEF Inv
  <2>. HIDE DEF lv
  <2>2. MallocInv(sp, taken \cup {to}, mm, Owned(live, to, size, BYTE_ALIGNMENT, tag))
    BY <2>1, <1>8, <1>22, <1>23, <1>24, GrantInv
  <2>. QED  BY <2>2 DEF lv
\* the old block is freed
<1>27. /\ ptr \in DOMAIN lv /\ t \in tk
       /\ live' = [q \in DOMAIN lv \ {ptr} |-> lv[q]]
  <2>1. DOMAIN lv = DOMAIN live \cup {to}
    BY DEF Owned
  <2>2. DOMAIN lv \ {ptr} = (DOMAIN live \ {ptr}) \cup {to}
    BY <2>1, <1>13
  <2>3. \A q \in DOMAIN lv : lv[q] = IF q = to THEN [size |-> size, align |-> BYTE_ALIGNMENT,
                                                   tag |-> tag] ELSE live[q]
    BY DEF Owned
  <2>. HIDE DEF lv
  <2>4. [q \in DOMAIN lv \ {ptr} |-> lv[q]]
          = [p \in (DOMAIN live \ {ptr}) \cup {to} |->
               IF p = to THEN [size |-> size, align |-> BYTE_ALIGNMENT, tag |-> tag]
               ELSE live[p]]
    BY <2>2, <2>3
  <2>. QED  BY <2>1, <2>4, <1>1, <1>6
<1>28. Extends(sp, spans')
  BY <1>6 DEF Extends
<1>29. ASSUME NEW c \in DOMAIN sp, NEW u \in tk \ {t}, IsBlock(sp, c, u)
       PROVE  c \in DOMAIN spans'
  <2>1. /\ u \in Nat /\ sp[c].block_size \in 1 .. SIZE_MAX
        /\ Bytes(u, sp[c].block_size) \subseteq Bytes(c, sp[c].length)
    BY <1>8, <1>29, BlockFacts
  <2>2. u \in Bytes(u, sp[c].block_size)
    BY <2>1, Constants DEF Bytes
  <2>3. c = b => u \in Extent(b)
    BY <2>1, <2>2, <1>12 DEF Extent
  <2>4. c \notin gone
    BY <2>3
  <2>. QED  BY <2>4, <1>6
<1>30. KeepsOutside(mem', mm, sp, b, t)
  BY <1>12, <1>19, <1>25 DEF KeepsOutside
<1>. HIDE DEF lv, tk, gone
<1>31. MallocInv(spans', tk \ {t}, mem', live')
  BY <1>12, <1>26, <1>27, <1>28, <1>29, <1>30, FreeInv
<1>. QED  BY <1>6, <1>31 DEF Inv

-----------------------------------------------------------------------------
(* The invariant                                                           *)

\* No memory is in use at first.
LEMMA InitInv == Init => Inv
<1>. SUFFICES ASSUME Init PROVE Inv
  OBVIOUS
<1>1. /\ DOMAIN spans = {} /\ taken = {} /\ DOMAIN live = {}
      /\ mem = [a \in Addresses |-> JUNK]
  BY DEF Init
<1>2. SpansInv(spans) /\ LiveInv(spans, taken, live) /\ OwnersInv(spans, taken, live)
  BY <1>1 DEF SpansInv, LiveInv, OwnersInv
<1>3. BytesInv(live, mem)
  BY <1>1 DEF BytesInv
<1>4. IsFiniteSet(DOMAIN live)
  BY <1>1, FS_EmptySet
<1>. QED  BY <1>2, <1>3, <1>4 DEF Inv, MallocInv

\* The arguments of the entry points are of type size_t.
LEMMA Arguments ==
  /\ Sizes \subseteq 0 .. SIZE_MAX
  /\ \A a \in CallocArgs : a[1] \in 0 .. SIZE_MAX /\ a[2] \in 0 .. SIZE_MAX
  /\ \A a \in AlignArgs : a[1] \in Nat /\ a[2] \in 0 .. SIZE_MAX
  /\ \A s \in Strings : s[1] \in 0 .. SIZE_MAX - 1 /\ s[2] \in 0 .. SIZE_MAX - 1
<1>1. \A a \in AlignArgs : a[1] \in 0 .. SIZE_MAX /\ a[2] \in 0 .. SIZE_MAX
  BY ShimAssumption
<1>. QED  BY <1>1, ShimAssumption

\* operator new's size is one, too.
LEMMA AtLeastOneType ==
  ASSUME NEW size \in 0 .. SIZE_MAX
  PROVE  AtLeastOne(size) \in 0 .. SIZE_MAX
  BY Constants DEF AtLeastOne

\* The entry points that take an alignment, a power of two.
LEMMA AlignedStep ==
  ASSUME Inv, NoWrap, NEW a \in AlignArgs,
         \/ AlignedAlloc(a[1], a[2]) \/ NewAligned(a[1], a[2])
         \/ PosixMemalign(a[1], a[2])
  PROVE  Inv'
<1>1. a[1] \in Nat /\ a[2] \in 0 .. SIZE_MAX
  BY Arguments
<1>2. a[1] > BYTE_ALIGNMENT => a[1] % BYTE_ALIGNMENT = 0
  <2>1. PowerOfTwo(a[1])
    BY DEF AlignedAlloc, NewAligned, PosixMemalign
  <2>. QED  BY <2>1, AlignmentAssumption
<1>3. ServesAligned(a[1], a[2]) /\ ServesAligned(a[1], AtLeastOne(a[2]))
  BY DEF NoWrap
<1>4. CASE Memalign(a[1], a[2])
  BY <1>1, <1>2, <1>3, <1>4, MemalignStep DEF Memalign
<1>5. CASE Memalign(a[1], AtLeastOne(a[2]))
  <2>1. AtLeastOne(a[2]) \in 0 .. SIZE_MAX
    BY <1>1, AtLeastOneType
  <2>. QED  BY <2>1, <1>1, <1>2, <1>3, <1>5, MemalignStep DEF Memalign
<1>. QED  BY <1>4, <1>5 DEF AlignedAlloc, NewAligned, PosixMemalign

\* The entry points that take a size.
LEMMA SizeStep ==
  ASSUME Inv, NoWrap, NEW size \in Sizes, Malloc(size) \/ New(size) \/ Valloc(size)
  PROVE  Inv'
<1>1. size \in 0 .. SIZE_MAX /\ AtLeastOne(size) \in 0 .. SIZE_MAX
  BY Arguments, AtLeastOneType
<1>2. /\ Serves(size) /\ Serves(AtLeastOne(size))
      /\ ServesAligned(VALLOC_ALIGNMENT, size)
  BY DEF NoWrap
<1>3. CASE Malloc(size)
  BY <1>1, <1>2, <1>3, MallocStep
<1>4. CASE New(size)
  BY <1>1, <1>2, <1>4, MallocStep DEF New
<1>5. CASE Valloc(size)
  <2>1. PAGE_SIZE \in Nat
    BY Constants
  <2>2. MemalignFor(PAGE_SIZE, VALLOC_ALIGNMENT, size)
    BY <1>5 DEF Valloc
  <2>. QED  BY <2>1, <2>2, <1>1, <1>2, VallocGranules, MemalignStep
<1>. QED  BY <1>3, <1>4, <1>5

\* strdup and strndup.
LEMMA StringStep ==
  ASSUME Inv, NoWrap, NEW s \in Strings, Strdup(s[1]) \/ Strndup(s[1], s[2])
  PROVE  Inv'
<1>1. s[1] \in 0 .. SIZE_MAX - 1 /\ s[2] \in 0 .. SIZE_MAX - 1
  BY Arguments
<1>2. PICK n \in 0 .. SIZE_MAX - 1 : n = IF s[1] < s[2] THEN s[1] ELSE s[2]
  BY <1>1
<1>3. Serves(s[1] + 1) /\ Serves(n + 1)
  BY <1>2 DEF NoWrap
<1>4. s[1] + 1 \in 0 .. SIZE_MAX /\ n + 1 \in 0 .. SIZE_MAX
  BY <1>1, Constants
<1>5. Malloc(s[1] + 1) \/ Malloc(n + 1)
  BY <1>2 DEF Strdup, Strndup
<1>. QED  BY <1>3, <1>4, <1>5, MallocStep

\* crealloc of memory that is not over-aligned.
LEMMA ReallocStep ==
  ASSUME Inv, NoWrap, ~ReallocAligned, NEW ptr \in DOMAIN live, NEW size \in Sizes,
         Realloc(ptr, size)
  PROVE  Inv'
<1>1. size \in 0 .. SIZE_MAX /\ Serves(size)
  BY Arguments DEF NoWrap
<1>2. live[ptr].align <= BYTE_ALIGNMENT
  BY DEF Realloc
<1>3. \/ Free(ptr) \/ ReallocInPlace(ptr, size) \/ ReallocMove(ptr, size)
  BY DEF Realloc
<1>. QED  BY <1>1, <1>2, <1>3, FreeStep, ReallocInPlaceStep, ReallocMoveStep

\* Every entry point keeps the invariant.
LEMMA NextInv ==
  ASSUME NoWrap, ~ReallocAligned, Inv, [Next]_vars
  PROVE  Inv'
<1>1. CASE \E size \in Sizes : Malloc(size) \/ New(size) \/ Valloc(size)
  BY <1>1, SizeStep
<1>2. CASE \E a \in CallocArgs : Calloc(a[1], a[2])
  <2>1. PICK a \in CallocArgs : Calloc(a[1], a[2])
    BY <1>2
  <2>2. a[1] \in 0 .. SIZE_MAX /\ a[2] \in 0 .. SIZE_MAX
    BY Arguments
  <2>3. ~ProductOverflows(a[1], a[2]) => Serves(a[1] * a[2])
    BY DEF NoWrap
  <2>. QED  BY <2>1, <2>2, <2>3, CallocStep
<1>3. CASE \E a \in AlignArgs : \/ AlignedAlloc(a[1], a[2]) \/ NewAligned(a[1], a[2])
                                \/ PosixMemalign(a[1], a[2])
  BY <1>3, AlignedStep
<1>4. CASE \E s \in Strings : Strdup(s[1]) \/ Strndup(s[1], s[2])
  BY <1>4, StringStep
<1>5. CASE \E ptr \in DOMAIN live : Free(ptr) \/ \E size \in Sizes : Realloc(ptr, size)
  BY <1>5, FreeStep, ReallocStep
<1>6. CASE UNCHANGED vars
  BY <1>6 DEF vars, Inv
<1>. QED  BY <1>1, <1>2, <1>3, <1>4, <1>5, <1>6 DEF Next

\* The invariant holds, as long as round_up_page does not wrap (common.h:125) and
\* over-aligned memory is not reallocated (cmalloc.c:155).
THEOREM SpecInv ==
  ASSUME NoWrap, ~ReallocAligned
  PROVE  Spec => []Inv
<1>1. Init => Inv
  BY InitInv
<1>2. Inv /\ [Next]_vars => Inv'
  BY NextInv
<1>. QED  BY <1>1, <1>2, PTL DEF Spec

-----------------------------------------------------------------------------
(* What the invariant says of the program's memory                         *)

\* The types of the variables: spans and pointers stay inside memory.
THEOREM SpecTypeOK ==
  ASSUME NoWrap, ~ReallocAligned
  PROVE  Spec => []TypeOK
<1>1. Inv => TypeOK
  <2>. SUFFICES ASSUME Inv PROVE TypeOK
    OBVIOUS
  <2>1. SpansInv(spans)
    BY DEF Inv, MallocInv
  <2>2. ASSUME NEW b \in DOMAIN spans
        PROVE  Extent(b) \subseteq Addresses /\ spans[b].block_size \in 1 .. SIZE_MAX
    <3>1. PICK lim \in Nat : /\ lim = (LastPage + 1) * PAGE_SIZE
                             /\ Addresses = PAGE_SIZE .. lim - 1
      BY Limit
    <3>2. /\ b \in Addresses /\ spans[b].block_size \in 1 .. SIZE_MAX
          /\ spans[b].length \in Nat \ {0} /\ b + spans[b].length <= lim
      BY <2>1, <3>1 DEF SpansInv
    <3>3. b \in Nat /\ b >= PAGE_SIZE
      BY <3>1, <3>2, Constants
    <3>. QED  BY <3>1, <3>2, <3>3, Constants DEF Extent, Bytes
  <2>3. taken \subseteq Addresses
    BY <2>1, TakenBlocks, BlockFacts
  <2>4. mem \in [Addresses -> Tags \cup {0, JUNK}]
    BY DEF Inv, MallocInv, BytesInv
  <2>5. ASSUME NEW p \in DOMAIN live
        PROVE  /\ p \in Addresses /\ live[p].size \in 0 .. SIZE_MAX
               /\ live[p].tag \in Tags \cup {0}
    <3>1. PICK b \in DOMAIN spans, t \in taken :
            /\ In(spans, b, t, p)
            /\ live[p].size \in 0 .. SIZE_MAX /\ live[p].tag \in Tags \cup {0}
      BY PointerInBlock
    <3>2. p \in Addresses
      BY <3>1, <2>1, InDomain, BlockFacts
    <3>. QED  BY <3>1, <3>2
  <2>. QED  BY <2>2, <2>3, <2>4, <2>5 DEF TypeOK
<1>. QED  BY <1>1, SpecInv, PTL

\* Memory in use keeps what its owner wrote, whatever is allocated, moved and
\* freed around it (ccalloc, crealloc, cfree, cmalloc.c:105-165).
THEOREM SpecContentsKept ==
  ASSUME NoWrap, ~ReallocAligned
  PROVE  Spec => []ContentsKept
<1>1. Inv => ContentsKept
  <2>. SUFFICES ASSUME Inv, NEW p \in DOMAIN live, NEW a \in Bytes(p, live[p].size)
                PROVE  a \in Addresses /\ mem[a] = live[p].tag
    BY DEF ContentsKept
  <2>1. PICK b \in DOMAIN spans, t \in taken :
          /\ In(spans, b, t, p) /\ live[p].size \in 0 .. SIZE_MAX
          /\ p + live[p].size <= t + spans[b].block_size
    BY PointerInBlock
  <2>2. SpansInv(spans) /\ live[p].size \in Nat
    BY <2>1, Constants DEF Inv, MallocInv
  <2>3. a \in Addresses
    BY <2>1, <2>2, RoomInBlock
  <2>. QED  BY <2>3 DEF Inv, MallocInv, BytesInv
<1>. QED  BY <1>1, SpecInv, PTL

\* malloc_usable_size covers what the program asked for, inside the span
\* (cm_usable, alloc_shim.c:42-55).
THEOREM SpecUsableCoversRequest ==
  ASSUME NoWrap, ~ReallocAligned
  PROVE  Spec => []UsableCoversRequest
<1>1. Inv => UsableCoversRequest
  <2>. SUFFICES ASSUME Inv, NEW p \in DOMAIN live
                PROVE  /\ \E base \in DOMAIN spans : p \in Extent(base)
                       /\ Usable(p) >= live[p].size
                       /\ p + live[p].size <= BaseOf(p) + spans[BaseOf(p)].length
    BY DEF UsableCoversRequest
  <2>1. PICK b \in DOMAIN spans, t \in taken :
          /\ In(spans, b, t, p) /\ BaseOf(p) = b /\ BlockStart(p) = t
          /\ spans[b].block_size \in 1 .. SIZE_MAX /\ t \in Nat
          /\ live[p].size \in 0 .. SIZE_MAX
          /\ p + live[p].size <= t + spans[b].block_size
    BY PointerInBlock
  <2>2. SpansInv(spans) /\ IsBlock(spans, b, t) /\ p \in Bytes(t, spans[b].block_size)
    BY <2>1, InDomain DEF Inv, MallocInv
  <2>3. /\ b \in Nat /\ spans[b].length \in Nat
        /\ t + spans[b].block_size <= b + spans[b].length
        /\ Bytes(t, spans[b].block_size) \subseteq Extent(b)
    BY <2>2, BlockFacts DEF Extent
  <2>4. PICK bs \in Nat, size \in Nat, len \in Nat :
          bs = spans[b].block_size /\ size = live[p].size /\ len = spans[b].length
    BY <2>1, <2>3, Constants
  <2>5. p \in Nat
    BY <2>1, <2>2, <2>4 DEF Bytes
  <2>6. Usable(p) = bs - (p - t)
    BY <2>1, <2>4 DEF Usable
  <2>. QED  BY <2>1, <2>2, <2>3, <2>4, <2>5, <2>6
<1>. QED  BY <1>1, SpecInv, PTL

\* Every pointer has malloc's alignment and the one asked for (shim_memalign,
\* alloc_shim.c:66-80), where whole pages make up the 4096 bytes shim_valloc
\* aligns to (alloc_shim.c:146).  With longer pages valloc's pointers have only
\* that alignment, which SpecInv says.
THEOREM SpecAligned ==
  ASSUME NoWrap, ~ReallocAligned, VALLOC_ALIGNMENT % PAGE_SIZE = 0
  PROVE  Spec => []Aligned
<1>1. Inv => Aligned
  <2>. SUFFICES ASSUME Inv, NEW p \in DOMAIN live
                PROVE  p % live[p].align = 0 /\ p % BYTE_ALIGNMENT = 0
    BY DEF Aligned
  <2>1. AlignedAs(p, live[p].align) /\ p % BYTE_ALIGNMENT = 0
    BY DEF Inv, MallocInv, LiveInv
  <2>2. p \in Nat
    <3>1. PICK b \in DOMAIN spans, t \in taken :
            /\ In(spans, b, t, p) /\ t \in Nat
            /\ spans[b].block_size \in 1 .. SIZE_MAX
      BY PointerInBlock
    <3>2. p \in Bytes(t, spans[b].block_size)
      BY <3>1, InDomain
    <3>. QED  BY <3>1, <3>2, Constants DEF Bytes
  <2>3. p % VALLOC_ALIGNMENT = 0 => p % PAGE_SIZE = 0
    BY <2>2, VallocGranules, Constants, MultipleOfMultiple
  <2>. QED  BY <2>1, <2>3 DEF AlignedAs
<1>. QED  BY <1>1, SpecInv, PTL

\* The bitmaps have as allocated the blocks of the pointers in use, one each:
\* free of a shifted pointer frees its own block (alloc_shim.c:36-41).
THEOREM SpecFreesItsBlock ==
  ASSUME NoWrap, ~ReallocAligned
  PROVE  Spec => []FreesItsBlock
<1>1. Inv => FreesItsBlock
  <2>. SUFFICES ASSUME Inv PROVE FreesItsBlock
    OBVIOUS
  <2>. DEFINE f == [p \in DOMAIN live |-> BlockStart(p)]
  <2>1. \A p \in DOMAIN live : BlockStart(p) \in taken
    BY PointerInBlock
  <2>2. SpansInv(spans)
    BY DEF Inv, MallocInv
  <2>3. ASSUME NEW t \in taken
        PROVE  \E p \in DOMAIN live : BlockStart(p) = t
    <3>1. PICK b \in DOMAIN spans, p \in DOMAIN live : In(spans, b, t, p)
      BY DEF Inv, MallocInv, OwnersInv
    <3>. QED  BY <3>1, <2>2, Found
  <2>4. taken = {BlockStart(p) : p \in DOMAIN live}
    BY <2>1, <2>3
  <2>5. ASSUME NEW p \in DOMAIN live, NEW q \in DOMAIN live, BlockStart(p) = BlockStart(q)
        PROVE  p = q
    <3>1. PICK b \in DOMAIN spans, t \in taken : In(spans, b, t, p) /\ BlockStart(p) = t
                                               /\ spans[b].block_size \in 1 .. SIZE_MAX
                                               /\ t \in Nat
      BY PointerInBlock
    <3>2. PICK c \in DOMAIN spans, u \in taken : In(spans, c, u, q) /\ BlockStart(q) = u
                                               /\ spans[c].block_size \in 1 .. SIZE_MAX
      BY PointerInBlock
    <3>3. u = t
      BY <2>5, <3>1, <3>2
    <3>4. In(spans, b, t, t) /\ In(spans, c, t, t)
      <4>1. t \in Bytes(t, spans[b].block_size) /\ t \in Bytes(t, spans[c].block_size)
        BY <3>1, <3>2, Constants DEF Bytes
      <4>. QED  BY <4>1, <3>1, <3>2, <3>3 DEF In
    <3>5. b = c
      BY <3>4, <2>2, BlocksApart
    <3>. QED  BY <3>1, <3>2, <3>3, <3>5 DEF Inv, MallocInv, OwnersInv
  <2>6. f \in Bijection(DOMAIN live, taken)
    <3>1. f \in [DOMAIN live -> taken]
      BY <2>1
    <3>2. \A p, q \in DOMAIN live : f[p] = f[q] => p = q
      BY <2>5
    <3>3. \A t \in taken : \E p \in DOMAIN live : f[p] = t
      BY <2>3
    <3>. QED  BY <3>1, <3>2, <3>3 DEF Bijection, Injection, Surjection, IsInjective
  <2>7. ExistsBijection(DOMAIN live, taken) /\ IsFiniteSet(DOMAIN live)
    BY <2>6 DEF ExistsBijection, Inv, MallocInv
  <2>8. Cardinality(taken) = Cardinality(DOMAIN live)
    BY <2>7, FS_Bijection
  <2>. QED  BY <2>4, <2>8 DEF FreesItsBlock
<1>. QED  BY <1>1, SpecInv, PTL
=============================================================================
