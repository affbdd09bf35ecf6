--------------------------------- MODULE Shim ---------------------------------
(***************************************************************************)
(* The malloc family a program sees (src/bench/shim/alloc_shim.c and       *)
(* alloc_shim_new.cpp with the cmalloc backend, ccalloc and crealloc of    *)
(* src/src/cmalloc.c), down to the bytes of the blocks.                    *)
(*                                                                         *)
(* An address is a number, size_t is arithmetic modulo SIZE_MAX + 1.       *)
(* cmalloc is its result: a free block of the right class in some span, or *)
(* in a fresh one.  (The span at hand depends on the calling thread's bin, *)
(* which Cmalloc models.)  The program fills what it gets with a tag of    *)
(* its own, or leaves the zeros of calloc.  Bytes nobody owns are JUNK.    *)
(***************************************************************************)
EXTENDS Integers, FiniteSets

CONSTANTS
  BYTE_ALIGNMENT, PAGE_SIZE, SIZE_MAX,
  POINTER_SIZE,             \* sizeof(void *)
  VALLOC_ALIGNMENT,         \* what valloc takes for the size of a page
  Classes,                  \* the size classes
  SPAN_SIZE,                \* bytes in a span of any class
  LastPage,                 \* the pages mmap can return are 1 .. LastPage
  MaxLive,                  \* bound on the allocations in use
  Tags,                     \* what the program writes, another for each
  Sizes,                    \* arguments of malloc, realloc and new
  CallocArgs,               \* <<num, size>>
  AlignArgs,                \* <<alignment, size>>
  Strings,                  \* <<length, limit>> of strdup and strndup
  ReallocAligned            \* does the program realloc over-aligned memory?

ASSUME ShimAssumption ==
  /\ {BYTE_ALIGNMENT, PAGE_SIZE, SPAN_SIZE, SIZE_MAX, POINTER_SIZE} \subseteq Nat \ {0}
  /\ {LastPage, MaxLive} \subseteq Nat
  /\ Classes \subseteq 1 .. SIZE_MAX /\ Classes # {}
  /\ \A c \in Classes : c % BYTE_ALIGNMENT = 0 /\ c <= SPAN_SIZE
  /\ PAGE_SIZE % BYTE_ALIGNMENT = 0 /\ SPAN_SIZE % PAGE_SIZE = 0
  /\ (SIZE_MAX + 1) % PAGE_SIZE = 0
  /\ POINTER_SIZE < BYTE_ALIGNMENT /\ BYTE_ALIGNMENT < PAGE_SIZE
  /\ VALLOC_ALIGNMENT \in Nat /\ BYTE_ALIGNMENT < VALLOC_ALIGNMENT
  /\ Tags \subseteq Nat \ {0} /\ IsFiniteSet(Tags) /\ Cardinality(Tags) >= MaxLive
  /\ Sizes \subseteq 0 .. SIZE_MAX
  /\ CallocArgs \subseteq (0 .. SIZE_MAX) \X (0 .. SIZE_MAX)
  /\ AlignArgs \subseteq (0 .. SIZE_MAX) \X (0 .. SIZE_MAX)
  /\ Strings \subseteq (0 .. SIZE_MAX - 1) \X (0 .. SIZE_MAX - 1)
  /\ ReallocAligned \in BOOLEAN

Addresses == PAGE_SIZE .. (LastPage + 1) * PAGE_SIZE - 1

VARIABLES
  spans,    \* the initialized spans, by base: [block_size, length]
  taken,    \* first addresses of the blocks the bitmaps have as allocated
  mem,      \* the bytes
  live      \* the program: pointers in use, [size, align, tag], with the size and
            \* the alignment it asked for

JUNK == -1

vars == <<spans, taken, mem, live>>

SizeT(n) == n % (SIZE_MAX + 1)

Bytes(ptr, size) == ptr .. ptr + size - 1

RoundUp(n, unit) == ((n + unit - 1) \div unit) * unit

-----------------------------------------------------------------------------
(* cmalloc and cfree                                                       *)

\* Seeded fault: blocks are the length of the request.
BlockSizeExact(size) == IF size = 0 THEN 1 ELSE size

\* The class's size, or for a large request its own.
BlockSize(size) ==
  LET fitting == {c \in Classes : c >= size}
  IN IF fitting = {} THEN size ELSE CHOOSE c \in fitting : \A d \in fitting : c <= d

IsLarge(size) == \A c \in Classes : c < size

\* round_up_page wraps.
SpanLength(size) ==
  IF IsLarge(size) THEN (SizeT(size + PAGE_SIZE - 1) \div PAGE_SIZE) * PAGE_SIZE
                   ELSE SPAN_SIZE

Extent(base) == Bytes(base, spans[base].length)

\* Page-aligned runs that no span has.
FreeBases(length) ==
  {base \in Addresses :
     /\ base % PAGE_SIZE = 0
     /\ Bytes(base, length) \subseteq Addresses
     /\ \A other \in DOMAIN spans : Bytes(base, length) \cap Extent(other) = {}}

\* The blocks cmalloc may return.
Places(size) ==
  LET bs == BlockSize(size)
      fresh == {[base |-> base, start |-> base, block_size |-> bs,
                 length |-> SpanLength(size)] : base \in FreeBases(SpanLength(size))}
      inUse == {[base |-> base, start |-> base + i * bs, block_size |-> bs,
                 length |-> SPAN_SIZE] :
                  base \in {b \in DOMAIN spans : spans[b].block_size = bs},
                  i \in 0 .. SPAN_SIZE \div bs - 1}
  IN fresh \cup {p \in inUse : ~IsLarge(size) /\ p.start \notin taken}

Take(place) ==
  /\ spans' = [b \in DOMAIN spans \cup {place.base} |->
                 IF b = place.base THEN [block_size |-> place.block_size,
                                         length |-> place.length]
                 ELSE spans[b]]
  /\ taken' = taken \cup {place.start}

\* cmalloc_get_span
BaseOf(ptr) == CHOOSE base \in DOMAIN spans : ptr \in Extent(base)

\* Seeded fault: a pointer is taken to be the start of its block.
BlockStartUnshifted(ptr) == ptr

\* The block a pointer divides back to.
BlockStart(ptr) ==
  LET base == BaseOf(ptr)
      bs   == spans[base].block_size
  IN base + ((ptr - base) \div bs) * bs

\* cm_usable
Usable(ptr) == spans[BaseOf(ptr)].block_size - (ptr - BlockStart(ptr))

\* The spans and allocated blocks once the block of ptr is freed; an empty span
\* is given back.
Freed(ptr, blocks) ==
  LET rest  == blocks \ {BlockStart(ptr)}
      empty == rest \cap Extent(BaseOf(ptr)) = {}
  IN [taken |-> rest,
      gone  |-> IF empty THEN {BaseOf(ptr)} ELSE {},
      bytes |-> Bytes(BlockStart(ptr), spans[BaseOf(ptr)].block_size)]

-----------------------------------------------------------------------------
(* The program's side                                                      *)

\* The program writes tag to the bytes it asked for.
Fill(bytes, ptr, size, tag) ==
  [a \in Addresses |-> IF a \in Bytes(ptr, size) THEN tag ELSE bytes[a]]

Own(ptr, size, align, tag) ==
  live' = [p \in DOMAIN live \cup {ptr} |->
             IF p = ptr THEN [size |-> size, align |-> align, tag |-> tag]
             ELSE live[p]]

Unused == CHOOSE tag \in Tags : \A p \in DOMAIN live : live[p].tag # tag

Room == Cardinality(DOMAIN live) < MaxLive

Init ==
  /\ spans = [b \in {} |-> 0]
  /\ taken = {}
  /\ mem = [a \in Addresses |-> JUNK]
  /\ live = [p \in {} |-> 0]

-----------------------------------------------------------------------------
(* The entry points.  Those that return NULL change nothing.               *)

Malloc(size) ==
  /\ Room
  /\ \E place \in Places(size) :
       /\ Take(place)
       /\ mem' = Fill(mem, place.start, size, Unused)
       /\ Own(place.start, size, BYTE_ALIGNMENT, Unused)

Free(ptr) ==
  LET freed == Freed(ptr, taken)
  IN /\ taken' = freed.taken
     /\ spans' = [b \in DOMAIN spans \ freed.gone |-> spans[b]]
     /\ live' = [p \in DOMAIN live \ {ptr} |-> live[p]]
     /\ mem' = [a \in Addresses |-> IF a \in freed.bytes THEN JUNK ELSE mem[a]]

\* Seeded fault: products that overflow are not rejected.
ProductOverflowsNever(num, size) == FALSE

ProductOverflows(num, size) == num # 0 /\ size > SIZE_MAX \div num

\* memset(ptr, 0, total)
ZeroFill(bytes, ptr, total) == Fill(bytes, ptr, total, 0)

\* ccalloc.  The program owns the true product, and leaves the zeros.
Calloc(num, size) ==
  LET total == SizeT(num * size)
  IN /\ Room
     /\ ~ProductOverflows(num, size)
     /\ \E place \in Places(total) :
          /\ Take(place)
          /\ mem' = ZeroFill(mem, place.start, total)
          /\ Own(place.start, num * size, BYTE_ALIGNMENT, 0)

\* Seeded fault: the block stays whatever it is asked to hold.
StaysInPlaceAlways(ptr, size) == TRUE

StaysInPlace(ptr, size) == spans[BaseOf(ptr)].block_size >= size

ReallocInPlace(ptr, size) ==
  /\ StaysInPlace(ptr, size)
  /\ live' = [live EXCEPT ![ptr].size = size, ![ptr].align = BYTE_ALIGNMENT]
  /\ mem' = Fill(mem, ptr, size, live[ptr].tag)
  /\ UNCHANGED <<spans, taken>>

\* memcpy copies a whole block from ptr on, then ptr's block is freed.  The
\* program fills the rest.
Copied(ptr, to) ==
  LET bs == spans[BaseOf(ptr)].block_size
  IN [a \in Addresses |->
        IF a \in Bytes(to, bs) /\ ptr + (a - to) \in Addresses
          THEN mem[ptr + (a - to)]
        ELSE IF a \in Bytes(BlockStart(ptr), bs) THEN JUNK ELSE mem[a]]

ReallocMove(ptr, size) ==
  /\ ~StaysInPlace(ptr, size)
  /\ \E place \in Places(size) :
       LET old == live[ptr]
           to  == place.start
           freed == Freed(ptr, taken \cup {to})
       IN /\ taken' = freed.taken
          /\ spans' = [b \in (DOMAIN spans \cup {place.base}) \ freed.gone |->
                         IF b = place.base
                           THEN [block_size |-> place.block_size,
                                 length |-> place.length]
                           ELSE spans[b]]
          /\ mem' = Fill(Copied(ptr, to), to + old.size, size - old.size, old.tag)
          /\ live' = [p \in (DOMAIN live \ {ptr}) \cup {to} |->
                        IF p = to THEN [size |-> size, align |-> BYTE_ALIGNMENT,
                                        tag |-> old.tag]
                        ELSE live[p]]

\* crealloc of a pointer.  (That of NULL is malloc.)
Realloc(ptr, size) ==
  /\ ReallocAligned \/ live[ptr].align <= BYTE_ALIGNMENT
  /\ IF size = 0 THEN Free(ptr)
     ELSE ReallocInPlace(ptr, size) \/ ReallocMove(ptr, size)

\* Seeded fault: no room is added for the shift.
SlackMissing(alignment) == 0

Slack(alignment) == alignment - 1

\* shim_memalign, for a power of two.  The program relies on what it promised.
MemalignFor(promised, alignment, size) ==
  IF alignment <= BYTE_ALIGNMENT THEN Malloc(size)
  ELSE /\ Room
       /\ size <= SIZE_MAX - alignment
       /\ \E place \in Places(size + Slack(alignment)) :
            LET aligned == RoundUp(place.start, alignment)
            IN /\ Take(place)
               /\ mem' = Fill(mem, aligned, size, Unused)
               /\ Own(aligned, size, promised, Unused)

Memalign(alignment, size) == MemalignFor(alignment, alignment, size)

PowerOfTwo(n) == \E k \in 0 .. n : n = 2^k

\* As BYTE_ALIGNMENT is a power of two, it divides the larger ones.
ASSUME AlignmentAssumption ==
  /\ \A a \in AlignArgs :
       PowerOfTwo(a[1]) /\ a[1] > BYTE_ALIGNMENT => a[1] % BYTE_ALIGNMENT = 0
  /\ PowerOfTwo(VALLOC_ALIGNMENT) /\ VALLOC_ALIGNMENT % BYTE_ALIGNMENT = 0

\* posix_memalign tests the alignment first; the others rely on the program.
PosixMemalign(alignment, size) ==
  /\ alignment >= POINTER_SIZE /\ PowerOfTwo(alignment)
  /\ Memalign(alignment, size)

AlignedAlloc(alignment, size) == PowerOfTwo(alignment) /\ Memalign(alignment, size)

\* valloc means a page, and the shim aligns to 4096 whatever the size of one.
Valloc(size) == MemalignFor(PAGE_SIZE, VALLOC_ALIGNMENT, size)

\* operator new asks for a byte at least; its retries ask the same again.
AtLeastOne(size) == IF size = 0 THEN 1 ELSE size

New(size) == Malloc(AtLeastOne(size))

NewAligned(alignment, size) ==
  PowerOfTwo(alignment) /\ Memalign(alignment, AtLeastOne(size))

\* The string and its terminator.
Strdup(length) == Malloc(length + 1)

Strndup(length, limit) == Malloc((IF length < limit THEN length ELSE limit) + 1)

Next ==
  \/ \E size \in Sizes : Malloc(size) \/ New(size) \/ Valloc(size)
  \/ \E a \in CallocArgs : Calloc(a[1], a[2])
  \/ \E a \in AlignArgs : \/ AlignedAlloc(a[1], a[2]) \/ NewAligned(a[1], a[2])
                          \/ PosixMemalign(a[1], a[2])
  \/ \E s \in Strings : Strdup(s[1]) \/ Strndup(s[1], s[2])
  \/ \E ptr \in DOMAIN live : Free(ptr) \/ \E size \in Sizes : Realloc(ptr, size)

Spec == Init /\ [][Next]_vars

-----------------------------------------------------------------------------
(* Properties                                                              *)

\* The types of the variables.
TypeOK ==
  /\ \A b \in DOMAIN spans : /\ Extent(b) \subseteq Addresses
                             /\ spans[b].block_size \in 1 .. SIZE_MAX
  /\ taken \subseteq Addresses
  /\ mem \in [Addresses -> Tags \cup {0, JUNK}]
  /\ \A p \in DOMAIN live : /\ p \in Addresses /\ live[p].size \in 0 .. SIZE_MAX
                            /\ live[p].tag \in Tags \cup {0}

\* Memory in use keeps what its owner wrote, or calloc's zeros, whatever is
\* allocated, moved and freed around it (README.md:165-166, "crealloc matches
\* realloc"; the pattern checks of src/tests/rigor_test.c).
ContentsKept ==
  \A p \in DOMAIN live : \A a \in Bytes(p, live[p].size) :
    a \in Addresses /\ mem[a] = live[p].tag

\* malloc_usable_size is never less than what the program asked for, and is
\* all inside the span (alloc_shim.c:42-55).
UsableCoversRequest ==
  \A p \in DOMAIN live :
    /\ \E base \in DOMAIN spans : p \in Extent(base)
    /\ Usable(p) >= live[p].size
    /\ p + live[p].size <= BaseOf(p) + spans[BaseOf(p)].length

\* Pointers have the alignment asked for, and malloc's (README.md:129: 16 bytes).
\* Valloc's are aligned to a page as long as pages are no longer than the
\* constant at alloc_shim.c:146; with longer pages this is false.
Aligned ==
  \A p \in DOMAIN live :
    p % live[p].align = 0 /\ p % BYTE_ALIGNMENT = 0

\* The bitmaps have as allocated exactly the blocks of the pointers in use, one
\* each: free of an over-aligned pointer frees the block it lies in and no
\* other (alloc_shim.c:36-41).
FreesItsBlock ==
  /\ taken = {BlockStart(p) : p \in DOMAIN live}
  /\ Cardinality(taken) = Cardinality(DOMAIN live)
=============================================================================
