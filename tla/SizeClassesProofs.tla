-------------------------- MODULE SizeClassesProofs --------------------------
(***************************************************************************)
(* Proofs about SizeClasses: the tables fit every page size there is, and  *)
(* cmalloc_runtime_init gives each size the smallest class that holds it.  *)
(***************************************************************************)
EXTENDS SizeClasses, WellFoundedInduction, TLAPS

-----------------------------------------------------------------------------
(* The tables                                                              *)

LEMMA ClassCount == SIZE_CLASS_COUNT = 48
BY DEF SIZE_CLASS_COUNT, SIZE_CLASSES

LEMMA ClassesAre ==
  /\ \A c : c \in Classes <=> c \in 0 .. 47
  /\ \A k : k \in Buckets <=> k \in 0 .. 2048
BY ClassCount DEF Classes, Buckets, MAX_SIZE_CLASS, BYTE_ALIGNMENT

LEMMA Sizes ==
  /\ \A i \in 1 .. 48 : SIZE_CLASSES[i] \in Nat /\ SIZE_CLASSES[i] > 0 /\ SIZE_CLASSES[i] % 16 = 0
  /\ SIZE_CLASSES[48] = 32768
BY DEF SIZE_CLASSES

\* A class has a size, a multiple of BYTE_ALIGNMENT; the last holds every size.
LEMMA ClassSizes ==
  /\ \A c \in Classes : Size(c) \in Nat /\ Size(c) % 16 = 0
  /\ MAX_SIZE_CLASS \in Nat /\ Size(47) = MAX_SIZE_CLASS
<1>1. ASSUME NEW c \in Classes PROVE Size(c) \in Nat /\ Size(c) % 16 = 0
  <2>1. c + 1 \in 1 .. 48
    BY ClassesAre
  <2>. QED  BY <2>1, Sizes DEF Size
<1>2. MAX_SIZE_CLASS \in Nat /\ Size(47) = MAX_SIZE_CLASS
  BY Sizes DEF Size, MAX_SIZE_CLASS
<1>. QED  BY <1>1, <1>2

\* The span of a class is whole pages, whatever their size, and has room for
\* exactly as many blocks as the third table says.
LEMMA TablesFit ==
  ASSUME NEW page \in PageSizes, NEW i \in 1 .. SIZE_CLASS_COUNT
  PROVE  /\ SIZE_CLASS_SPAN_SIZE[i] % page = 0
         /\ SIZE_CLASSES[i] % BYTE_ALIGNMENT = 0
         /\ SIZE_CLASS_BLOCK_COUNT[i] = SIZE_CLASS_SPAN_SIZE[i] \div SIZE_CLASSES[i]
         /\ SIZE_CLASS_BLOCK_COUNT[i] <= MAX_SPAN_BLOCK_COUNT
<1>1. i \in 1 .. 48
  BY ClassCount
<1>2. SIZE_CLASS_SPAN_SIZE[i] =
        IF i <= 16 THEN 65536 ELSE IF i <= 32 THEN 131072 ELSE IF i <= 38 THEN 262144
        ELSE IF i <= 46 THEN 524288 ELSE 1048576
  BY DEF SIZE_CLASS_SPAN_SIZE
<1>3. SIZE_CLASS_SPAN_SIZE[i] % page = 0
  <2>1. page \in {4096, 8192, 16384, 32768, 65536}
    BY PageSizesAssumption
  <2>2. SIZE_CLASS_SPAN_SIZE[i] \in {65536, 131072, 262144, 524288, 1048576}
    BY <1>1, <1>2
  <2>. QED  BY <2>1, <2>2
<1>4. SIZE_CLASSES[i] % BYTE_ALIGNMENT = 0
  BY <1>1, Sizes DEF BYTE_ALIGNMENT
<1>5. SIZE_CLASS_BLOCK_COUNT[i] = SIZE_CLASS_SPAN_SIZE[i] \div SIZE_CLASSES[i]
  BY <1>1, <1>2 DEF SIZE_CLASS_BLOCK_COUNT, SIZE_CLASSES
<1>6. SIZE_CLASS_BLOCK_COUNT[i] <= MAX_SPAN_BLOCK_COUNT
  BY <1>1 DEF SIZE_CLASS_BLOCK_COUNT, MAX_SPAN_BLOCK_COUNT
<1>. QED  BY <1>3, <1>4, <1>5, <1>6

-----------------------------------------------------------------------------
(* The loop                                                                *)

\* A set of numbers that is not empty has a least one.
LEMMA LeastExists ==
  ASSUME NEW S \in SUBSET Nat, S # {}
  PROVE  \E i \in S : \A j \in S : i <= j
<1>. DEFINE R == {ss \in Nat \X Nat : ss[1] < ss[2]}
<1>1. IsWellFoundedOn(R, Nat)
  BY NatLessThanWellFounded DEF OpToRel
<1>2. PICK i \in S : \A j \in S : <<j, i>> \notin R
  <2>. HIDE DEF R
  <2>. QED  BY <1>1, WFMin
<1>3. ASSUME NEW j \in S PROVE i <= j
  <2>1. <<j, i>> \in Nat \X Nat /\ <<j, i>>[1] = j /\ <<j, i>>[2] = i
    OBVIOUS
  <2>2. ~(j < i)
    BY <1>2, <2>1
  <2>. QED  BY <2>2
<1>. QED  BY <1>3

\* The first class from c on that is long enough, and those before it are not.
Fits(c, size, d) == d >= c /\ Size(d) >= size
FirstFit(c, size, d) == Fits(c, size, d) /\ \A e \in Classes : c <= e /\ e < d => Size(e) < size

LEMMA FirstFitExists ==
  ASSUME NEW c \in Classes, NEW size \in 0 .. MAX_SIZE_CLASS
  PROVE  \E d \in Classes : FirstFit(c, size, d)
<1>. DEFINE T == {d \in Classes : Fits(c, size, d)}
<1>1. 47 \in Classes /\ Fits(c, size, 47)
  <2>1. 47 \in Classes /\ 47 >= c
    BY ClassesAre
  <2>2. Size(47) >= size
    BY ClassSizes
  <2>. QED  BY <2>1, <2>2 DEF Fits
<1>2. T \in SUBSET Nat /\ T # {}
  BY <1>1, ClassesAre
<1>3. PICK d \in T : \A j \in T : d <= j
  <2>. HIDE DEF T
  <2>. QED  BY <1>2, LeastExists
<1>4. d \in Classes /\ Fits(c, size, d)
  OBVIOUS
<1>5. ASSUME NEW e \in Classes, c <= e, e < d PROVE Size(e) < size
  <2>1. e \in 0 .. 47 /\ d \in 0 .. 47 /\ ~(d <= e) /\ c \in 0 .. 47
    BY <1>4, <1>5, ClassesAre
  <2>2. ~Fits(c, size, e)
    BY <1>3, <2>1
  <2>3. Size(e) \in Nat
    BY ClassSizes
  <2>. QED  BY <1>5, <2>1, <2>2, <2>3 DEF Fits
<1>. QED  BY <1>4, <1>5 DEF FirstFit

\* The while loop stops at the first class from c on that is long enough; there
\* is one, as the size is no more than that of the last class.
LEMMA FirstFits ==
  ASSUME NEW c \in Classes, NEW size \in 0 .. MAX_SIZE_CLASS
  PROVE  FirstFitting(c, size) \in Classes /\ FirstFit(c, size, FirstFitting(c, size))
<1>. DEFINE P(d) == /\ d = SIZE_CLASS_COUNT \/ Size(d) >= size
                    /\ \A e \in c .. d - 1 : Size(e) < size
<1>1. c \in 0 .. 47 /\ (\A x : x \in Classes <=> x \in 0 .. 47) /\ SIZE_CLASS_COUNT = 48
  BY ClassesAre, ClassCount
<1>2. PICK d \in Classes : FirstFit(c, size, d)
  BY FirstFitExists
<1>3. d \in 0 .. 47 /\ c <= d /\ Size(d) >= size
  BY <1>1, <1>2 DEF FirstFit, Fits
<1>4. ASSUME NEW e \in c .. d - 1 PROVE Size(e) < size
  <2>1. e \in Classes /\ c <= e /\ e < d
    BY <1>1, <1>3
  <2>. QED  BY <1>2, <2>1 DEF FirstFit
<1>5. d \in c .. SIZE_CLASS_COUNT /\ P(d)
  BY <1>1, <1>3, <1>4
<1>6. FirstFitting(c, size) = CHOOSE x \in c .. SIZE_CLASS_COUNT : P(x)
  BY DEF FirstFitting
<1>. HIDE DEF P
<1>7. PICK f : f = FirstFitting(c, size) /\ f \in c .. SIZE_CLASS_COUNT /\ P(f)
  BY <1>5, <1>6
<1>8. f \in c .. 48 /\ (f = 48 \/ Size(f) >= size) /\ \A e \in c .. f - 1 : Size(e) < size
  BY <1>1, <1>7 DEF P
<1>9. f # 48
  <2>1. CASE f = 48
    <3>1. d \in c .. f - 1
      BY <1>1, <1>3, <2>1
    <3>2. Size(d) \in Nat /\ Size(d) < size
      BY <1>8, <3>1, ClassSizes
    <3>. QED  BY <1>3, <3>2
  <2>. QED  BY <2>1
<1>10. f \in Classes /\ Fits(c, size, f)
  BY <1>1, <1>8, <1>9 DEF Fits
<1>11. ASSUME NEW e \in Classes, c <= e, e < f PROVE Size(e) < size
  <2>1. e \in c .. f - 1
    BY <1>1, <1>8, <1>11
  <2>. QED  BY <1>8, <2>1
<1>. QED  BY <1>7, <1>10, <1>11 DEF FirstFit

\* A class is the smallest for a bucket: it holds the bucket's largest size, and
\* the classes before it do not.
Smallest(c, bucket) ==
  /\ c \in Classes /\ Size(c) >= 16 * bucket
  /\ \A d \in Classes : d < c => Size(d) < 16 * bucket

\* The inductive invariant: the buckets done so far are right, and the classes
\* the loop has passed were too short for the last of them.
Inv ==
  /\ cmalloc_page_size \in PageSizes \cup {0}
  /\ cmalloc_size_class_table \in [Buckets -> Classes]
  /\ cls \in Classes /\ b \in 0 .. 2049
  /\ \A d \in Classes : d < cls => b > 0 /\ Size(d) < 16 * (b - 1)
  /\ \A k \in Buckets : k < b => Smallest(cmalloc_size_class_table[k], k)

LEMMA InitInv == Init => Inv
BY ClassesAre DEF Init, Inv

LEMMA FillBucketInv ==
  ASSUME Inv, FillBucket
  PROVE  Inv'
<1>1. b \in Buckets /\ b \in 0 .. 2048 /\ cls \in 0 .. 47 /\ cls \in Classes
  <2>1. b \in Buckets
    BY DEF FillBucket, Filling
  <2>2. cls \in Classes
    BY DEF Inv
  <2>. QED  BY <2>1, <2>2, ClassesAre
<1>2. PICK c : c = cls'
  OBVIOUS
<1>3. PICK n \in 0 .. MAX_SIZE_CLASS : n = 16 * b /\ c = FirstFitting(cls, n)
  <2>1. 16 * b \in 0 .. MAX_SIZE_CLASS
    BY <1>1 DEF MAX_SIZE_CLASS
  <2>2. c = FirstFitting(cls, 16 * b)
    BY <1>1, <1>2 DEF FillBucket, BYTE_ALIGNMENT
  <2>. QED  BY <2>1, <2>2
<1>4. /\ c \in Classes /\ cls <= c /\ Size(c) >= 16 * b
      /\ \A e \in Classes : cls <= e /\ e < c => Size(e) < 16 * b
  <2>1. c \in Classes /\ FirstFit(cls, n, c)
    BY <1>1, <1>3, FirstFits
  <2>. QED  BY <1>3, <2>1 DEF FirstFit, Fits
<1>5. ASSUME NEW d \in Classes, d < c PROVE Size(d) < 16 * b
  <2>1. Size(d) \in Nat
    BY ClassSizes
  <2>2. CASE d < cls
    <3>1. Size(d) < 16 * (b - 1)
      BY <2>2 DEF Inv
    <3>. QED  BY <1>1, <2>1, <3>1
  <2>3. CASE cls <= d
    BY <1>4, <1>5, <2>3
  <2>. QED  BY <1>1, <2>2, <2>3
<1>6. Smallest(c, b)
  BY <1>4, <1>5 DEF Smallest
<1>7. cmalloc_size_class_table' = [cmalloc_size_class_table EXCEPT ![b] = c]
  <2>1. c < SIZE_CLASS_COUNT
    BY <1>4, ClassCount, ClassesAre
  <2>. QED  BY <1>2, <2>1 DEF FillBucket
<1>8. cmalloc_size_class_table' \in [Buckets -> Classes]
  <2>1. cmalloc_size_class_table \in [Buckets -> Classes] /\ c \in Classes /\ b \in Buckets
    BY <1>1, <1>4 DEF Inv
  <2>. QED  BY <1>7, <2>1
<1>9. ASSUME NEW k \in Buckets, k < b + 1
      PROVE  Smallest(cmalloc_size_class_table'[k], k)
  <2>1. CASE k = b
    BY <1>1, <1>6, <1>7, <2>1 DEF Inv
  <2>2. CASE k # b
    <3>1. k < b
      BY <1>1, <1>9, <2>2, ClassesAre
    <3>. QED  BY <1>7, <2>2, <3>1 DEF Inv
  <2>. QED  BY <2>1, <2>2
<1>10. b' = b + 1 /\ UNCHANGED cmalloc_page_size /\ b' \in 0 .. 2049
  BY <1>1 DEF FillBucket
<1>11. \A d \in Classes : d < cls' => b' > 0 /\ Size(d) < 16 * (b' - 1)
  BY <1>1, <1>2, <1>5, <1>10
<1>12. \A k \in Buckets : k < b' => Smallest(cmalloc_size_class_table'[k], k)
  BY <1>9, <1>10
<1>13. cls' \in Classes
  BY <1>2, <1>4
<1>14. cmalloc_page_size' \in PageSizes \cup {0}
  BY <1>10 DEF Inv
<1>. QED  BY <1>8, <1>10, <1>11, <1>12, <1>13, <1>14 DEF Inv, Smallest

LEMMA NextInv == Inv /\ [Next]_vars => Inv'
<1>. SUFFICES ASSUME Inv, [Next]_vars PROVE Inv'
  OBVIOUS
<1>1. CASE Begin
  BY <1>1 DEF Begin, Inv, Smallest
<1>2. CASE FillBucket
  BY <1>2, FillBucketInv
<1>3. CASE UNCHANGED vars
  BY <1>3 DEF vars, Inv, Smallest
<1>. QED  BY <1>1, <1>2, <1>3 DEF Next, AlreadyInitialized

-----------------------------------------------------------------------------
(* The properties                                                          *)

\* Every bucket the loop of cmalloc_runtime_init has filled has the smallest
\* class that holds its sizes.
THEOREM SpecInv == Spec => []Inv
BY InitInv, NextInv, PTL DEF Spec

\* The types of the variables; a class fits the table's unsigned char.
THEOREM SpecTypeOK == Spec => []TypeOK
<1>1. Inv => TypeOK
  <2>. SUFFICES ASSUME Inv PROVE TypeOK
    OBVIOUS
  <2>1. cls \in 0 .. SIZE_CLASS_COUNT /\ SIZE_CLASS_COUNT <= 256
    BY ClassCount, ClassesAre DEF Inv
  <2>2. b \in 0 .. MAX_SIZE_CLASS \div BYTE_ALIGNMENT + 1
    BY DEF Inv, MAX_SIZE_CLASS, BYTE_ALIGNMENT
  <2>. QED  BY <2>1, <2>2 DEF Inv, TypeOK
<1>. QED  BY <1>1, SpecInv, PTL

\* Once cmalloc_runtime_init returns, get_size_class_index gives every size of
\* no more than MAX_SIZE_CLASS the smallest class that is long enough.
THEOREM SpecSmallestClass == Spec => []SmallestClass
<1>1. Inv => SmallestClass
  <2>. SUFFICES ASSUME Inv, Done, NEW size \in 0 .. MAX_SIZE_CLASS
                PROVE  LET c == ClassIndex(size)
                       IN Size(c) >= size /\ (c > 0 => Size(c - 1) < size)
    BY DEF SmallestClass
  <2>1. b = 2049
    BY ClassesAre DEF Inv, Done, Filling
  <2>2. size \in 0 .. 32768
    BY DEF MAX_SIZE_CLASS
  <2>3. PICK k : k = (size + 15) \div 16
    OBVIOUS
  <2>4. k \in 0 .. 2048 /\ size <= 16 * k /\ 16 * k <= size + 15
    BY <2>2, <2>3
  <2>5. PICK c : c = cmalloc_size_class_table[k]
    OBVIOUS
  <2>6. Smallest(c, k)
    BY <2>1, <2>4, <2>5, ClassesAre DEF Inv
  <2>7. c = ClassIndex(size)
    BY <2>3, <2>5 DEF ClassIndex, BYTE_ALIGNMENT
  <2>8. c \in 0 .. 47 /\ Size(c) \in Nat /\ Size(c) >= size
    BY <2>2, <2>4, <2>6, ClassesAre, ClassSizes DEF Smallest
  <2>9. ASSUME c > 0 PROVE Size(c - 1) < size
    <3>1. c - 1 \in Classes /\ c - 1 < c
      BY <2>8, <2>9, ClassesAre
    <3>2. Size(c - 1) \in Nat /\ Size(c - 1) % 16 = 0 /\ Size(c - 1) < 16 * k
      BY <2>6, <3>1, ClassSizes DEF Smallest
    <3>3. Size(c - 1) <= 16 * k - 16
      <4>1. PICK s \in Nat : s = Size(c - 1)
        BY <3>2
      <4>2. s % 16 = 0 /\ s < 16 * k
        BY <3>2, <4>1
      <4>3. s <= 16 * k - 16
        BY <2>4, <4>2
      <4>. QED  BY <4>1, <4>3
    <3>. QED  BY <2>2, <2>4, <3>2, <3>3
  <2>. QED  BY <2>7, <2>8, <2>9
<1>. QED  BY <1>1, SpecInv, PTL

\* The tables of sizes, spans and block counts (common.h:53-87) fit one another
\* and every page size: a span is whole pages and all its blocks.
THEOREM SpecSpansFit == Spec => []SpansFit
<1>1. Inv => SpansFit
  <2>. SUFFICES ASSUME Inv, cmalloc_page_size # 0, NEW i \in 1 .. SIZE_CLASS_COUNT
                PROVE  /\ SIZE_CLASS_SPAN_SIZE[i] % cmalloc_page_size = 0
                       /\ SIZE_CLASSES[i] % BYTE_ALIGNMENT = 0
                       /\ SIZE_CLASS_BLOCK_COUNT[i] = SIZE_CLASS_SPAN_SIZE[i] \div SIZE_CLASSES[i]
                       /\ SIZE_CLASS_BLOCK_COUNT[i] <= MAX_SPAN_BLOCK_COUNT
    BY DEF SpansFit
  <2>1. cmalloc_page_size \in PageSizes
    BY DEF Inv
  <2>. QED  BY <2>1, TablesFit
<1>. QED  BY <1>1, SpecInv, PTL
=============================================================================
