----------------------------- MODULE SizeClasses -----------------------------
(***************************************************************************)
(* The size classes (src/src/common.h:49-145) with their real sizes, and   *)
(* the lookup table cmalloc_runtime_init (src/src/cmalloc.c:24) fills from *)
(* them, one bucket a step.  The library's constructor calls it, and a     *)
(* caller may call it again.                                               *)
(***************************************************************************)
EXTENDS Integers, Sequences

CONSTANT PageSizes          \* what sysconf(_SC_PAGESIZE) may return

BYTE_ALIGNMENT == 16
MAX_SIZE_CLASS == 32768
MAX_SPAN_BLOCK_COUNT == 4096

SIZE_CLASSES == <<
  16,   32,   48,   64,   80,   96,   112,  128,  144,  160,  176,  192,
  208,  224,  240,  256,  288,  320,  352,  384,  416,  448,  480,  512,
  576,  640,  704,  768,  832,  896,  960,  1024, 1152, 1280, 1408, 1536,
  1792, 2048, 2560, 3072, 3584, 4096, 5120, 6144, 7168, 8192, 16384, 32768 >>

SIZE_CLASS_COUNT == Len(SIZE_CLASSES)

\* Seeded fault: a class is given the longer spans too late.
SIZE_CLASS_SPAN_SIZE_LATE ==
  [i \in 1 .. SIZE_CLASS_COUNT |->
     IF i <= 16 THEN 65536 ELSE IF i <= 33 THEN 131072 ELSE IF i <= 38 THEN 262144
     ELSE IF i <= 46 THEN 524288 ELSE 1048576]

\* By position: 16, 16, 6, 8 and 2 classes.
SIZE_CLASS_SPAN_SIZE ==
  [i \in 1 .. SIZE_CLASS_COUNT |->
     IF i <= 16 THEN 65536 ELSE IF i <= 32 THEN 131072 ELSE IF i <= 38 THEN 262144
     ELSE IF i <= 46 THEN 524288 ELSE 1048576]

SIZE_CLASS_BLOCK_COUNT == <<
  4096, 2048, 1365, 1024, 819, 682, 585, 512, 455, 409, 372, 341,
  315,  292,  273,  256,  455, 409, 372, 341, 315, 292, 273, 256,
  227,  204,  186,  170,  157, 146, 136, 128, 227, 204, 186, 170,
  146,  128,  204,  170,  146, 128, 102, 85,  73,  64,  64,  32 >>

Buckets == 0 .. MAX_SIZE_CLASS \div BYTE_ALIGNMENT
Classes == 0 .. SIZE_CLASS_COUNT - 1
Size(c) == SIZE_CLASSES[c + 1]         \* the code's arrays begin at 0

ASSUME PageSizesAssumption ==
  PageSizes \subseteq {4096, 8192, 16384, 32768, 65536}

VARIABLES
  cmalloc_page_size,
  cmalloc_size_class_table,
  cls,                       \* the loop of cmalloc_runtime_init: its class
  b                          \* and its bucket

vars == <<cmalloc_page_size, cmalloc_size_class_table, cls, b>>

\* Seeded fault: a class as long as the bucket's largest size is passed over.
FirstFittingStrict(c, size) ==
  CHOOSE d \in c .. SIZE_CLASS_COUNT :
    /\ d = SIZE_CLASS_COUNT \/ Size(d) > size
    /\ \A e \in c .. d - 1 : Size(e) <= size

\* The while loop: the first class from c on that is not too short.
FirstFitting(c, size) ==
  CHOOSE d \in c .. SIZE_CLASS_COUNT :
    /\ d = SIZE_CLASS_COUNT \/ Size(d) >= size
    /\ \A e \in c .. d - 1 : Size(e) < size

Init ==
  /\ cmalloc_page_size = 0
  /\ cmalloc_size_class_table = [k \in Buckets |-> 0]
  /\ cls = 0
  /\ b = 0

Begin ==
  /\ cmalloc_page_size = 0
  /\ cmalloc_page_size' \in PageSizes
  /\ UNCHANGED <<cmalloc_size_class_table, cls, b>>

\* Seeded fault: the loop runs past the last bucket.
FillingRunsOn == cmalloc_page_size # 0 /\ b - 1 \in Buckets \cup {-1}

Filling == cmalloc_page_size # 0 /\ b \in Buckets

FillBucket ==
  /\ Filling
  /\ cls' = FirstFitting(cls, b * BYTE_ALIGNMENT)
  /\ cmalloc_size_class_table' =
       [cmalloc_size_class_table EXCEPT ![b] =
          IF cls' < SIZE_CLASS_COUNT THEN cls' ELSE 0]
  /\ b' = b + 1
  /\ UNCHANGED cmalloc_page_size

\* A later call returns at once.
AlreadyInitialized == cmalloc_page_size # 0 /\ ~Filling /\ UNCHANGED vars

Next == Begin \/ FillBucket \/ AlreadyInitialized

Spec == Init /\ [][Next]_vars

Done == cmalloc_page_size # 0 /\ ~Filling

\* get_size_class_index, for sizes up to MAX_SIZE_CLASS
ClassIndex(size) ==
  cmalloc_size_class_table[(size + (BYTE_ALIGNMENT - 1)) \div 16]

-----------------------------------------------------------------------------
(* Properties                                                              *)

\* The types of the variables; a class fits the table's unsigned char.
TypeOK ==
  /\ cmalloc_page_size \in PageSizes \cup {0}
  /\ cmalloc_size_class_table \in [Buckets -> Classes]
  /\ cls \in 0 .. SIZE_CLASS_COUNT
  /\ b \in 0 .. MAX_SIZE_CLASS \div BYTE_ALIGNMENT + 1
  /\ SIZE_CLASS_COUNT <= 256

\* Once initialization returns, every size of no more than MAX_SIZE_CLASS gets
\* the smallest class that is long enough (README.md:129), the same as the
\* linear scan the table replaces (common.h:92-94).
SmallestClass ==
  Done => \A size \in 0 .. MAX_SIZE_CLASS :
            LET c == ClassIndex(size)
            IN Size(c) >= size /\ (c > 0 => Size(c - 1) < size)

\* The three tables fit one another and the machine: a span is whole pages, its
\* blocks are aligned, lie inside it and leave no room for one more, and there
\* are not more than its bitmap has bits for (common.h:52).
SpansFit ==
  cmalloc_page_size # 0 =>
    \A i \in 1 .. SIZE_CLASS_COUNT :
      /\ SIZE_CLASS_SPAN_SIZE[i] % cmalloc_page_size = 0
      /\ SIZE_CLASSES[i] % BYTE_ALIGNMENT = 0
      /\ SIZE_CLASS_BLOCK_COUNT[i] = SIZE_CLASS_SPAN_SIZE[i] \div SIZE_CLASSES[i]
      /\ SIZE_CLASS_BLOCK_COUNT[i] <= MAX_SPAN_BLOCK_COUNT
=============================================================================
