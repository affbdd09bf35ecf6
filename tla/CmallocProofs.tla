----------------------------- MODULE CmallocProofs -----------------------------
(***************************************************************************)
(* Proofs about Cmalloc (src/src/cmalloc.c), for every set of threads and  *)
(* spans, every number of size classes and blocks per class.               *)
(*                                                                         *)
(* First the types, with or without frees of blocks another thread         *)
(* allocated.  Then each step of a thread preserves the invariant of       *)
(* CmallocInvariant.  Its one part is about threads and the blocks of      *)
(* their spans: a step changes the frame of one thread and spans that      *)
(* thread owns, takes from the pool or gives back to it; OthersKept says   *)
(* so once, and the lemma of an action is about the thread that acts and   *)
(* its spans.  The other part is about the bins: each is a doubly linked   *)
(* list of exactly the spans that belong on it, and stays so through       *)
(* bin_push and bin_remove.                                                *)
(***************************************************************************)
EXTENDS CmallocInvariant, FiniteSetTheorems, WellFoundedInduction, TLAPS

USE CmallocAssumption

-----------------------------------------------------------------------------
(* Types                                                                   *)

\* What the frame of a call holds, by the place the call has reached: where
\* the code dereferences a span or an argument there is one, and a thread
\* touches a bin only for a size class.
FrameOK ==
  \A t \in Threads :
    /\ pc[t] \in {"m_check", "m_load", "m_store", "m_init", "m_unlock", "m_push",
                  "f_check", "f_load", "f_store", "f_empty", "f_lock", "f_cache",
                  "f_unlock"}
         => span[t] \in Spans
    /\ pc[t] \in {"m_check", "m_push", "f_check", "f_load", "f_store", "f_empty"}
         => cls[t] \in SizeClasses
    /\ pc[t] \in {"r_check", "f_check", "f_load", "f_store", "f_empty", "f_lock",
                  "f_cache", "f_unlock"}
         => ptr[t] \in Blocks

TypeInv == TypeOK /\ FrameOK

LEMMA ClassesTyped ==
  /\ LARGE \in Classes
  /\ LARGE \notin SizeClasses
  /\ SizeClasses \subseteq Classes
  /\ \A c \in Classes : c # LARGE => c \in SizeClasses
  /\ \A c \in Classes : 0 .. CountOf(c) - 1 \subseteq BlockIndices
  /\ \A c \in Classes : CountOf(c) \in Nat
<1>1. ASSUME NEW c \in Classes
      PROVE  CountOf(c) \in 1 .. MAX_SPAN_BLOCK_COUNT
  <2>1. CASE c = LARGE
    BY <2>1 DEF CountOf
  <2>2. CASE c # LARGE
    BY <2>2 DEF CountOf, Classes
  <2>. QED  BY <2>1, <2>2
<1>2. \A c \in Classes : 0 .. CountOf(c) - 1 \subseteq BlockIndices
  BY <1>1 DEF BlockIndices
<1>. QED  BY <1>1, <1>2 DEF Classes, LARGE, SizeClasses

LEMMA InitTypeInv == Init => TypeInv
<1>. SUFFICES ASSUME Init PROVE TypeInv
  OBVIOUS
<1>1. NoReg \in [count : Int, bits : SUBSET BlockIndices, block : BlockIndices]
  BY DEF NoReg, BlockIndices
<1>2. TypeOK
  BY <1>1, ClassesTyped DEF Init, TypeOK, Labels
<1>. QED  BY <1>2 DEF Init, TypeInv, FrameOK

BinsTyped ==
  /\ thread_local_bin \in [Threads -> [SizeClasses -> Spans \cup {NULL}]]
  /\ next \in [Spans -> Spans \cup {NULL}]
  /\ prev \in [Spans -> Spans \cup {NULL}]

\* bin_push and bin_remove keep the types of the bins.
LEMMA BinPushTyped ==
  ASSUME BinsTyped, NEW t \in Threads, NEW c \in SizeClasses, NEW s \in Spans,
         BinPush(t, c, s)
  PROVE  BinsTyped'
BY DEF BinsTyped, BinPush

LEMMA BinRemoveTyped ==
  ASSUME BinsTyped, NEW t \in Threads, NEW c \in SizeClasses, NEW s \in Spans,
         BinRemove(t, c, s)
  PROVE  BinsTyped'
<1>. DEFINE p == prev[s]
            n == next[s]
<1>1. p \in Spans \cup {NULL} /\ n \in Spans \cup {NULL}
  BY DEF BinsTyped
<1>2. next' \in [Spans -> Spans \cup {NULL}]
  BY <1>1 DEF BinsTyped, BinRemove
<1>3. prev' \in [Spans -> Spans \cup {NULL}]
  BY <1>1 DEF BinsTyped, BinRemove
<1>4. thread_local_bin' \in [Threads -> [SizeClasses -> Spans \cup {NULL}]]
  BY <1>1 DEF BinsTyped, BinRemove
<1>. QED  BY <1>2, <1>3, <1>4 DEF BinsTyped

\* A nonempty set of block indices has a least one.
LEMMA LeastOfTyped ==
  ASSUME NEW S \in SUBSET BlockIndices, S # {}
  PROVE  LeastOf(S) \in S
<1>. DEFINE R == {ss \in Nat \X Nat : ss[1] < ss[2]}
<1>1. IsWellFoundedOn(R, Nat)
  BY NatLessThanWellFounded DEF OpToRel
<1>2. S \subseteq Nat
  BY DEF BlockIndices
<1>3. PICK i \in S : \A j \in S : <<j, i>> \notin R
  <2>. HIDE DEF R
  <2>. QED  BY <1>1, <1>2, WFMin
<1>4. ASSUME NEW j \in S PROVE i <= j
  <2>1. <<j, i>> \in Nat \X Nat /\ <<j, i>>[1] = j /\ <<j, i>>[2] = i
    BY <1>2
  <2>2. ~(j < i)
    BY <1>3, <2>1
  <2>. QED  BY <1>2, <2>2
<1>. QED  BY <1>4 DEF LeastOf

-----------------------------------------------------------------------------
(* One lemma per group of actions                                          *)

LEMMA CallTyped ==
  ASSUME TypeInv, NEW t \in Threads, Call(t)
  PROVE  TypeInv'
<1>. USE DEF TypeInv
<1>1. ASSUME NEW c \in Classes, Cmalloc(t, c) PROVE TypeInv'
  <2>1. (IF c = LARGE THEN NULL ELSE thread_local_bin[t][c]) \in Spans \cup {NULL}
    BY ClassesTyped DEF TypeOK
  <2>2. TypeOK'
    BY <1>1, <2>1 DEF Cmalloc, EnterCmalloc, Goto, TypeOK, Labels,
                      binVars, blockVars, poolVars
  <2>3. FrameOK'
    BY <1>1, <2>1, ClassesTyped
       DEF Cmalloc, MayCall, EnterCmalloc, Goto, TypeOK, FrameOK
  <2>. QED  BY <2>2, <2>3
<1>2. ASSUME NEW u \in Threads, NEW b \in held[u], Cfree(t, b) PROVE TypeInv'
  <2>1. b \in Blocks /\ b[1] \in Spans
    BY DEF TypeOK, Blocks
  <2>2. size_class_index[b[1]] \in Classes
    BY <2>1 DEF TypeOK
  <2>3. TypeOK'
    BY <1>2, <2>1, <2>2 DEF Cfree, EnterCfree, Goto, TypeOK, Labels,
                            binVars, blockVars, poolVars
  <2>4. FrameOK'
    BY <1>2, <2>1, <2>2, ClassesTyped
       DEF Cfree, MayCall, EnterCfree, Goto, TypeOK, FrameOK
  <2>. QED  BY <2>3, <2>4
<1>3. ASSUME NEW u \in Threads, NEW b \in held[u], NEW c \in Classes,
             Crealloc(t, b, c)
      PROVE  TypeInv'
  <2>1. b \in Blocks
    BY DEF TypeOK
  <2>2. TypeOK'
    BY <1>3, <2>1 DEF Crealloc, Goto, TypeOK, Labels, binVars, blockVars, poolVars
  <2>3. FrameOK'
    BY <1>3, <2>1 DEF Crealloc, MayCall, Goto, TypeOK, FrameOK
  <2>. QED  BY <2>2, <2>3
<1>. QED  BY <1>1, <1>2, <1>3 DEF Call

LEMMA ReallocCheckTyped ==
  ASSUME TypeInv, NEW t \in Threads, ReallocCheck(t)
  PROVE  TypeInv'
<1>. USE DEF TypeInv
<1>1. pc[t] = "r_check" /\ cls[t] \in Classes
  BY DEF ReallocCheck, TypeOK
<1>2. CASE Return(t)
  <2>1. TypeOK'
    BY <1>2, ClassesTyped DEF ReallocCheck, Return, Goto, TypeOK, Labels,
                              binVars, blockVars, poolVars
  <2>2. FrameOK'
    BY <1>2 DEF Return, Goto, TypeOK, FrameOK
  <2>. QED  BY <2>1, <2>2
<1>3. CASE EnterCmalloc(t, cls[t]) /\ UNCHANGED ptr
  <2>1. (IF cls[t] = LARGE THEN NULL ELSE thread_local_bin[t][cls[t]])
          \in Spans \cup {NULL}
    BY <1>1, ClassesTyped DEF TypeOK
  <2>2. TypeOK'
    BY <1>1, <1>3, <2>1 DEF ReallocCheck, EnterCmalloc, Goto, TypeOK, Labels,
                            binVars, blockVars, poolVars
  <2>3. FrameOK'
    BY <1>1, <1>3, <2>1, ClassesTyped DEF EnterCmalloc, Goto, TypeOK, FrameOK
  <2>. QED  BY <2>2, <2>3
<1>. QED  BY <1>2, <1>3 DEF ReallocCheck

LEMMA CheckLastTyped ==
  ASSUME TypeInv, NEW t \in Threads, CheckLast(t)
  PROVE  TypeInv'
<1>. USE DEF TypeInv
<1>1. span[t] \in Spans /\ cls[t] \in SizeClasses
  BY DEF CheckLast, FrameOK
<1>2. BinsTyped'
  <2>1. BinsTyped
    BY DEF TypeOK, BinsTyped
  <2>. QED  BY <1>1, <2>1, BinRemoveTyped DEF CheckLast, BinsTyped, binVars
<1>3. TypeOK'
  BY <1>2 DEF CheckLast, Goto, BinsTyped, TypeOK, Labels, blockVars, poolVars
<1>4. FrameOK'
  BY <1>1 DEF CheckLast, Goto, TypeOK, FrameOK
<1>. QED  BY <1>3, <1>4

LEMMA LoadBlockTyped ==
  ASSUME TypeInv, NEW t \in Threads, LoadBlock(t)
  PROVE  TypeInv'
<1>. USE DEF TypeInv
<1>1. span[t] \in Spans /\ free[span[t]] \in SUBSET BlockIndices
  BY DEF LoadBlock, FrameOK, TypeOK
<1>2. CASE free[span[t]] = {}
  <2>1. Return(t) /\ UNCHANGED reg
    BY <1>2 DEF LoadBlock
  <2>2. TypeOK'
    BY <2>1, ClassesTyped DEF LoadBlock, Return, Goto, TypeOK, Labels,
                              binVars, blockVars, poolVars
  <2>3. FrameOK'
    BY <2>1 DEF Return, Goto, TypeOK, FrameOK
  <2>. QED  BY <2>2, <2>3
<1>3. CASE free[span[t]] # {}
  <2>1. LeastOf(free[span[t]]) \in BlockIndices
    BY <1>1, <1>3, LeastOfTyped
  <2>2. /\ reg' = [reg EXCEPT ![t] =
                    [count |-> free_count[span[t]] - 1,
                     bits  |-> free[span[t]] \ {LeastOf(free[span[t]])},
                     block |-> LeastOf(free[span[t]])]]
        /\ Goto(t, "m_store")
        /\ UNCHANGED <<cls, span, ptr>>
        /\ UNCHANGED <<binVars, blockVars, poolVars, lock, held>>
    BY <1>3 DEF LoadBlock
  <2>3. reg' \in [Threads -> [count : Int, bits : SUBSET BlockIndices,
                              block : BlockIndices]]
    <3>1. free_count[span[t]] - 1 \in Int
      BY <1>1 DEF TypeOK
    <3>. QED  BY <1>1, <2>1, <2>2, <3>1 DEF TypeOK
  <2>4. TypeOK'
    BY <2>2, <2>3 DEF Goto, TypeOK, Labels, binVars, blockVars, poolVars
  <2>5. FrameOK'
    BY <1>1, <2>2 DEF Goto, TypeOK, FrameOK
  <2>. QED  BY <2>4, <2>5
<1>. QED  BY <1>2, <1>3

LEMMA StoreRegTyped ==
  ASSUME TypeOK, NEW t \in Threads, StoreReg(t)
  PROVE  /\ free_count' \in [Spans -> Int]
         /\ free' \in [Spans -> SUBSET BlockIndices]
         /\ reg' \in [Threads -> [count : Int, bits : SUBSET BlockIndices,
                                  block : BlockIndices]]
<1>1. NoReg \in [count : Int, bits : SUBSET BlockIndices, block : BlockIndices]
  BY DEF NoReg, BlockIndices
<1>2. reg[t] \in [count : Int, bits : SUBSET BlockIndices, block : BlockIndices]
  BY DEF TypeOK
<1>3. reg[t].count \in Int /\ reg[t].bits \in SUBSET BlockIndices
  BY <1>2
<1>. QED  BY <1>1, <1>3 DEF StoreReg, TypeOK

LEMMA StoreBlockTyped ==
  ASSUME TypeInv, NEW t \in Threads, StoreBlock(t)
  PROVE  TypeInv'
<1>. USE DEF TypeInv
<1>. DEFINE b == <<span[t], reg[t].block>>
<1>1. StoreReg(t) /\ pc[t] = "m_store" /\ UNCHANGED <<binVars, poolVars, lock>>
  BY DEF StoreBlock
<1>2. b \in Blocks
  <2>1. span[t] \in Spans /\ reg[t].block \in BlockIndices
    BY <1>1 DEF FrameOK, TypeOK
  <2>. QED  BY <2>1 DEF Blocks
<1>3. /\ free_count' \in [Spans -> Int]
      /\ free' \in [Spans -> SUBSET BlockIndices]
      /\ reg' \in [Threads -> [count : Int, bits : SUBSET BlockIndices,
                               block : BlockIndices]]
  BY <1>1, StoreRegTyped
<1>. HIDE DEF b
<1>4. CASE ptr[t] = NULL
  <2>1. held' = [held EXCEPT ![t] = @ \cup {b}] /\ Return(t)
    BY <1>4 DEF StoreBlock, b
  <2>2. held' \in [Threads -> SUBSET Blocks]
    BY <1>2, <2>1 DEF TypeOK
  <2>3. TypeOK'
    BY <1>1, <1>3, <2>1, <2>2, ClassesTyped
       DEF Return, Goto, TypeOK, Labels, binVars, poolVars
  <2>4. FrameOK'
    BY <2>1 DEF Return, Goto, TypeOK, FrameOK
  <2>. QED  BY <2>3, <2>4
<1>5. CASE ptr[t] # NULL
  <2>1. /\ held' = [u \in Threads |->
                      (held[u] \ {ptr[t]}) \cup (IF u = t THEN {b} ELSE {})]
        /\ EnterCfree(t, ptr[t])
    BY <1>5 DEF StoreBlock, b
  <2>2. ptr[t] \in Blocks /\ ptr[t][1] \in Spans
    BY <1>5 DEF TypeOK, Blocks
  <2>3. size_class_index[ptr[t][1]] \in Classes
    BY <2>2 DEF TypeOK
  <2>4. held' \in [Threads -> SUBSET Blocks]
    BY <1>2, <2>1 DEF TypeOK
  <2>5. TypeOK'
    BY <1>1, <1>3, <2>1, <2>2, <2>3, <2>4
       DEF EnterCfree, Goto, TypeOK, Labels, binVars, poolVars
  <2>6. FrameOK'
    BY <2>1, <2>2, <2>3, ClassesTyped DEF EnterCfree, Goto, TypeOK, FrameOK
  <2>. QED  BY <2>5, <2>6
<1>. QED  BY <1>4, <1>5

LEMMA LockTyped ==
  ASSUME TypeInv, NEW t \in Threads,
         Acquire(t) \/ ReleaseInit(t) \/ ReleaseCache(t) \/ OutOfMemory(t)
  PROVE  TypeInv'
<1>. USE DEF TypeInv
<1>1. CASE Acquire(t)
  <2>1. TypeOK'
    BY <1>1 DEF Acquire, Lock, Goto, TypeOK, Labels, binVars, blockVars, poolVars
  <2>2. FrameOK'
    BY <1>1 DEF Acquire, Goto, TypeOK, FrameOK
  <2>. QED  BY <2>1, <2>2
<1>2. CASE ReleaseInit(t)
  <2>1. TypeOK'
    BY <1>2 DEF ReleaseInit, Unlock, Goto, TypeOK, Labels, binVars, blockVars, poolVars
  <2>2. FrameOK'
    BY <1>2, ClassesTyped DEF ReleaseInit, Goto, TypeOK, FrameOK
  <2>. QED  BY <2>1, <2>2
<1>3. CASE ReleaseCache(t)
  <2>1. TypeOK'
    BY <1>3, ClassesTyped DEF ReleaseCache, Unlock, Return, Goto, TypeOK, Labels,
                              binVars, blockVars, poolVars
  <2>2. FrameOK'
    BY <1>3 DEF ReleaseCache, Return, Goto, TypeOK, FrameOK
  <2>. QED  BY <2>1, <2>2
<1>4. CASE OutOfMemory(t)
  <2>1. TypeOK'
    BY <1>4 DEF OutOfMemory, TypeOK, Labels, binVars, blockVars, poolVars
  <2>2. FrameOK'
    BY <1>4 DEF OutOfMemory, FrameOK
  <2>. QED  BY <2>1, <2>2
<1>. QED  BY <1>1, <1>2, <1>3, <1>4

LEMMA SpanTyped ==
  ASSUME TypeInv, NEW t \in Threads,
         FindSpan(t) \/ InitializeSpan(t) \/ PushFresh(t) \/ CacheSpan(t)
  PROVE  TypeInv'
<1>. USE DEF TypeInv
<1>1. CASE FindSpan(t)
  <2>1. TypeOK'
    BY <1>1 DEF FindSpan, Goto, TypeOK, Labels, binVars, blockVars, poolVars
  <2>2. FrameOK'
    BY <1>1 DEF FindSpan, Goto, TypeOK, FrameOK
  <2>. QED  BY <2>1, <2>2
<1>2. CASE InitializeSpan(t)
  <2>1. cls[t] \in Classes /\ span[t] \in Spans
    BY <1>2 DEF InitializeSpan, FrameOK, TypeOK
  <2>2. /\ FreshBlocks(span[t], cls[t]) \in SUBSET BlockIndices
        /\ CountOf(cls[t]) \in Int
    BY <2>1, ClassesTyped DEF FreshBlocks
  <2>3. TypeOK'
    BY <1>2, <2>1, <2>2 DEF InitializeSpan, Goto, TypeOK, Labels, binVars
  <2>4. FrameOK'
    BY <1>2, <2>1 DEF InitializeSpan, Goto, TypeOK, FrameOK
  <2>. QED  BY <2>3, <2>4
<1>3. CASE PushFresh(t)
  <2>1. span[t] \in Spans /\ cls[t] \in SizeClasses
    BY <1>3 DEF PushFresh, FrameOK
  <2>2. BinsTyped'
    <3>1. BinsTyped
      BY DEF TypeOK, BinsTyped
    <3>. QED  BY <1>3, <2>1, <3>1, BinPushTyped DEF PushFresh
  <2>3. TypeOK'
    BY <1>3, <2>2 DEF PushFresh, Goto, BinsTyped, TypeOK, Labels, blockVars, poolVars
  <2>4. FrameOK'
    BY <1>3, <2>1 DEF PushFresh, Goto, TypeOK, FrameOK
  <2>. QED  BY <2>3, <2>4
<1>4. CASE CacheSpan(t)
  <2>1. span[t] \in Spans
    BY <1>4 DEF CacheSpan, FrameOK
  <2>2. TypeOK'
    BY <1>4, <2>1 DEF CacheSpan, Goto, TypeOK, Labels, binVars, blockVars
  <2>3. FrameOK'
    BY <1>4, <2>1 DEF CacheSpan, Goto, TypeOK, FrameOK
  <2>. QED  BY <2>2, <2>3
<1>. QED  BY <1>1, <1>2, <1>3, <1>4

LEMMA FreeTyped ==
  ASSUME TypeInv, NEW t \in Threads,
         CheckFull(t) \/ LoadFree(t) \/ StoreFree(t) \/ CheckEmpty(t)
  PROVE  TypeInv'
<1>. USE DEF TypeInv
<1>1. /\ span[t] \in Spans
      /\ cls[t] \in SizeClasses
      /\ ptr[t] \in Blocks
  BY DEF CheckFull, LoadFree, StoreFree, CheckEmpty, FrameOK
<1>2. BinsTyped
  BY DEF TypeOK, BinsTyped
<1>3. CASE CheckFull(t)
  <2>1. BinsTyped'
    BY <1>1, <1>2, <1>3, BinPushTyped DEF CheckFull, BinsTyped, binVars
  <2>2. TypeOK'
    BY <1>3, <2>1 DEF CheckFull, Goto, BinsTyped, TypeOK, Labels, blockVars, poolVars
  <2>3. FrameOK'
    BY <1>1, <1>3 DEF CheckFull, Goto, TypeOK, FrameOK
  <2>. QED  BY <2>2, <2>3
<1>4. CASE LoadFree(t)
  <2>1. ptr[t][2] \in BlockIndices
    BY <1>1 DEF Blocks
  <2>2. free_count[span[t]] + 1 \in Int /\ free[span[t]] \in SUBSET BlockIndices
    BY <1>1 DEF TypeOK
  <2>3. reg' \in [Threads -> [count : Int, bits : SUBSET BlockIndices,
                              block : BlockIndices]]
    BY <1>4, <2>1, <2>2 DEF LoadFree, TypeOK
  <2>4. TypeOK'
    BY <1>4, <2>3 DEF LoadFree, Goto, TypeOK, Labels, binVars, blockVars, poolVars
  <2>5. FrameOK'
    BY <1>1, <1>4 DEF LoadFree, Goto, TypeOK, FrameOK
  <2>. QED  BY <2>4, <2>5
<1>5. CASE StoreFree(t)
  <2>1. /\ free_count' \in [Spans -> Int]
        /\ free' \in [Spans -> SUBSET BlockIndices]
        /\ reg' \in [Threads -> [count : Int, bits : SUBSET BlockIndices,
                                 block : BlockIndices]]
    BY <1>5, StoreRegTyped DEF StoreFree
  <2>2. TypeOK'
    BY <1>5, <2>1 DEF StoreFree, Goto, TypeOK, Labels, binVars, poolVars
  <2>3. FrameOK'
    BY <1>1, <1>5 DEF StoreFree, Goto, TypeOK, FrameOK
  <2>. QED  BY <2>2, <2>3
<1>6. CASE CheckEmpty(t)
  <2>1. CASE Empty(span[t])
    <3>1. BinsTyped'
      BY <1>1, <1>2, <1>6, <2>1, BinRemoveTyped DEF CheckEmpty
    <3>2. TypeOK'
      BY <1>6, <2>1, <3>1 DEF CheckEmpty, Goto, BinsTyped, TypeOK, Labels,
                              blockVars, poolVars
    <3>3. FrameOK'
      BY <1>1, <1>6, <2>1 DEF CheckEmpty, Goto, TypeOK, FrameOK
    <3>. QED  BY <3>2, <3>3
  <2>2. CASE ~Empty(span[t])
    <3>1. /\ Return(t)
          /\ UNCHANGED <<binVars, blockVars, poolVars, lock, reg, held>>
      BY <1>6, <2>2 DEF CheckEmpty
    <3>2. TypeOK'
      BY <3>1, ClassesTyped DEF Return, Goto, TypeOK, Labels, binVars,
                                blockVars, poolVars
    <3>3. FrameOK'
      BY <3>1 DEF Return, Goto, TypeOK, FrameOK
    <3>. QED  BY <3>2, <3>3
  <2>. QED  BY <2>1, <2>2
<1>. QED  BY <1>3, <1>4, <1>5, <1>6

LEMMA ExitTyped ==
  ASSUME TypeInv, NEW t \in Threads, Exit(t)
  PROVE  TypeInv'
<1>. USE DEF TypeInv
<1>1. TypeOK'
  BY DEF Exit, Goto, TypeOK, Labels, blockVars, poolVars
<1>2. FrameOK'
  BY DEF Exit, Goto, TypeOK, FrameOK
<1>. QED  BY <1>1, <1>2

LEMMA NextTypeInv == TypeInv /\ [Next]_vars => TypeInv'
<1>. SUFFICES ASSUME TypeInv, [Next]_vars PROVE TypeInv'
  OBVIOUS
<1>1. ASSUME NEW t \in Threads, Call(t) \/ Run(t) \/ Acquire(t) \/ Exit(t)
      PROVE  TypeInv'
  BY <1>1, CallTyped, ReallocCheckTyped, CheckLastTyped, LoadBlockTyped,
     StoreBlockTyped, LockTyped, SpanTyped, FreeTyped, ExitTyped DEF Run
<1>2. CASE UNCHANGED vars
  BY <1>2 DEF vars, binVars, blockVars, poolVars, TypeInv, TypeOK, FrameOK
<1>. QED  BY <1>1, <1>2 DEF Next, Terminated

\* Whatever calls threads overlap, the variables keep their types and each call
\* has the locals its place in the code dereferences.
THEOREM SpecTypeInv == Spec => []TypeInv
<1>. QED  BY InitTypeInv, NextTypeInv, PTL DEF Spec

\* Every variable keeps its type in every behaviour, however calls interleave
\* and whoever frees a block; with FrameOK, no call dereferences NULL.
THEOREM SpecTypeOK == Spec => []TypeOK
<1>1. TypeInv => TypeOK
  BY DEF TypeInv
<1>. QED  BY <1>1, SpecTypeInv, PTL


-----------------------------------------------------------------------------
(* Counting blocks                                                         *)

LEMMA CountOfAll == \A n \in Nat : Cardinality(0 .. n - 1) = n
BY FS_Interval

\* free_count tells an empty and a full span from the others, and follows the
\* blocks that are taken and given back.
LEMMA CountFacts ==
  ASSUME NEW n \in Nat, NEW S \in SUBSET (0 .. n - 1)
  PROVE  /\ Cardinality(S) \in Nat
         /\ Cardinality(S) = 0 <=> S = {}
         /\ Cardinality(S) = n <=> S = 0 .. n - 1
         /\ \A i \in S : /\ Cardinality(S \ {i}) = Cardinality(S) - 1
                         /\ Cardinality(S) = 1 <=> S \ {i} = {}
         /\ \A i : i \notin S => Cardinality(S \cup {i}) = Cardinality(S) + 1
<1>1. IsFiniteSet(0 .. n - 1) /\ Cardinality(0 .. n - 1) = n
  BY FS_Interval
<1>2. IsFiniteSet(S) /\ (Cardinality(0 .. n - 1) = Cardinality(S) => 0 .. n - 1 = S)
  BY <1>1, FS_Subset
<1>3. Cardinality(S) \in Nat /\ (Cardinality(S) = 0 <=> S = {})
  BY <1>2, FS_CardinalityType, FS_EmptySet
<1>4. \A i : i \notin S => Cardinality(S \cup {i}) = Cardinality(S) + 1
  BY <1>2, FS_AddElement
<1>5. ASSUME NEW i \in S
      PROVE  /\ Cardinality(S \ {i}) = Cardinality(S) - 1
             /\ Cardinality(S) = 1 <=> S \ {i} = {}
  <2>1. IsFiniteSet(S \ {i}) /\ Cardinality(S \ {i}) = Cardinality(S) - 1
    BY <1>2, FS_RemoveElement
  <2>2. Cardinality(S \ {i}) = 0 <=> S \ {i} = {}
    BY <2>1, FS_EmptySet
  <2>. QED  BY <1>3, <2>1, <2>2
<1>. QED  BY <1>1, <1>2, <1>3, <1>4, <1>5

-----------------------------------------------------------------------------
(* What a step of thread t leaves alone                                    *)

StepOf(t) ==
  /\ pc[t] # "aborted" /\ pc'[t] # "aborted"
  /\ \A u \in Threads \ {t} :
       /\ pc'[u] = pc[u] /\ cls'[u] = cls[u] /\ span'[u] = span[u]
       /\ ptr'[u] = ptr[u] /\ reg'[u] = reg[u] /\ held'[u] = held[u]
  /\ \A s \in Spans : owner[s] \notin {t, NULL} =>
       /\ owner'[s] = owner[s] /\ size_class_index'[s] = size_class_index[s]
       /\ free'[s] = free[s] /\ free_count'[s] = free_count[s]
  /\ \A s \in Spans : owner'[s] \in {owner[s], t, NULL}
  /\ lock' = lock \/ lock \in {NULL, t}
  /\ UNCHANGED pool \/ lock = t

\* Nothing the invariant says of the other threads and their spans changes.
LEMMA OthersKept ==
  ASSUME TypeInv, CoreInv, NEW t \in Threads, StepOf(t)
  PROVE  /\ \A u \in Threads \ {t} : ThreadInv(u)'
         /\ \A s \in Spans : owner'[s] \notin {t, NULL} =>
              SpanInv(s)' /\ (Binned(s)' <=> Binned(s))
<1>. USE DEF TypeInv, TypeOK, StepOf
<1>1. ASSUME NEW s \in Spans, owner[s] \in Threads \ {t}
      PROVE  /\ owner'[s] = owner[s] /\ s \notin pool
             /\ free'[s] = free[s] /\ free_count'[s] = free_count[s]
             /\ AllBlocks(s)' = AllBlocks(s)
             /\ size_class_index'[s] = size_class_index[s]
  BY <1>1 DEF CoreInv, PoolInv, AllBlocks
<1>2. ASSUME NEW u \in Threads \ {t} PROVE ThreadInv(u)'
  <2>1. ThreadInv(u) /\ PoolInv
    BY DEF CoreInv
  <2>2. pc[u] \in Working => span[u] \in Spans /\ owner[span[u]] = u
    BY <2>1 DEF ThreadInv, OwnerOK, FrameOK, Working
  <2>3. pc[u] \in Working =>
          /\ owner'[span[u]] = u
          /\ free'[span[u]] = free[span[u]]
          /\ free_count'[span[u]] = free_count[span[u]]
          /\ (0 .. CountOf(size_class_index[span[u]]) - 1)'
               = 0 .. CountOf(size_class_index[span[u]]) - 1
          /\ size_class_index'[span[u]] = size_class_index[span[u]]
    BY <1>1, <2>2 DEF AllBlocks
  <2>4. LockOK(u)'
    BY <2>1 DEF ThreadInv, LockOK
  <2>5. OwnerOK(u)'
    BY <2>1, <2>3 DEF ThreadInv, OwnerOK, LockOK, Locked
  <2>6. HeldOK(u)'
    <3>1. ASSUME NEW b \in held[u]
          PROVE  owner'[b[1]] = u /\ b[2] \in AllBlocks(b[1])'
      <4>1. b[1] \in Spans /\ owner[b[1]] = u /\ b[2] \in AllBlocks(b[1])
        BY <2>1 DEF ThreadInv, HeldOK, Blocks
      <4>. QED  BY <1>1, <4>1
    <3>2. pc[u] \in Freeing => /\ ptr[u][1] = span[u]
                              /\ ptr[u][2] \in AllBlocks(span[u])
      BY <2>1 DEF ThreadInv, HeldOK
    <3>3. pc'[u] \in Freeing => /\ ptr'[u][1] = span'[u]
                               /\ ptr'[u][2] \in (0 .. CountOf(size_class_index[span[u]]) - 1)'
      BY <2>3, <3>2 DEF AllBlocks, Freeing, Working
    <3>. QED  BY <2>1, <3>1, <3>3 DEF ThreadInv, HeldOK, AllBlocks
  <2>7. StageOK(u)'
    BY <2>1, <2>3 DEF ThreadInv, StageOK, AllBlocks, Working
  <2>. QED  BY <2>4, <2>5, <2>6, <2>7 DEF ThreadInv
<1>3. ASSUME NEW s \in Spans, owner'[s] \notin {t, NULL}
      PROVE  SpanInv(s)' /\ (Binned(s)' <=> Binned(s))
  <2>1. owner[s] = owner'[s] /\ owner[s] \in Threads \ {t}
    BY <1>3
  <2>2. /\ free'[s] = free[s] /\ free_count'[s] = free_count[s]
        /\ AllBlocks(s)' = AllBlocks(s)
        /\ SpanInv(s)
    BY <1>1, <2>1 DEF CoreInv
  <2>3. \A b : Returning(owner[s], b)' <=> Returning(owner[s], b)
    BY <2>1 DEF Returning
  <2>4. held'[owner'[s]] = held[owner[s]] /\ pc'[owner'[s]] = pc[owner[s]]
        /\ span'[owner'[s]] = span[owner[s]]
    BY <2>1
  <2>6. BlocksOK(s)'
    BY <2>2, <2>3, <2>4 DEF SpanInv, BlocksOK
  <2>7. InUseOK(s)'
    BY <2>2, <2>4 DEF SpanInv, InUseOK
  <2>8. Binned(s)' <=> Binned(s)
    BY <2>2, <2>4 DEF Binned
  <2>. QED  BY <2>6, <2>7, <2>8 DEF SpanInv
<1>. QED  BY <1>2, <1>3

\* A span has at least one block, of a size class at least two.
LEMMA AllBlocksSome ==
  ASSUME TypeInv, NEW s \in Spans
  PROVE  0 \in AllBlocks(s)
<1>1. size_class_index[s] \in Classes
  BY DEF TypeInv, TypeOK
<1>2. CountOf(size_class_index[s]) \in Nat /\ CountOf(size_class_index[s]) >= 1
  BY <1>1, ClassesTyped DEF CountOf
<1>. QED  BY <1>2 DEF AllBlocks

LEMMA NullNoBlock == NULL \notin Blocks
BY DEF Blocks, BlockIndices

\* What is left to show of a step of thread t, and of its spans.
LEMMA OwnKept ==
  ASSUME TypeInv, CoreInv, NEW t \in Threads, StepOf(t),
         PoolInv', ThreadInv(t)',
         \A s \in Spans : owner'[s] = t => SpanInv(s)'
  PROVE  CoreInv'
<1>1. \A s \in Spans : s \notin pool' => owner'[s] # NULL
  BY DEF PoolInv
<1>. QED  BY <1>1, OthersKept DEF CoreInv

\* The same when the step changes no span and no block in the program's hands.
LEMMA QuietKept ==
  ASSUME TypeInv, CoreInv, NEW t \in Threads, StepOf(t),
         UNCHANGED <<blockVars, poolVars, held>>,
         ThreadInv(t)',
         \A b : Returning(t, b)' <=> Returning(t, b),
         \A s \in Spans : owner[s] = t /\ free[s] = AllBlocks(s)
                        => span'[t] = s /\ pc'[t] \in Vacant
  PROVE  CoreInv'
<1>1. PoolInv'
  BY DEF CoreInv, PoolInv, poolVars
<1>2. ASSUME NEW s \in Spans, owner'[s] = t PROVE SpanInv(s)'
  <2>1. SpanInv(s) /\ owner[s] = t
    BY <1>2 DEF CoreInv, PoolInv, poolVars
  <2>2. AllBlocks(s)' = AllBlocks(s) /\ UNCHANGED <<free, free_count, held, owner>>
    BY DEF AllBlocks, poolVars, blockVars
  <2>3. \A b : Returning(owner[s], b)' <=> Returning(owner[s], b)
    BY <1>2, <2>1 DEF Returning
  <2>4. BlocksOK(s)'
    BY <2>1, <2>2, <2>3 DEF SpanInv, BlocksOK
  <2>5. InUseOK(s)'
    BY <1>2, <2>1, <2>2 DEF InUseOK
  <2>. QED  BY <2>4, <2>5 DEF SpanInv
<1>. QED  BY <1>1, <1>2, OwnKept

\* Only a thread at a vacant place owns a span with no block in use.
LEMMA OwnInUse ==
  ASSUME TypeInv, CoreInv, NEW t \in Threads,
         NEW s \in Spans, owner[s] = t, free[s] = AllBlocks(s)
  PROVE  span[t] = s /\ pc[t] \in Vacant
BY DEF CoreInv, PoolInv, SpanInv, InUseOK

-----------------------------------------------------------------------------
(* Entering and leaving a call                                             *)

\* cmalloc takes the head of a bin, which is a span with free blocks.
LEMMA EnterCmallocCore ==
  ASSUME TypeInv, CoreInv, NEW t \in Threads, NEW c \in Classes,
         pc[t] \in {"idle", "r_check"}, EnterCmalloc(t, c),
         UNCHANGED <<blockVars, poolVars, lock, ptr, reg, held>>,
         \A d \in SizeClasses : thread_local_bin[t][d] # NULL
                             => thread_local_bin[t][d] \in BinOf(t, d)
  PROVE  StepOf(t) /\ CoreInv'
<1>. USE DEF TypeInv, TypeOK
<1>1. pc'[t] \in {"m_check", "m_lock"}
  BY DEF EnterCmalloc, Goto
<1>2. StepOf(t)
  BY <1>1 DEF StepOf, EnterCmalloc, Goto, blockVars, poolVars
<1>3. ThreadInv(t)'
  <2>1. ThreadInv(t)
    BY DEF CoreInv
  <2>2. LockOK(t)'
    BY <1>1 DEF LockOK, Locked
  <2>3. CASE pc'[t] = "m_check"
    <3>1. c \in SizeClasses /\ thread_local_bin[t][c] \in BinOf(t, c)
          /\ span'[t] = thread_local_bin[t][c] /\ cls'[t] = c
      BY <2>3, ClassesTyped DEF EnterCmalloc, Goto
    <3>2. Binned(span'[t]) /\ owner[span'[t]] = t /\ size_class_index[span'[t]] = c
          /\ span'[t] \in Spans
      BY <3>1 DEF BinOf
    <3>3. free[span'[t]] # {}
      BY <3>2 DEF Binned, Updating
    <3>. QED  BY <2>1, <2>2, <2>3, <3>1, <3>2, <3>3
         DEF ThreadInv, OwnerOK, HeldOK, StageOK, AllBlocks,
             Freeing, blockVars, poolVars
  <2>4. CASE pc'[t] = "m_lock"
    BY <2>1, <2>2, <2>4
       DEF EnterCmalloc, Goto, ThreadInv, OwnerOK, HeldOK, StageOK, AllBlocks,
           Working, Freeing, blockVars, poolVars
  <2>. QED  BY <1>1, <2>3, <2>4
<1>4. \A b : Returning(t, b)' <=> Returning(t, b)
  BY <1>1 DEF Returning
<1>. QED  BY <1>1, <1>2, <1>3, <1>4, QuietKept, OwnInUse DEF Vacant

\* A call that returns without a block to account for leaves nothing behind.
LEMMA ReturnCore ==
  ASSUME TypeInv, CoreInv, NEW t \in Threads, Return(t),
         pc[t] \in {"r_check", "f_empty", "f_unlock"},
         pc[t] = "f_empty" => ~Empty(span[t]),
         UNCHANGED <<blockVars, poolVars, reg, held>>,
         lock' = lock \/ (lock = t /\ lock' = NULL)
  PROVE  StepOf(t) /\ CoreInv'
<1>. USE DEF TypeInv, TypeOK
<1>1. pc'[t] = "idle"
  BY DEF Return, Goto
<1>2. StepOf(t)
  BY <1>1 DEF StepOf, Return, Goto, blockVars, poolVars
<1>3. ThreadInv(t)'
  BY <1>1 DEF Return, Goto, CoreInv, ThreadInv, LockOK, OwnerOK, HeldOK, StageOK,
              AllBlocks, Working, Freeing, Locked, blockVars, poolVars
<1>4. \A b : Returning(t, b)' <=> Returning(t, b)
  BY <1>1 DEF Returning
<1>5. ASSUME NEW s \in Spans, owner[s] = t, free[s] = AllBlocks(s)
      PROVE  FALSE
  <2>1. span[t] = s /\ pc[t] = "f_empty"
    BY <1>5, OwnInUse DEF Vacant
  <2>2. CountOf(size_class_index[s]) \in Nat
    BY ClassesTyped
  <2>3. free_count[s] = Cardinality(0 .. CountOf(size_class_index[s]) - 1)
    BY <1>5 DEF CoreInv, PoolInv, SpanInv, BlocksOK, AllBlocks
  <2>4. Empty(s)
    BY <2>2, <2>3, CountOfAll DEF Empty
  <2>. QED  BY <2>1, <2>4
<1>. QED  BY <1>2, <1>3, <1>4, <1>5, QuietKept

LEMMA ReallocCheckCore ==
  ASSUME TypeInv, CoreInv, NEW t \in Threads, ReallocCheck(t),
         \A d \in SizeClasses : thread_local_bin[t][d] # NULL
                             => thread_local_bin[t][d] \in BinOf(t, d)
  PROVE  StepOf(t) /\ CoreInv'
<1>1. /\ pc[t] = "r_check" /\ cls[t] \in Classes
      /\ UNCHANGED <<binVars, blockVars, poolVars, lock, reg, held>>
      /\ Return(t) \/ (EnterCmalloc(t, cls[t]) /\ UNCHANGED ptr)
  BY DEF ReallocCheck, TypeInv, TypeOK
<1>. QED  BY <1>1, ReturnCore, EnterCmallocCore

LEMMA CreallocCore ==
  ASSUME TypeInv, CoreInv, ~CrossThreadFrees, NEW t \in Threads,
         NEW b, NEW c \in Classes, Crealloc(t, b, c)
  PROVE  StepOf(t) /\ CoreInv'
<1>. USE DEF TypeInv, TypeOK
<1>1. pc[t] = "idle" /\ pc'[t] = "r_check" /\ b \in held[t]
  BY DEF Crealloc, MayCall, MayPass, Goto
<1>2. StepOf(t)
  BY <1>1 DEF StepOf, Crealloc, Goto, blockVars, poolVars
<1>3. ThreadInv(t)'
  BY <1>1 DEF Crealloc, Goto, CoreInv, ThreadInv, LockOK, OwnerOK, HeldOK, StageOK,
              AllBlocks, Working, Freeing, Locked, blockVars, poolVars
<1>4. \A x : Returning(t, x)' <=> Returning(t, x)
  BY <1>1 DEF Returning
<1>. QED  BY <1>1, <1>2, <1>3, <1>4, QuietKept, OwnInUse DEF Crealloc, Vacant

LEMMA ExitCore ==
  ASSUME TypeInv, CoreInv, NEW t \in Threads, Exit(t)
  PROVE  StepOf(t) /\ CoreInv'
<1>. USE DEF TypeInv, TypeOK
<1>1. pc[t] = "idle" /\ pc'[t] = "ended"
  BY DEF Exit, Goto
<1>2. StepOf(t)
  BY <1>1 DEF StepOf, Exit, Goto, blockVars, poolVars
<1>3. ThreadInv(t)'
  BY <1>1 DEF Exit, Goto, CoreInv, ThreadInv, LockOK, OwnerOK, HeldOK, StageOK, AllBlocks,
         Working, Freeing, Locked, blockVars, poolVars
<1>4. \A x : Returning(t, x)' <=> Returning(t, x)
  BY <1>1 DEF Returning
<1>. QED  BY <1>1, <1>2, <1>3, <1>4, QuietKept, OwnInUse DEF Exit, Vacant
-----------------------------------------------------------------------------
(* Places a call passes without changing a span                            *)

\* The tests before a block is taken or given back.
LEMMA CheckCore ==
  ASSUME TypeInv, CoreInv, NEW t \in Threads, CheckLast(t) \/ CheckFull(t)
  PROVE  StepOf(t) /\ CoreInv'
<1>. USE DEF TypeInv, TypeOK
<1>1. \/ pc[t] = "m_check" /\ pc'[t] = "m_load"
      \/ pc[t] = "f_check" /\ pc'[t] = "f_load"
  BY DEF CheckLast, CheckFull, Goto
<1>2. UNCHANGED <<blockVars, poolVars, lock, cls, span, ptr, reg, held>>
      /\ Goto(t, pc'[t])
  BY DEF CheckLast, CheckFull, Goto
<1>3. StepOf(t)
  BY <1>1, <1>2 DEF StepOf, Goto, blockVars, poolVars
<1>4. ThreadInv(t)'
  BY <1>1, <1>2 DEF CoreInv, ThreadInv, LockOK, OwnerOK, HeldOK, StageOK,
                    AllBlocks, Working, Freeing, Locked, blockVars, poolVars
<1>5. \A b : Returning(t, b)' <=> Returning(t, b)
  BY <1>1, <1>2 DEF Returning
<1>. QED  BY <1>1, <1>2, <1>3, <1>4, <1>5, QuietKept, OwnInUse DEF Vacant

\* The loads of allocate_block and free_block.
LEMMA LoadCore ==
  ASSUME TypeInv, CoreInv, NEW t \in Threads, LoadBlock(t) \/ LoadFree(t)
  PROVE  StepOf(t) /\ CoreInv'
<1>. USE DEF TypeInv, TypeOK
<1>1. pc[t] = "m_load" => free[span[t]] # {} /\ LeastOf(free[span[t]]) \in free[span[t]]
  BY LeastOfTyped DEF CoreInv, ThreadInv, StageOK, FrameOK
<1>2. \/ pc[t] = "m_load" /\ pc'[t] = "m_store"
         /\ reg'[t] = [count |-> free_count[span[t]] - 1,
                       bits  |-> free[span[t]] \ {LeastOf(free[span[t]])},
                       block |-> LeastOf(free[span[t]])]
      \/ pc[t] = "f_load" /\ pc'[t] = "f_store"
         /\ reg'[t] = [count |-> free_count[span[t]] + 1,
                       bits  |-> free[span[t]] \cup {ptr[t][2]},
                       block |-> ptr[t][2]]
  BY <1>1 DEF LoadBlock, LoadFree, Goto
<1>3. /\ UNCHANGED <<binVars, blockVars, poolVars, lock, cls, span, ptr, held>>
      /\ Goto(t, pc'[t]) /\ reg' = [reg EXCEPT ![t] = reg'[t]]
  BY <1>1 DEF LoadBlock, LoadFree, Goto
<1>4. StepOf(t)
  BY <1>2, <1>3 DEF StepOf, Goto, blockVars, poolVars
<1>5. ThreadInv(t)'
  <2>1. LockOK(t)' /\ OwnerOK(t)' /\ HeldOK(t)'
    <3>1. LockOK(t) /\ OwnerOK(t) /\ HeldOK(t)
      BY DEF CoreInv, ThreadInv
    <3>2. LockOK(t)'
      BY <1>2, <1>3, <3>1 DEF LockOK, Locked
    <3>3. OwnerOK(t)'
      BY <1>2, <1>3, <3>1 DEF OwnerOK, Working, poolVars
    <3>4. HeldOK(t)'
      BY <1>2, <1>3, <3>1 DEF HeldOK, AllBlocks, Freeing, poolVars
    <3>. QED  BY <3>2, <3>3, <3>4
  <2>2. StageOK(t)'
    BY <1>1, <1>2, <1>3 DEF StageOK, blockVars
  <2>. QED  BY <2>1, <2>2 DEF ThreadInv
<1>6. \A b : Returning(t, b)' <=> Returning(t, b)
  BY <1>2, <1>3 DEF Returning
<1>. QED  BY <1>2, <1>3, <1>4, <1>5, <1>6, QuietKept, OwnInUse DEF Vacant

\* Taking the lock, and giving it back after a span is initialized.
LEMMA LockCore ==
  ASSUME TypeInv, CoreInv, NEW t \in Threads, Acquire(t) \/ ReleaseInit(t) \/ PushFresh(t)
  PROVE  StepOf(t) /\ CoreInv'
<1>. USE DEF TypeInv, TypeOK
<1>1. \/ pc[t] = "m_lock" /\ pc'[t] = "m_find" /\ lock = NULL /\ lock' = t
      \/ pc[t] = "f_lock" /\ pc'[t] = "f_cache" /\ lock = NULL /\ lock' = t
      \/ pc[t] = "m_unlock" /\ pc'[t] = "m_push"
      \/ pc[t] = "m_unlock" /\ pc'[t] = "m_load"
      \/ pc[t] = "m_push" /\ pc'[t] = "m_load" /\ lock' = lock
  BY DEF Acquire, ReleaseInit, PushFresh, Goto, Lock
<1>2. /\ UNCHANGED <<blockVars, poolVars, cls, span, ptr, reg, held>>
      /\ Goto(t, pc'[t])
  BY DEF Acquire, ReleaseInit, PushFresh, Goto
<1>3. pc[t] = "m_unlock" => lock = t /\ lock' = NULL
  BY DEF CoreInv, ThreadInv, LockOK, Locked, Acquire, ReleaseInit, PushFresh, Unlock
<1>4. StepOf(t)
  BY <1>1, <1>2, <1>3 DEF StepOf, Goto, blockVars, poolVars
<1>5. ThreadInv(t)'
  <2>1. LockOK(t)' /\ OwnerOK(t)' /\ HeldOK(t)'
    BY <1>1, <1>2 DEF CoreInv, ThreadInv, LockOK, OwnerOK, HeldOK,
                      AllBlocks, Working, Freeing, Locked, blockVars, poolVars
  <2>2. pc'[t] = "m_load" => free[span[t]] # {}
    <3>1. pc'[t] = "m_load" => /\ free[span[t]] = AllBlocks(span[t])
                              /\ span[t] \in Spans
      BY <1>1 DEF CoreInv, ThreadInv, StageOK, FrameOK
    <3>. QED  BY <3>1, AllBlocksSome
  <2>3. StageOK(t)'
    BY <1>1, <1>2, <2>2 DEF CoreInv, ThreadInv, StageOK, AllBlocks, blockVars, poolVars
  <2>. QED  BY <2>1, <2>3 DEF ThreadInv
<1>6. \A b : Returning(t, b)' <=> Returning(t, b)
  BY <1>1, <1>2 DEF Returning
<1>. QED  BY <1>1, <1>2, <1>4, <1>5, <1>6, QuietKept, OwnInUse DEF Vacant

LEMMA FindSpanCore ==
  ASSUME TypeInv, CoreInv, NEW t \in Threads, FindSpan(t)
  PROVE  StepOf(t) /\ CoreInv'
<1>. USE DEF TypeInv, TypeOK
<1>1. pc[t] = "m_find" /\ pc'[t] = "m_init" /\ span'[t] \in pool
  BY DEF FindSpan, Goto
<1>2. StepOf(t)
  BY <1>1 DEF FindSpan, StepOf, Goto, blockVars, poolVars
<1>3. ThreadInv(t)'
  BY <1>1 DEF FindSpan, Goto, CoreInv, ThreadInv, LockOK, OwnerOK, HeldOK, StageOK,
              AllBlocks, Working, Freeing, Locked, blockVars, poolVars
<1>4. \A b : Returning(t, b)' <=> Returning(t, b)
  BY <1>1 DEF Returning
<1>. QED  BY <1>1, <1>2, <1>3, <1>4, QuietKept, OwnInUse DEF FindSpan, Vacant

\* A span all of whose blocks are free leaves its bin; otherwise cfree returns.
LEMMA CheckEmptyCore ==
  ASSUME TypeInv, CoreInv, NEW t \in Threads, CheckEmpty(t)
  PROVE  StepOf(t) /\ CoreInv'
<1>. USE DEF TypeInv, TypeOK
<1>1. CASE ~Empty(span[t])
  BY <1>1, ReturnCore DEF CheckEmpty
<1>2. CASE Empty(span[t])
  <2>1. /\ pc[t] = "f_empty" /\ pc'[t] = "f_lock" /\ Goto(t, "f_lock")
        /\ UNCHANGED <<cls, span, ptr, blockVars, poolVars, lock, reg, held>>
    BY <1>2 DEF CheckEmpty, Goto
  <2>2. StepOf(t)
    BY <2>1 DEF StepOf, Goto, blockVars, poolVars
  <2>3. span[t] \in Spans /\ owner[span[t]] = t /\ cls[t] \in SizeClasses
    BY <2>1 DEF FrameOK, CoreInv, ThreadInv, OwnerOK, Working
  <2>4. free[span[t]] = AllBlocks(span[t])
    <3>1. SpanInv(span[t])
      BY <2>3 DEF CoreInv, PoolInv
    <3>2. CountOf(size_class_index[span[t]]) \in Nat
      BY <2>3, ClassesTyped
    <3>. QED  BY <1>2, <3>1, <3>2, CountFacts DEF Empty, SpanInv, BlocksOK, AllBlocks
  <2>5. ThreadInv(t)'
    BY <2>1, <2>4 DEF CoreInv, ThreadInv, LockOK, OwnerOK, HeldOK, StageOK,
                AllBlocks, Working, Freeing, Locked, blockVars, poolVars
  <2>6. \A b : Returning(t, b)' <=> Returning(t, b)
    BY <2>1, <2>3, ClassesTyped DEF Returning
  <2>. QED  BY <2>1, <2>2, <2>5, <2>6, QuietKept, OwnInUse DEF Vacant
<1>. QED  BY <1>1, <1>2

LEMMA ReleaseCacheCore ==
  ASSUME TypeInv, CoreInv, NEW t \in Threads, ReleaseCache(t)
  PROVE  StepOf(t) /\ CoreInv'
<1>1. pc[t] = "f_unlock" /\ lock = t /\ lock' = NULL
  BY DEF ReleaseCache, Unlock, CoreInv, ThreadInv, LockOK, Locked
<1>. QED  BY <1>1, ReturnCore DEF ReleaseCache
-----------------------------------------------------------------------------
(* Steps that move blocks                                                  *)

\* cfree takes a block of one of the thread's own spans from the program.
LEMMA EnterCfreeCore ==
  ASSUME TypeInv, CoreInv, NEW t \in Threads, NEW b \in Blocks,
         owner[b[1]] = t, b[2] \in AllBlocks(b[1]), EnterCfree(t, b),
         UNCHANGED <<poolVars, lock>>,
         \A x \in held'[t] : x[1] \in Spans /\ owner[x[1]] = t /\ x[2] \in AllBlocks(x[1]),
         pc[t] \in {"idle", "m_store"}
  PROVE  /\ ThreadInv(t)'
         /\ \A x : Returning(t, x)' <=> x = b
<1>. USE DEF TypeInv, TypeOK
<1>1. b[1] \in Spans /\ ptr'[t] = b /\ span'[t] = b[1] /\ cls'[t] = size_class_index[b[1]]
  BY DEF EnterCfree, Blocks
<1>2. pc'[t] = IF cls'[t] = LARGE THEN "f_lock" ELSE "f_check"
  BY <1>1 DEF EnterCfree, Goto
<1>3. ThreadInv(t)'
  BY <1>1, <1>2 DEF ThreadInv, LockOK, OwnerOK, HeldOK, StageOK, AllBlocks,
                    Working, Freeing, Locked, poolVars
<1>. QED  BY <1>1, <1>2, <1>3 DEF Returning

LEMMA CfreeCore ==
  ASSUME TypeInv, CoreInv, ~CrossThreadFrees, NEW t \in Threads, NEW b, Cfree(t, b)
  PROVE  StepOf(t) /\ CoreInv'
<1>. USE DEF TypeInv, TypeOK
<1>1. pc[t] = "idle" /\ pc'[t] # "aborted" /\ b \in held[t] /\ EnterCfree(t, b)
  BY DEF Cfree, MayCall, MayPass, EnterCfree, Goto
<1>2. b \in Blocks /\ owner[b[1]] = t /\ b[2] \in AllBlocks(b[1])
  BY <1>1 DEF CoreInv, ThreadInv, HeldOK
<1>3. \A x \in held[t] : x[1] \in Spans /\ owner[x[1]] = t /\ x[2] \in AllBlocks(x[1])
  BY DEF CoreInv, ThreadInv, HeldOK, Blocks
<1>4. held'[t] = held[t] \ {b} /\ \A u \in Threads \ {t} : held'[u] = held[u]
  <2>1. ASSUME NEW u \in Threads \ {t} PROVE b \notin held[u]
    BY <1>2 DEF CoreInv, ThreadInv, HeldOK
  <2>. QED  BY <2>1 DEF Cfree
<1>5. ThreadInv(t)' /\ \A x : Returning(t, x)' <=> x = b
  BY <1>1, <1>2, <1>3, <1>4, EnterCfreeCore DEF Cfree
<1>6. StepOf(t)
  BY <1>1, <1>4 DEF StepOf, Cfree, EnterCfree, Goto, blockVars, poolVars
<1>7. ASSUME NEW s \in Spans, owner'[s] = t PROVE SpanInv(s)'
  <2>1. SpanInv(s) /\ owner[s] = t
    BY <1>7 DEF Cfree, CoreInv, PoolInv, poolVars
  <2>2. AllBlocks(s)' = AllBlocks(s) /\ UNCHANGED <<free, free_count>>
    BY DEF Cfree, AllBlocks, blockVars, poolVars
  <2>3. \A i : ~Returning(t, <<s, i>>)
    BY <1>1 DEF Returning
  <2>4. BlocksOK(s)'
    <3>1. /\ free'[s] \subseteq AllBlocks(s)' /\ free_count'[s] = Cardinality(free'[s])
      BY <2>1, <2>2 DEF SpanInv, BlocksOK
    <3>2. ASSUME NEW i \in AllBlocks(s)
          PROVE  /\ i \in free'[s] \/ <<s, i>> \in held'[t] \/ Returning(t, <<s, i>>)'
                 /\ i \in free'[s] => <<s, i>> \notin held'[t] /\ ~Returning(t, <<s, i>>)'
                 /\ <<s, i>> \in held'[t] => ~Returning(t, <<s, i>>)'
      <4>1. /\ i \in free[s] \/ <<s, i>> \in held[t]
            /\ i \in free[s] => <<s, i>> \notin held[t]
        BY <2>1, <2>3 DEF SpanInv, BlocksOK
      <4>. QED  BY <1>1, <1>4, <1>5, <2>2, <4>1
    <3>. QED  BY <1>7, <2>2, <3>1, <3>2 DEF BlocksOK, Returning
  <2>5. InUseOK(s)'
    <3>1. pc[t] \notin Vacant
      BY <1>1 DEF Vacant
    <3>2. free[s] # AllBlocks(s)
      BY <2>1, <3>1, OwnInUse
    <3>. QED  BY <2>2, <3>2 DEF InUseOK
  <2>. QED  BY <2>4, <2>5 DEF SpanInv
<1>8. PoolInv'
  BY DEF Cfree, CoreInv, PoolInv, poolVars
<1>. QED  BY <1>5, <1>6, <1>7, <1>8, OwnKept

LEMMA StoreBlockCore ==
  ASSUME TypeInv, CoreInv, NEW t \in Threads, StoreBlock(t)
  PROVE  StepOf(t) /\ CoreInv'
<1>. USE DEF TypeInv, TypeOK
<1>. DEFINE s == span[t]
            x == <<s, reg[t].block>>
<1>1. pc[t] = "m_store" /\ s \in Spans /\ owner[s] = t /\ UNCHANGED <<binVars, poolVars, lock>>
  BY DEF StoreBlock, FrameOK, CoreInv, ThreadInv, OwnerOK, Working
<1>2. /\ reg[t].block \in free[s] /\ SpanInv(s)
      /\ free'[s] = free[s] \ {reg[t].block} /\ free_count'[s] = free_count[s] - 1
      /\ \A r \in Spans \ {s} : free'[r] = free[r] /\ free_count'[r] = free_count[r]
      /\ \A u \in Threads \ {t} : reg'[u] = reg[u]
  BY <1>1 DEF StoreBlock, StoreReg, CoreInv, PoolInv, ThreadInv, StageOK
<1>3. /\ reg[t].block \in AllBlocks(s)
      /\ x \notin held[t] /\ x \in Blocks
  BY <1>1, <1>2 DEF SpanInv, BlocksOK, Blocks
<1>4. ptr[t] # NULL => ptr[t] \in held[t]
  BY <1>1 DEF CoreInv, ThreadInv, HeldOK, Freeing
<1>5. \A b \in held[t] : b \in Blocks /\ owner[b[1]] = t /\ b[2] \in AllBlocks(b[1])
  BY DEF CoreInv, ThreadInv, HeldOK
<1>6. /\ held'[t] = (held[t] \ {ptr[t]}) \cup {x}
      /\ \A u \in Threads \ {t} : held'[u] = held[u]
  <2>1. ASSUME NEW u \in Threads \ {t}, ptr[t] # NULL PROVE ptr[t] \notin held[u]
    BY <1>4, <1>5, <2>1 DEF CoreInv, ThreadInv, HeldOK
  <2>2. CASE ptr[t] = NULL
    BY <2>2, NullNoBlock DEF StoreBlock
  <2>3. CASE ptr[t] # NULL
    <3>1. held' = [u \in Threads |-> (held[u] \ {ptr[t]}) \cup (IF u = t THEN {x} ELSE {})]
      BY <2>3 DEF StoreBlock
    <3>. QED  BY <2>1, <2>3, <3>1
  <2>. QED  BY <2>2, <2>3
<1>7. \A y \in held'[t] : y[1] \in Spans /\ owner[y[1]] = t /\ y[2] \in AllBlocks(y[1])
  BY <1>1, <1>3, <1>5, <1>6 DEF Blocks
<1>8. ThreadInv(t)' /\ \A y \in Blocks : Returning(t, y)' <=> y = ptr[t]
  <2>1. CASE ptr[t] = NULL
    <3>1. pc'[t] = "idle" /\ span'[t] = NULL /\ ptr'[t] = NULL
      BY <2>1 DEF StoreBlock, Return, Goto
    <3>2. ThreadInv(t)'
      BY <1>1, <1>7, <3>1 DEF ThreadInv, LockOK, OwnerOK, HeldOK, StageOK, AllBlocks,
                              Working, Freeing, Locked, poolVars
    <3>. QED  BY <2>1, <3>1, <3>2, NullNoBlock DEF Returning
  <2>2. CASE ptr[t] # NULL
    BY <1>1, <1>4, <1>5, <1>7, <2>2, EnterCfreeCore DEF StoreBlock
  <2>. QED  BY <2>1, <2>2
<1>9. StepOf(t)
  <2>1. pc'[t] # "aborted" /\ Goto(t, pc'[t])
    BY DEF StoreBlock, Return, EnterCfree, Goto
  <2>2. \A u \in Threads \ {t} :
          cls'[u] = cls[u] /\ span'[u] = span[u] /\ ptr'[u] = ptr[u]
    BY DEF StoreBlock, Return, EnterCfree
  <2>. QED  BY <1>1, <1>2, <1>6, <2>1, <2>2 DEF StepOf, Goto, poolVars
<1>10. ASSUME NEW r \in Spans, owner'[r] = t PROVE SpanInv(r)'
  <2>1. SpanInv(r) /\ owner[r] = t /\ AllBlocks(r)' = AllBlocks(r)
    BY <1>1, <1>10 DEF CoreInv, PoolInv, poolVars, AllBlocks
  <2>2. free'[r] \subseteq AllBlocks(r) /\ free_count'[r] = Cardinality(free'[r])
    <3>1. PICK n \in Nat : n = CountOf(size_class_index[r])
      BY ClassesTyped
    <3>2. /\ free[r] \in SUBSET (0 .. n - 1)
          /\ free_count[r] = Cardinality(free[r])
      BY <2>1, <3>1 DEF SpanInv, BlocksOK, AllBlocks
    <3>3. \A S \in SUBSET (0 .. n - 1) : \A i \in S : Cardinality(S \ {i}) = Cardinality(S) - 1
      BY CountFacts
    <3>4. \A i \in free[r] : Cardinality(free[r] \ {i}) = Cardinality(free[r]) - 1
      BY <3>2, <3>3
    <3>5. CASE r = s
      <4>1. /\ reg[t].block \in free[r] /\ free'[r] = free[r] \ {reg[t].block}
            /\ free_count'[r] = free_count[r] - 1
        BY <1>2, <3>5
      <4>2. free_count'[r] = Cardinality(free'[r])
        BY <3>2, <3>4, <4>1
      <4>3. free[r] \subseteq AllBlocks(r)
        BY <2>1 DEF SpanInv, BlocksOK
      <4>. QED  BY <4>1, <4>2, <4>3
    <3>6. CASE r # s
      BY <1>2, <2>1, <3>1, <3>2, <3>6 DEF AllBlocks
    <3>. QED  BY <3>5, <3>6
  <2>3. ASSUME NEW i \in AllBlocks(r)
        PROVE  /\ i \in free'[r] \/ <<r, i>> \in held'[t] \/ Returning(t, <<r, i>>)'
               /\ i \in free'[r] => <<r, i>> \notin held'[t] /\ ~Returning(t, <<r, i>>)'
               /\ <<r, i>> \in held'[t] => ~Returning(t, <<r, i>>)'
    <3>1. /\ i \in free[r] \/ <<r, i>> \in held[t]
          /\ i \in free[r] => <<r, i>> \notin held[t]
      BY <1>1, <2>1 DEF SpanInv, BlocksOK, Returning
    <3>2. i \in free'[r] <=> i \in free[r] /\ <<r, i>> # x
      BY <1>2
    <3>3. <<r, i>> \in Blocks /\ (<<r, i>> = ptr[t] => <<r, i>> \in held[t])
      <4>1. i \in BlockIndices
        BY <2>1, ClassesTyped DEF AllBlocks
      <4>2. <<r, i>> \in Blocks
        BY <4>1 DEF Blocks
      <4>. QED  BY <1>4, <4>2, NullNoBlock
    <3>. QED  BY <1>3, <1>6, <1>8, <3>1, <3>2, <3>3
  <2>4. BlocksOK(r)'
    BY <1>10, <2>1, <2>2, <2>3 DEF BlocksOK, Returning
  <2>5. InUseOK(r)'
    <3>1. CASE r = s
      BY <1>2, <1>3, <2>1, <3>1 DEF InUseOK
    <3>2. CASE r # s
      BY <1>2, <2>1, <3>2, OwnInUse DEF InUseOK
    <3>. QED  BY <3>1, <3>2
  <2>. QED  BY <2>4, <2>5 DEF SpanInv
<1>11. PoolInv'
  BY <1>1 DEF CoreInv, PoolInv, poolVars
<1>. QED  BY <1>8, <1>9, <1>10, <1>11, OwnKept
LEMMA StoreFreeCore ==
  ASSUME TypeInv, CoreInv, NEW t \in Threads, StoreFree(t)
  PROVE  StepOf(t) /\ CoreInv'
<1>. USE DEF TypeInv, TypeOK
<1>. DEFINE s == span[t]
            i == ptr[t][2]
<1>1. /\ pc[t] = "f_store" /\ pc'[t] = "f_empty" /\ Goto(t, "f_empty")
      /\ UNCHANGED <<binVars, poolVars, lock, cls, span, ptr, held>>
  BY DEF StoreFree, Goto
<1>2. s \in Spans /\ owner[s] = t /\ ptr[t] = <<s, i>> /\ i \in AllBlocks(s) /\ SpanInv(s)
  <2>1. s \in Spans /\ owner[s] = t /\ ptr[t] \in Blocks /\ ptr[t][1] = s /\ i \in AllBlocks(s)
    BY <1>1 DEF FrameOK, CoreInv, ThreadInv, OwnerOK, HeldOK, Working, Freeing
  <2>. QED  BY <2>1 DEF Blocks, CoreInv, PoolInv
<1>3. Returning(t, <<s, i>>) /\ i \notin free[s]
  BY <1>1, <1>2 DEF Returning, SpanInv, BlocksOK
<1>4. /\ free'[s] = free[s] \cup {i} /\ free_count'[s] = free_count[s] + 1
      /\ \A r \in Spans \ {s} : free'[r] = free[r] /\ free_count'[r] = free_count[r]
      /\ \A u \in Threads \ {t} : reg'[u] = reg[u]
  BY <1>1, <1>2 DEF StoreFree, StoreReg, CoreInv, ThreadInv, StageOK
<1>5. StepOf(t)
  BY <1>1, <1>2, <1>4 DEF StepOf, Goto, poolVars
<1>6. ThreadInv(t)'
  BY <1>1, <1>4 DEF CoreInv, ThreadInv, LockOK, OwnerOK, HeldOK, StageOK,
                    AllBlocks, Working, Freeing, Locked, poolVars
<1>7. ASSUME NEW r \in Spans, owner'[r] = t PROVE SpanInv(r)'
  <2>1. SpanInv(r) /\ owner[r] = t /\ AllBlocks(r)' = AllBlocks(r)
    BY <1>1, <1>7 DEF CoreInv, PoolInv, poolVars, AllBlocks
  <2>2. free'[r] \subseteq AllBlocks(r) /\ free_count'[r] = Cardinality(free'[r])
    <3>1. CASE r # s
      BY <1>4, <2>1, <3>1 DEF SpanInv, BlocksOK
    <3>2. CASE r = s
      <4>1. PICK n \in Nat : n = CountOf(size_class_index[r])
        BY ClassesTyped
      <4>2. free[r] \in SUBSET (0 .. n - 1) /\ free_count[r] = Cardinality(free[r])
        BY <2>1, <4>1 DEF SpanInv, BlocksOK, AllBlocks
      <4>3. \A S \in SUBSET (0 .. n - 1) : \A j :
              j \notin S => Cardinality(S \cup {j}) = Cardinality(S) + 1
        BY CountFacts
      <4>4. i \notin free[r] /\ free'[r] = free[r] \cup {i} /\ free_count'[r] = free_count[r] + 1
        BY <1>3, <1>4, <3>2
      <4>5. free_count'[r] = Cardinality(free'[r])
        BY <4>2, <4>3, <4>4
      <4>6. free[r] \subseteq AllBlocks(r) /\ i \in AllBlocks(r)
        BY <1>2, <2>1, <3>2 DEF SpanInv, BlocksOK
      <4>. QED  BY <4>4, <4>5, <4>6
    <3>. QED  BY <3>1, <3>2
  <2>3. ASSUME NEW j \in AllBlocks(r)
        PROVE  /\ j \in free'[r] \/ <<r, j>> \in held'[t] \/ Returning(t, <<r, j>>)'
               /\ j \in free'[r] => <<r, j>> \notin held'[t] /\ ~Returning(t, <<r, j>>)'
               /\ <<r, j>> \in held'[t] => ~Returning(t, <<r, j>>)'
    <3>1. /\ j \in free[r] \/ <<r, j>> \in held[t] \/ Returning(t, <<r, j>>)
          /\ j \in free[r] => <<r, j>> \notin held[t]
          /\ <<r, j>> \in held[t] => ~Returning(t, <<r, j>>)
      BY <2>1 DEF SpanInv, BlocksOK
    <3>2. ~Returning(t, <<r, j>>)'
      BY <1>1 DEF Returning
    <3>3. Returning(t, <<r, j>>) <=> r = s /\ j = i
      BY <1>1, <1>2 DEF Returning
    <3>4. j \in free'[r] <=> j \in free[r] \/ (r = s /\ j = i)
      BY <1>4
    <3>. QED  BY <1>1, <3>1, <3>2, <3>3, <3>4
  <2>4. BlocksOK(r)'
    BY <1>7, <2>1, <2>2, <2>3 DEF BlocksOK, Returning
  <2>5. InUseOK(r)'
    <3>1. CASE r = s
      BY <1>1, <1>7, <3>1 DEF InUseOK, Vacant
    <3>2. CASE r # s
      <4>1. free[r] # AllBlocks(r)
        BY <1>1, <2>1, OwnInUse DEF Vacant
      <4>. QED  BY <1>4, <2>1, <3>2, <4>1 DEF InUseOK
    <3>. QED  BY <3>1, <3>2
  <2>. QED  BY <2>4, <2>5 DEF SpanInv
<1>8. PoolInv'
  BY <1>1 DEF CoreInv, PoolInv, poolVars
<1>. QED  BY <1>5, <1>6, <1>7, <1>8, OwnKept

-----------------------------------------------------------------------------
(* Steps that move spans, under the lock                                   *)

LEMMA InitializeSpanCore ==
  ASSUME TypeInv, CoreInv, NEW t \in Threads, InitializeSpan(t)
  PROVE  StepOf(t) /\ CoreInv'
<1>. USE DEF TypeInv, TypeOK
<1>. DEFINE s == span[t]
            c == cls[t]
<1>1. /\ pc[t] = "m_init" /\ pc'[t] = "m_unlock" /\ Goto(t, "m_unlock")
      /\ UNCHANGED <<binVars, lock, cls, span, ptr, reg, held>>
      /\ c \in Classes
  BY DEF InitializeSpan, Goto
<1>2. s \in pool /\ s \in Spans /\ owner[s] = NULL /\ lock = t
  BY <1>1 DEF CoreInv, PoolInv, ThreadInv, OwnerOK, LockOK, Locked
<1>3. /\ pool' = pool \ {s} /\ owner'[s] = t /\ size_class_index'[s] = c
      /\ free'[s] = 0 .. CountOf(c) - 1 /\ free_count'[s] = CountOf(c)
      /\ AllBlocks(s)' = 0 .. CountOf(c) - 1
      /\ \A r \in Spans \ {s} :
           /\ free'[r] = free[r] /\ free_count'[r] = free_count[r] /\ owner'[r] = owner[r]
           /\ size_class_index'[r] = size_class_index[r] /\ AllBlocks(r)' = AllBlocks(r)
  BY <1>2 DEF InitializeSpan, FreshBlocks, AllBlocks
<1>4. StepOf(t)
  BY <1>1, <1>2, <1>3 DEF StepOf, Goto
<1>5. \A b \in held[t] : b[1] \in Spans \ {s} /\ owner[b[1]] = t /\ b[2] \in AllBlocks(b[1])
  BY <1>2 DEF CoreInv, ThreadInv, HeldOK, Blocks
<1>6. ThreadInv(t)'
  <2>1. LockOK(t)' /\ OwnerOK(t)' /\ StageOK(t)'
    BY <1>1, <1>2, <1>3 DEF LockOK, OwnerOK, StageOK
  <2>2. HeldOK(t)'
    <3>1. ptr'[t] # NULL => ptr'[t] \in held'[t]
      BY <1>1 DEF CoreInv, ThreadInv, HeldOK, Freeing
    <3>. QED  BY <1>1, <1>3, <1>5, <3>1 DEF HeldOK, Freeing
  <2>. QED  BY <2>1, <2>2 DEF ThreadInv
<1>7. ASSUME NEW r \in Spans, owner'[r] = t PROVE SpanInv(r)'
  <2>1. CASE r = s
    <3>1. CountOf(c) \in Nat
      BY <1>1, ClassesTyped
    <3>3. \A i : <<s, i>> \notin held[t] /\ ~Returning(t, <<s, i>>)'
      BY <1>1, <1>5 DEF Returning
    <3>4. BlocksOK(s)'
      BY <1>1, <1>3, <3>1, <3>3, CountOfAll DEF BlocksOK, Returning
    <3>. QED  BY <1>1, <1>7, <2>1, <3>4 DEF SpanInv, InUseOK, Vacant
  <2>2. CASE r # s
    <3>1. SpanInv(r) /\ owner[r] = t /\ owner'[r] = t
      BY <1>3, <1>7, <2>2 DEF CoreInv, PoolInv
    <3>2. free[r] # AllBlocks(r)
      BY <1>1, <3>1, OwnInUse DEF Vacant
    <3>3. \A i : ~Returning(t, <<r, i>>) /\ ~Returning(t, <<r, i>>)'
      BY <1>1 DEF Returning
    <3>4. BlocksOK(r)'
      BY <1>1, <1>3, <2>2, <3>1, <3>3 DEF SpanInv, BlocksOK, Returning
    <3>. QED  BY <1>3, <2>2, <3>2, <3>4 DEF SpanInv, InUseOK
  <2>. QED  BY <2>1, <2>2
<1>8. PoolInv'
  BY <1>2, <1>3 DEF CoreInv, PoolInv
<1>. QED  BY <1>4, <1>6, <1>7, <1>8, OwnKept

LEMMA CacheSpanCore ==
  ASSUME TypeInv, CoreInv, NEW t \in Threads, CacheSpan(t)
  PROVE  StepOf(t) /\ CoreInv'
<1>. USE DEF TypeInv, TypeOK
<1>. DEFINE s == span[t]
<1>1. /\ pc[t] = "f_cache" /\ pc'[t] = "f_unlock" /\ Goto(t, "f_unlock")
      /\ UNCHANGED <<binVars, blockVars, size_class_index, lock, cls, span, ptr, reg, held>>
  BY DEF CacheSpan, Goto
<1>2. s \in Spans /\ owner[s] = t /\ lock = t /\ SpanInv(s) /\ ptr[t] \in Blocks
      /\ ptr[t][1] = s /\ size_class_index[s] = cls[t]
  BY <1>1 DEF FrameOK, CoreInv, PoolInv, ThreadInv, OwnerOK, HeldOK, LockOK, Locked,
              Working, Freeing
<1>3. /\ pool' = pool \cup {s} /\ owner'[s] = NULL
      /\ \A r \in Spans \ {s} : owner'[r] = owner[r]
      /\ \A r \in Spans : AllBlocks(r)' = AllBlocks(r)
  BY <1>1, <1>2 DEF CacheSpan, AllBlocks
<1>4. StepOf(t)
  BY <1>1, <1>2, <1>3 DEF StepOf, Goto, blockVars
<1>5. ASSUME NEW b \in held[t] PROVE b[1] # s
  <2>1. SUFFICES ASSUME b[1] = s PROVE FALSE
    OBVIOUS
  <2>2. b = <<s, b[2]>> /\ b[2] \in AllBlocks(s)
    BY <2>1 DEF Blocks, CoreInv, ThreadInv, HeldOK
  <2>3. CASE cls[t] # LARGE
    <3>1. free[s] = AllBlocks(s)
      BY <1>1, <2>3 DEF CoreInv, ThreadInv, StageOK
    <3>. QED  BY <1>2, <2>2, <3>1 DEF SpanInv, BlocksOK
  <2>4. CASE cls[t] = LARGE
    <3>1. AllBlocks(s) = {0}
      BY <1>2, <2>4 DEF AllBlocks, CountOf
    <3>2. ptr[t] = <<s, 0>>
      BY <1>1, <1>2, <3>1 DEF Blocks, CoreInv, ThreadInv, HeldOK, Freeing
    <3>3. Returning(t, <<s, 0>>)
      BY <1>1, <2>4, <3>2 DEF Returning
    <3>4. b = <<s, 0>>
      BY <2>2, <3>1
    <3>5. <<s, 0>> \in held[t] => ~Returning(t, <<s, 0>>)
      BY <1>2, <3>1 DEF SpanInv, BlocksOK
    <3>. QED  BY <3>3, <3>4, <3>5
  <2>. QED  BY <2>3, <2>4
<1>6. ThreadInv(t)'
  <2>1. \A b \in held[t] : b[1] \in Spans \ {s} /\ owner[b[1]] = t /\ b[2] \in AllBlocks(b[1])
    BY <1>5 DEF CoreInv, ThreadInv, HeldOK, Blocks
  <2>2. HeldOK(t)'
    BY <1>1, <1>3, <2>1 DEF HeldOK, Freeing
  <2>. QED  BY <1>1, <1>2, <1>3, <2>2 DEF ThreadInv, LockOK, OwnerOK, StageOK, Working
<1>7. ASSUME NEW r \in Spans, owner'[r] = t PROVE SpanInv(r)'
  <2>1. r # s /\ SpanInv(r) /\ owner[r] = t
    BY <1>3, <1>7 DEF CoreInv, PoolInv
  <2>2. free[r] # AllBlocks(r)
    BY <2>1, OwnInUse
  <2>3. \A i : ~Returning(t, <<r, i>>) /\ ~Returning(t, <<r, i>>)'
    BY <1>1, <1>2, <2>1 DEF Returning
  <2>4. BlocksOK(r)'
    BY <1>1, <1>3, <2>1, <2>3 DEF SpanInv, BlocksOK, Returning, blockVars
  <2>. QED  BY <1>1, <1>3, <2>2, <2>4 DEF SpanInv, InUseOK, blockVars
<1>8. PoolInv'
  BY <1>2, <1>3 DEF CoreInv, PoolInv
<1>. QED  BY <1>4, <1>6, <1>7, <1>8, OwnKept

-----------------------------------------------------------------------------

LEMMA StepCore ==
  ASSUME TypeInv, CoreInv, ~CrossThreadFrees, NEW t \in Threads,
         Call(t) \/ Run(t) \/ Acquire(t) \/ Exit(t), ~OutOfMemory(t),
         \A d \in SizeClasses : thread_local_bin[t][d] # NULL /\ pc[t] # "ended"
                             => thread_local_bin[t][d] \in BinOf(t, d)
  PROVE  StepOf(t) /\ CoreInv'
<1>1. ASSUME NEW c \in Classes, Cmalloc(t, c) PROVE StepOf(t) /\ CoreInv'
  <2>1. pc[t] = "idle" /\ EnterCmalloc(t, c)
        /\ UNCHANGED <<blockVars, poolVars, lock, ptr, reg, held>>
    BY <1>1 DEF Cmalloc, MayCall
  <2>. QED  BY <2>1, EnterCmallocCore
<1>2. CASE ReallocCheck(t)
  BY <1>2, ReallocCheckCore DEF ReallocCheck
<1>. QED  BY <1>1, <1>2, CfreeCore, CreallocCore, ExitCore, CheckCore, LoadCore,
             LockCore, FindSpanCore, CheckEmptyCore, ReleaseCacheCore, StoreBlockCore,
             StoreFreeCore, InitializeSpanCore, CacheSpanCore DEF Call, Run


-----------------------------------------------------------------------------
(* Doubly linked lists                                                     *)

Links == [Spans -> Spans \cup {NULL}]

\* A list of spans without repetition is no longer than there are spans.
LEMMA ListLength ==
  ASSUME NEW n \in Nat, NEW l \in [1 .. n -> Spans],
         \A i, j \in 1 .. n : l[i] = l[j] => i = j
  PROVE  n \in 0 .. Cardinality(Spans)
<1>1. l \in Injection(1 .. n, Spans)
  BY DEF Injection, IsInjective
<1>2. Cardinality(1 .. n) <= Cardinality(Spans) /\ Cardinality(Spans) \in Nat
  BY <1>1, FS_Injection, FS_CardinalityType
<1>3. Cardinality(1 .. n) = n
  BY FS_Interval
<1>. QED  BY <1>2, <1>3

LEMMA CardinalitySpans == Cardinality(Spans) \in Nat
BY FS_CardinalityType

\* The head, and the two neighbours of a span on the list.
LEMMA ChainFacts ==
  ASSUME NEW h, NEW nx, NEW pv, NEW S, Chain(h, nx, pv, S)
  PROVE  /\ S \subseteq Spans
         /\ h = NULL <=> S = {}
         /\ h # NULL => h \in S /\ pv[h] = NULL
         /\ \A s \in S : /\ nx[s] = NULL \/ (nx[s] \in S /\ pv[nx[s]] = s)
                         /\ pv[s] = NULL \/ (pv[s] \in S /\ nx[pv[s]] = s)
                         /\ pv[s] = NULL => h = s
                         /\ nx[s] # s /\ pv[s] # s
<1>1. PICK n \in 0 .. Cardinality(Spans) : \E l \in [1 .. n -> Spans] :
        Lists(l, n, nx, pv, S) /\ h = IF n = 0 THEN NULL ELSE l[1]
  BY DEF Chain
<1>2. PICK l \in [1 .. n -> Spans] :
        Lists(l, n, nx, pv, S) /\ h = IF n = 0 THEN NULL ELSE l[1]
  BY <1>1
<1>3. n \in Nat
  BY CardinalitySpans
<1>4. S \subseteq Spans
  BY <1>2 DEF Lists
<1>5. h = NULL <=> S = {}
  <2>1. CASE n = 0
    BY <1>2, <2>1 DEF Lists
  <2>2. CASE n # 0
    <3>1. 1 \in 1 .. n /\ h = l[1] /\ l[1] \in Spans
      BY <1>2, <1>3, <2>2
    <3>2. l[1] \in S
      BY <1>2, <3>1 DEF Lists
    <3>. QED  BY <3>1, <3>2
  <2>. QED  BY <2>1, <2>2
<1>6. h # NULL => h \in S /\ pv[h] = NULL
  BY <1>2, <1>3 DEF Lists
<1>7. ASSUME NEW s \in S
      PROVE  /\ nx[s] = NULL \/ (nx[s] \in S /\ pv[nx[s]] = s)
             /\ pv[s] = NULL \/ (pv[s] \in S /\ nx[pv[s]] = s)
             /\ pv[s] = NULL => h = s
             /\ nx[s] # s /\ pv[s] # s
  <2>1. PICK i \in 1 .. n : s = l[i]
    BY <1>2 DEF Lists
  <2>2. nx[s] = (IF i = n THEN NULL ELSE l[i + 1]) /\ pv[s] = (IF i = 1 THEN NULL ELSE l[i - 1])
    BY <1>2, <2>1 DEF Lists
  <2>3. i # n => i + 1 \in 1 .. n /\ l[i + 1] \in S /\ pv[l[i + 1]] = l[i] /\ l[i + 1] # l[i]
    <3>1. SUFFICES ASSUME i # n PROVE i + 1 \in 1 .. n /\ l[i + 1] \in S
                                      /\ pv[l[i + 1]] = l[i] /\ l[i + 1] # l[i]
      OBVIOUS
    <3>2. PICK j \in 1 .. n : j = i + 1
      BY <1>3, <3>1
    <3>3. j # 1 /\ j - 1 = i /\ j # i
      BY <1>3, <3>2
    <3>4. pv[l[j]] = l[i] /\ l[j] \in S /\ l[j] # l[i]
      BY <1>2, <3>3 DEF Lists
    <3>. QED  BY <3>2, <3>4
  <2>4. i # 1 => i - 1 \in 1 .. n /\ l[i - 1] \in S /\ nx[l[i - 1]] = l[i] /\ l[i - 1] # l[i]
    <3>1. SUFFICES ASSUME i # 1 PROVE i - 1 \in 1 .. n /\ l[i - 1] \in S
                                      /\ nx[l[i - 1]] = l[i] /\ l[i - 1] # l[i]
      OBVIOUS
    <3>2. PICK j \in 1 .. n : i = j + 1
      BY <1>3, <3>1
    <3>3. j # n /\ nx[l[j]] = l[j + 1] /\ l[j] \in S /\ l[j] # l[j + 1]
      BY <1>2, <1>3, <3>2 DEF Lists
    <3>. QED  BY <1>3, <3>2, <3>3
  <2>. QED  BY <1>2, <1>4, <2>1, <2>2, <2>3, <2>4
<1>. QED  BY <1>4, <1>5, <1>6, <1>7

LEMMA ChainKept ==
  ASSUME NEW h, NEW nx, NEW pv, NEW S, Chain(h, nx, pv, S), NEW nx2, NEW pv2,
         \A s \in S : nx2[s] = nx[s] /\ pv2[s] = pv[s]
  PROVE  Chain(h, nx2, pv2, S)
<1>1. ASSUME NEW n \in 0 .. Cardinality(Spans), NEW l \in [1 .. n -> Spans],
             Lists(l, n, nx, pv, S)
      PROVE  Lists(l, n, nx2, pv2, S)
  BY <1>1 DEF Lists
<1>. QED  BY <1>1 DEF Chain

\* bin_push
LEMMA ChainPush ==
  ASSUME NEW h, NEW nx \in Links, NEW pv \in Links, NEW S, Chain(h, nx, pv, S),
         NEW s \in Spans, s \notin S, NEW nx2, NEW pv2,
         nx2 = [nx EXCEPT ![s] = h],
         pv2 = IF h = NULL THEN [pv EXCEPT ![s] = NULL]
               ELSE [pv EXCEPT ![s] = NULL, ![h] = s]
  PROVE  Chain(s, nx2, pv2, S \cup {s})
<1>1. PICK n \in 0 .. Cardinality(Spans) : \E l \in [1 .. n -> Spans] :
        Lists(l, n, nx, pv, S) /\ h = IF n = 0 THEN NULL ELSE l[1]
  BY DEF Chain
<1>2. PICK l \in [1 .. n -> Spans] :
        Lists(l, n, nx, pv, S) /\ h = IF n = 0 THEN NULL ELSE l[1]
  BY <1>1
<1>3. n \in Nat
  BY CardinalitySpans
<1>. DEFINE m == [i \in 1 .. n + 1 |-> IF i = 1 THEN s ELSE l[i - 1]]
<1>4. m \in [1 .. n + 1 -> Spans]
  BY <1>3
<1>5. \A i \in 1 .. n : m[i + 1] = l[i]
  BY <1>3
<1>6. m[1] = s
  BY <1>3
<1>7. \A i \in 1 .. n : l[i] \in S
  BY <1>2 DEF Lists
<1>8. \A i, j \in 1 .. n + 1 : m[i] = m[j] => i = j
  BY <1>2, <1>3, <1>7 DEF Lists
<1>9. S \cup {s} = {m[i] : i \in 1 .. n + 1}
  <2>1. \A x \in S \cup {s} : \E i \in 1 .. n + 1 : x = m[i]
    <3>1. ASSUME NEW x \in S PROVE \E i \in 1 .. n + 1 : x = m[i]
      <4>1. PICK i \in 1 .. n : x = l[i]
        BY <1>2 DEF Lists
      <4>2. i + 1 \in 1 .. n + 1 /\ x = m[i + 1]
        BY <1>3, <1>5, <4>1
      <4>. QED  BY <4>2
    <3>. QED  BY <1>3, <1>6, <3>1
  <2>2. \A i \in 1 .. n + 1 : m[i] \in S \cup {s}
    BY <1>3, <1>7
  <2>. QED  BY <2>1, <2>2
<1>10. ASSUME NEW i \in 1 .. n + 1
       PROVE  /\ nx2[m[i]] = IF i = n + 1 THEN NULL ELSE m[i + 1]
              /\ pv2[m[i]] = IF i = 1 THEN NULL ELSE m[i - 1]
  <2>1. h # s /\ s \in DOMAIN nx /\ s \in DOMAIN pv /\ s # NULL
    BY <1>2, <1>3, <1>7 DEF Links
  <2>2. CASE i = 1
    BY <1>2, <1>3, <1>6, <1>5, <2>1, <2>2 DEF Links
  <2>3. CASE i # 1
    <3>1. PICK j \in 1 .. n : i = j + 1
      BY <1>3, <2>3
    <3>2. m[i] = l[j] /\ l[j] # s /\ l[j] \in Spans
      BY <1>5, <1>7, <3>1
    <3>3. /\ nx[l[j]] = IF j = n THEN NULL ELSE l[j + 1]
          /\ pv[l[j]] = IF j = 1 THEN NULL ELSE l[j - 1]
          /\ h = l[1] /\ (l[j] = l[1] <=> j = 1)
      BY <1>2, <1>3, <3>1 DEF Lists
    <3>4. nx2[m[i]] = IF i = n + 1 THEN NULL ELSE m[i + 1]
      BY <1>3, <1>5, <3>1, <3>2, <3>3 DEF Links
    <3>5. h \in Spans
      BY <1>3, <3>3
    <3>6. pv2[m[i]] = IF i = 1 THEN NULL ELSE m[i - 1]
      <4>1. CASE j = 1
        BY <1>6, <2>1, <3>1, <3>2, <3>3, <3>5, <4>1 DEF Links
      <4>2. CASE j # 1
        <5>1. m[i - 1] = l[j - 1]
          BY <1>3, <1>5, <3>1, <4>2
        <5>. QED  BY <3>1, <3>2, <3>3, <3>5, <4>2, <5>1 DEF Links
      <4>. QED  BY <4>1, <4>2
    <3>. QED  BY <3>4, <3>6
  <2>. QED  BY <2>2, <2>3
<1>. HIDE DEF m
<1>11. n + 1 \in 0 .. Cardinality(Spans)
  BY <1>3, <1>4, <1>8, ListLength
<1>12. Lists(m, n + 1, nx2, pv2, S \cup {s})
  BY <1>8, <1>9, <1>10 DEF Lists
<1>. QED  BY <1>3, <1>4, <1>6, <1>11, <1>12 DEF Chain

\* bin_remove
LEMMA ChainRemove ==
  ASSUME NEW h, NEW nx \in Links, NEW pv \in Links, NEW S, Chain(h, nx, pv, S),
         NEW s \in S, NEW nx2, NEW pv2,
         nx2 = IF pv[s] = NULL THEN [nx EXCEPT ![s] = NULL]
               ELSE [nx EXCEPT ![pv[s]] = nx[s], ![s] = NULL],
         pv2 = IF nx[s] = NULL THEN [pv EXCEPT ![s] = NULL]
               ELSE [pv EXCEPT ![nx[s]] = pv[s], ![s] = NULL]
  PROVE  Chain(IF pv[s] = NULL THEN nx[s] ELSE h, nx2, pv2, S \ {s})
<1>1. PICK n \in 0 .. Cardinality(Spans) : \E l \in [1 .. n -> Spans] :
        Lists(l, n, nx, pv, S) /\ h = IF n = 0 THEN NULL ELSE l[1]
  BY DEF Chain
<1>2. PICK l \in [1 .. n -> Spans] :
        Lists(l, n, nx, pv, S) /\ h = IF n = 0 THEN NULL ELSE l[1]
  BY <1>1
<1>3. PICK k \in 1 .. n : s = l[k]
  BY <1>2 DEF Lists
<1>4. n \in Nat /\ n # 0
  BY <1>3, CardinalitySpans
<1>5. PICK e \in Nat : n = e + 1
  <2>1. n - 1 \in Nat /\ n = (n - 1) + 1
    BY <1>4
  <2>. QED  BY <2>1
<1>. DEFINE m == [i \in 1 .. e |-> IF i < k THEN l[i] ELSE l[i + 1]]
<1>6. m \in [1 .. e -> Spans]
  BY <1>5
<1>7. \A i \in 1 .. e : m[i] = IF i < k THEN l[i] ELSE l[i + 1]
  OBVIOUS
<1>8. \A i, j \in 1 .. n : l[i] = l[j] => i = j
  BY <1>2 DEF Lists
<1>9. \A i, j \in 1 .. e : m[i] = m[j] => i = j
  BY <1>5, <1>8
<1>. HIDE DEF m
<1>10. \A i \in 1 .. e : m[i] # s /\ m[i] \in Spans
  BY <1>3, <1>5, <1>6, <1>7, <1>8
<1>11. S \ {s} = {m[i] : i \in 1 .. e}
  <2>1. ASSUME NEW x \in S \ {s} PROVE \E i \in 1 .. e : x = m[i]
    <3>1. PICK j \in 1 .. n : x = l[j]
      BY <1>2 DEF Lists
    <3>2. j # k
      BY <1>3, <3>1
    <3>3. CASE j < k
      BY <1>5, <1>7, <3>1, <3>3
    <3>4. CASE j > k
      <4>1. j - 1 \in 1 .. e /\ ~(j - 1 < k) /\ (j - 1) + 1 = j
        BY <1>5, <3>4
      <4>2. m[j - 1] = l[j]
        BY <1>7, <4>1
      <4>. QED  BY <3>1, <4>1, <4>2
    <3>. QED  BY <1>4, <3>2, <3>3, <3>4
  <2>2. ASSUME NEW i \in 1 .. e PROVE m[i] \in S \ {s}
    <3>1. (m[i] = l[i] /\ i \in 1 .. n) \/ (m[i] = l[i + 1] /\ i + 1 \in 1 .. n)
      BY <1>5, <1>7
    <3>. QED  BY <1>2, <1>10, <3>1 DEF Lists
  <2>. QED  BY <2>1, <2>2
<1>12. /\ nx[s] = IF k = n THEN NULL ELSE l[k + 1]
       /\ pv[s] = IF k = 1 THEN NULL ELSE l[k - 1]
  BY <1>2, <1>3 DEF Lists
<1>13. \A i \in 1 .. n : /\ nx[l[i]] = IF i = n THEN NULL ELSE l[i + 1]
                        /\ pv[l[i]] = IF i = 1 THEN NULL ELSE l[i - 1]
  BY <1>2 DEF Lists
<1>14. /\ \A x \in Spans : x # s => nx2[x] = IF pv[s] = x THEN nx[s] ELSE nx[x]
       /\ \A x \in Spans : x # s => pv2[x] = IF nx[s] = x THEN pv[s] ELSE pv[x]
  BY DEF Links
<1>15. ASSUME NEW i \in 1 .. e
       PROVE  /\ nx2[m[i]] = IF i = e THEN NULL ELSE m[i + 1]
              /\ pv2[m[i]] = IF i = 1 THEN NULL ELSE m[i - 1]
  <2>1. CASE i < k
    <3>1. m[i] = l[i] /\ i \in 1 .. n /\ (i # e => i + 1 \in 1 .. e) /\ (i # 1 => i - 1 \in 1 .. e)
      BY <1>5, <1>7, <2>1
    <3>2. pv[s] = m[i] <=> i + 1 = k
      <4>1. k # 1 => k - 1 \in 1 .. n
        BY <1>5
      <4>2. k # 1 /\ (l[k - 1] = l[i] <=> k - 1 = i)
        BY <1>8, <2>1, <3>1, <4>1
      <4>. QED  BY <1>12, <3>1, <4>2
    <3>3. nx[s] # m[i]
      <4>1. k # n => k + 1 \in 1 .. n
        BY <1>5
      <4>2. l[i] # NULL
        BY <3>1
      <4>3. k # n => l[k + 1] # l[i]
        BY <1>8, <2>1, <3>1, <4>1
      <4>. QED  BY <1>12, <3>1, <4>2, <4>3
    <3>4. nx2[m[i]] = IF i = e THEN NULL ELSE m[i + 1]
      <4>1. CASE i + 1 = k
        <5>1. nx2[m[i]] = nx[s]
          BY <1>10, <1>14, <3>2, <4>1
        <5>2. i = e <=> k = n
          BY <1>5, <4>1
        <5>3. i # e => m[i + 1] = l[k + 1]
          BY <1>7, <3>1, <4>1
        <5>. QED  BY <1>12, <5>1, <5>2, <5>3
      <4>2. CASE i + 1 # k
        <5>1. nx2[m[i]] = nx[l[i]]
          BY <1>10, <1>14, <3>1, <3>2, <4>2
        <5>2. i + 1 < k /\ i # e /\ i # n /\ m[i + 1] = l[i + 1]
          BY <1>5, <1>7, <2>1, <3>1, <4>2
        <5>. QED  BY <1>13, <3>1, <5>1, <5>2
      <4>. QED  BY <4>1, <4>2
    <3>5. pv2[m[i]] = IF i = 1 THEN NULL ELSE m[i - 1]
      <4>1. pv2[m[i]] = pv[l[i]]
        BY <1>10, <1>14, <3>1, <3>3
      <4>2. i # 1 => m[i - 1] = l[i - 1]
        BY <1>7, <2>1, <3>1
      <4>. QED  BY <1>13, <3>1, <4>1, <4>2
    <3>. QED  BY <3>4, <3>5
  <2>2. CASE ~(i < k)
    <3>1. /\ m[i] = l[i + 1] /\ i + 1 \in 1 .. n
          /\ (i # e => i + 1 \in 1 .. e) /\ (i # 1 => i - 1 \in 1 .. e)
      BY <1>5, <1>7, <2>2
    <3>2. nx[s] = m[i] <=> i = k
      <4>1. k # n => k + 1 \in 1 .. n
        BY <1>5
      <4>2. k # n /\ (l[k + 1] = l[i + 1] <=> k = i)
        BY <1>5, <1>8, <2>2, <3>1, <4>1
      <4>. QED  BY <1>12, <3>1, <4>2
    <3>3. pv[s] # m[i]
      <4>1. k # 1 => k - 1 \in 1 .. n
        BY <1>5
      <4>2. l[i + 1] # NULL
        BY <3>1
      <4>3. k # 1 => l[k - 1] # l[i + 1]
        BY <1>8, <2>2, <3>1, <4>1
      <4>. QED  BY <1>12, <3>1, <4>2, <4>3
    <3>4. nx2[m[i]] = IF i = e THEN NULL ELSE m[i + 1]
      <4>1. nx2[m[i]] = nx[l[i + 1]]
        BY <1>10, <1>14, <3>1, <3>3
      <4>2. i # e => m[i + 1] = l[(i + 1) + 1]
        BY <1>7, <2>2, <3>1
      <4>3. i = e <=> i + 1 = n
        BY <1>5
      <4>. QED  BY <1>13, <3>1, <4>1, <4>2, <4>3
    <3>5. pv2[m[i]] = IF i = 1 THEN NULL ELSE m[i - 1]
      <4>1. CASE i = k
        <5>1. pv2[m[i]] = pv[s]
          BY <1>10, <1>14, <3>2, <4>1
        <5>2. i # 1 => m[i - 1] = l[k - 1]
          BY <1>7, <3>1, <4>1
        <5>. QED  BY <1>12, <4>1, <5>1, <5>2
      <4>2. CASE i # k
        <5>1. pv2[m[i]] = pv[l[i + 1]]
          BY <1>10, <1>14, <3>1, <3>2, <4>2
        <5>2. i # 1 /\ i + 1 # 1 /\ m[i - 1] = l[(i + 1) - 1]
          BY <1>7, <2>2, <3>1, <4>2
        <5>. QED  BY <1>13, <3>1, <5>1, <5>2
      <4>. QED  BY <4>1, <4>2
    <3>. QED  BY <3>4, <3>5
  <2>. QED  BY <2>1, <2>2
<1>16. e \in 0 .. Cardinality(Spans)
  BY <1>1, <1>5, CardinalitySpans
<1>17. Lists(m, e, nx2, pv2, S \ {s})
  BY <1>9, <1>11, <1>15 DEF Lists
<1>18. (IF pv[s] = NULL THEN nx[s] ELSE h) = IF e = 0 THEN NULL ELSE m[1]
  <2>1. pv[s] = NULL <=> k = 1
    BY <1>5, <1>12
  <2>2. CASE k = 1
    <3>1. e # 0 => 1 \in 1 .. e /\ m[1] = l[2]
      BY <1>5, <1>7, <2>2
    <3>. QED  BY <1>5, <1>12, <2>1, <2>2, <3>1
  <2>3. CASE k # 1
    <3>1. 1 \in 1 .. e /\ 1 < k
      BY <1>5, <2>3
    <3>. QED  BY <1>2, <1>4, <1>7, <2>1, <2>3, <3>1
  <2>. QED  BY <2>2, <2>3
<1>. QED  BY <1>6, <1>16, <1>17, <1>18 DEF Chain
-----------------------------------------------------------------------------
(* The bins of all threads                                                 *)

\* The head of a bin is a span that belongs on it.
LEMMA HeadBinned ==
  ASSUME TypeInv, BinInv, NEW t \in Threads, NEW c \in SizeClasses,
         thread_local_bin[t][c] # NULL
  PROVE  pc[t] # "ended" /\ thread_local_bin[t][c] \in BinOf(t, c)
<1>1. PICK h \in Spans \cup {NULL} :
        /\ Chain(h, next, prev, BinOf(t, c))
        /\ thread_local_bin[t][c] = IF pc[t] = "ended" THEN NULL ELSE h
  BY DEF BinInv, BinLinked
<1>. QED  BY <1>1, ChainFacts

\* A span is on one bin at most.
LEMMA BinsDisjoint ==
  ASSUME NEW t \in Threads, NEW c \in SizeClasses, NEW u \in Threads,
         NEW d \in SizeClasses, NEW s \in BinOf(t, c), s \in BinOf(u, d)
  PROVE  t = u /\ c = d
BY DEF BinOf

\* A step of a thread changes no bin of another.
LEMMA OtherBins ==
  ASSUME TypeInv, CoreInv, NEW t \in Threads, StepOf(t),
         NEW u \in Threads \ {t}, NEW c \in SizeClasses
  PROVE  BinOf(u, c)' = BinOf(u, c)
<1>1. ASSUME NEW s \in Spans
      PROVE  owner'[s] = u /\ size_class_index'[s] = c /\ Binned(s)'
               <=> owner[s] = u /\ size_class_index[s] = c /\ Binned(s)
  <2>1. owner'[s] = u <=> owner[s] = u
    BY DEF StepOf
  <2>2. ASSUME owner[s] = u
        PROVE  size_class_index'[s] = size_class_index[s] /\ (Binned(s)' <=> Binned(s))
    BY <2>1, <2>2, OthersKept DEF StepOf
  <2>. QED  BY <2>1, <2>2
<1>. QED  BY <1>1 DEF BinOf

\* Steps that leave the links, and what belongs on the bins, alone.
LEMMA BinsKept ==
  ASSUME TypeInv, CoreInv, BinInv, NEW t \in Threads, StepOf(t),
         UNCHANGED binVars, pc[t] # "ended", pc'[t] # "ended",
         \A c \in SizeClasses : BinOf(t, c)' = BinOf(t, c)
  PROVE  BinInv'
<1>1. \A u \in Threads : \A c \in SizeClasses : BinOf(u, c)' = BinOf(u, c)
  BY OtherBins
<1>2. \A u \in Threads : pc'[u] = "ended" <=> pc[u] = "ended"
  BY DEF StepOf
<1>3. ASSUME NEW u \in Threads, NEW c \in SizeClasses PROVE BinLinked(u, c)'
  <2>1. BinLinked(u, c) /\ BinOf(u, c)' = BinOf(u, c)
    BY <1>1 DEF BinInv
  <2>. QED  BY <1>2, <2>1 DEF BinLinked, binVars
<1>4. \A s \in Spans :
        \/ \E u \in Threads : \E c \in SizeClasses : s \in BinOf(u, c)'
        \/ next'[s] = NULL /\ prev'[s] = NULL
  BY <1>1 DEF BinInv, binVars
<1>. QED  BY <1>3, <1>4 DEF BinInv

\* bin_push of a span that is on no bin.
LEMMA BinsPushed ==
  ASSUME TypeInv, CoreInv, BinInv, NEW t \in Threads, StepOf(t),
         pc[t] # "ended", pc'[t] # "ended",
         NEW c \in SizeClasses, NEW s \in Spans, BinPush(t, c, s),
         \A u \in Threads : \A d \in SizeClasses : s \notin BinOf(u, d),
         \A d \in SizeClasses :
           BinOf(t, d)' = IF d = c THEN BinOf(t, c) \cup {s} ELSE BinOf(t, d)
  PROVE  BinInv'
<1>. DEFINE head == thread_local_bin[t][c]
<1>1. next \in Links /\ prev \in Links
  BY DEF Links, TypeInv, TypeOK
<1>2. head \in Spans \cup {NULL} /\ Chain(head, next, prev, BinOf(t, c))
  BY DEF BinInv, BinLinked, TypeInv, TypeOK
<1>3. /\ next' = [next EXCEPT ![s] = head]
      /\ prev' = IF head = NULL THEN [prev EXCEPT ![s] = NULL]
                 ELSE [prev EXCEPT ![s] = NULL, ![head] = s]
      /\ thread_local_bin' = [thread_local_bin EXCEPT ![t][c] = s]
  BY DEF BinPush
<1>4. Chain(s, next', prev', BinOf(t, c) \cup {s})
  BY <1>1, <1>2, <1>3, ChainPush
<1>5. head # NULL => head \in BinOf(t, c)
  BY HeadBinned
<1>6. \A r \in Spans \ {s} : r # head => next'[r] = next[r] /\ prev'[r] = prev[r]
  BY <1>1, <1>3 DEF Links
<1>7. \A u \in Threads \ {t} : \A d \in SizeClasses : BinOf(u, d)' = BinOf(u, d)
  BY OtherBins
<1>8. ASSUME NEW u \in Threads, NEW d \in SizeClasses PROVE BinLinked(u, d)'
  <2>1. CASE u = t /\ d = c
    <3>1. BinOf(u, d)' = BinOf(t, c) \cup {s} /\ thread_local_bin'[u][d] = s
      BY <1>3, <2>1 DEF TypeInv, TypeOK
    <3>. QED  BY <1>4, <2>1, <3>1 DEF BinLinked
  <2>2. CASE ~(u = t /\ d = c)
    <3>1. BinOf(u, d)' = BinOf(u, d)
      BY <1>7, <2>2
    <3>2. thread_local_bin'[u][d] = thread_local_bin[u][d]
      BY <1>3, <2>2 DEF TypeInv, TypeOK
    <3>3. pc'[u] = "ended" <=> pc[u] = "ended"
      BY DEF StepOf
    <3>4. PICK h \in Spans \cup {NULL} :
            /\ Chain(h, next, prev, BinOf(u, d))
            /\ thread_local_bin[u][d] = IF pc[u] = "ended" THEN NULL ELSE h
      BY DEF BinInv, BinLinked
    <3>5. \A r \in BinOf(u, d) : r \in Spans /\ r # s /\ r # head
      BY <1>5, <2>2, BinsDisjoint DEF BinOf
    <3>6. Chain(h, next', prev', BinOf(u, d))
      BY <1>6, <3>4, <3>5, ChainKept
    <3>. QED  BY <3>1, <3>2, <3>3, <3>4, <3>6 DEF BinLinked
  <2>. QED  BY <2>1, <2>2
<1>9. ASSUME NEW r \in Spans
      PROVE  \/ \E u \in Threads : \E d \in SizeClasses : r \in BinOf(u, d)'
             \/ next'[r] = NULL /\ prev'[r] = NULL
  <2>1. CASE \E u \in Threads : \E d \in SizeClasses : r \in BinOf(u, d)
    BY <1>7, <2>1
  <2>2. CASE ~\E u \in Threads : \E d \in SizeClasses : r \in BinOf(u, d)
    <3>1. next[r] = NULL /\ prev[r] = NULL
      BY <2>2 DEF BinInv
    <3>2. r # head
      BY <1>2, <1>5, <2>2
    <3>. QED  BY <1>6, <3>1, <3>2
  <2>. QED  BY <2>1, <2>2
<1>. QED  BY <1>8, <1>9 DEF BinInv

\* bin_remove of a span that is on a bin.
LEMMA BinsRemoved ==
  ASSUME TypeInv, CoreInv, BinInv, NEW t \in Threads, StepOf(t),
         pc[t] # "ended", pc'[t] # "ended",
         NEW c \in SizeClasses, NEW s \in BinOf(t, c), BinRemove(t, c, s),
         \A d \in SizeClasses :
           BinOf(t, d)' = IF d = c THEN BinOf(t, c) \ {s} ELSE BinOf(t, d)
  PROVE  BinInv'
<1>. DEFINE head == thread_local_bin[t][c]
            p == prev[s]
            n == next[s]
<1>0. s \in Spans
  BY DEF BinOf
<1>1. next \in Links /\ prev \in Links
  BY DEF Links, TypeInv, TypeOK
<1>2. head \in Spans \cup {NULL} /\ Chain(head, next, prev, BinOf(t, c))
  BY DEF BinInv, BinLinked, TypeInv, TypeOK
<1>3. /\ next' = IF p = NULL THEN [next EXCEPT ![s] = NULL]
                 ELSE [next EXCEPT ![p] = n, ![s] = NULL]
      /\ prev' = IF n = NULL THEN [prev EXCEPT ![s] = NULL]
                 ELSE [prev EXCEPT ![n] = p, ![s] = NULL]
      /\ thread_local_bin' = IF p = NULL THEN [thread_local_bin EXCEPT ![t][c] = n]
                             ELSE thread_local_bin
  BY DEF BinRemove
<1>4. Chain(IF p = NULL THEN n ELSE head, next', prev', BinOf(t, c) \ {s})
  <2>1. PICK h \in Spans \cup {NULL} : h = head
    BY <1>2
  <2>2. PICK S \in SUBSET Spans : S = BinOf(t, c)
    BY DEF BinOf
  <2>3. Chain(h, next, prev, S) /\ s \in S
    BY <1>2, <2>1, <2>2
  <2>4. PICK nx2, pv2 : nx2 = next' /\ pv2 = prev'
    OBVIOUS
  <2>5. /\ nx2 = IF prev[s] = NULL THEN [next EXCEPT ![s] = NULL]
                ELSE [next EXCEPT ![prev[s]] = next[s], ![s] = NULL]
        /\ pv2 = IF next[s] = NULL THEN [prev EXCEPT ![s] = NULL]
                ELSE [prev EXCEPT ![next[s]] = prev[s], ![s] = NULL]
    BY <1>3, <2>4
  <2>6. Chain(IF prev[s] = NULL THEN next[s] ELSE h, nx2, pv2, S \ {s})
    BY <1>1, <2>3, <2>5, ChainRemove, ZenonT(40)
  <2>. QED  BY <2>1, <2>2, <2>4, <2>6
<1>5. /\ p = NULL \/ p \in BinOf(t, c)
      /\ n = NULL \/ n \in BinOf(t, c)
  BY <1>2, ChainFacts
<1>6. /\ \A r \in Spans \ {s} : r \notin {p, n} => next'[r] = next[r] /\ prev'[r] = prev[r]
      /\ next'[s] = NULL /\ prev'[s] = NULL
  BY <1>0, <1>1, <1>3 DEF Links
<1>7. \A u \in Threads \ {t} : \A d \in SizeClasses : BinOf(u, d)' = BinOf(u, d)
  BY OtherBins
<1>8. ASSUME NEW u \in Threads, NEW d \in SizeClasses PROVE BinLinked(u, d)'
  <2>1. CASE u = t /\ d = c
    <3>1. BinOf(u, d)' = BinOf(t, c) \ {s}
          /\ thread_local_bin'[u][d] = IF p = NULL THEN n ELSE head
      BY <1>3, <2>1 DEF TypeInv, TypeOK
    <3>2. (IF p = NULL THEN n ELSE head) \in Spans \cup {NULL}
      BY <1>0, <1>1, <1>2 DEF Links
    <3>. QED  BY <1>4, <2>1, <3>1, <3>2 DEF BinLinked
  <2>2. CASE ~(u = t /\ d = c)
    <3>1. BinOf(u, d)' = BinOf(u, d)
      BY <1>7, <2>2
    <3>2. thread_local_bin'[u][d] = thread_local_bin[u][d]
      BY <1>3, <2>2 DEF TypeInv, TypeOK
    <3>3. pc'[u] = "ended" <=> pc[u] = "ended"
      BY DEF StepOf
    <3>4. PICK h \in Spans \cup {NULL} :
            /\ Chain(h, next, prev, BinOf(u, d))
            /\ thread_local_bin[u][d] = IF pc[u] = "ended" THEN NULL ELSE h
      BY DEF BinInv, BinLinked
    <3>5. \A r \in BinOf(u, d) : r \in Spans /\ r # NULL /\ r \notin BinOf(t, c)
      BY <2>2, BinsDisjoint DEF BinOf
    <3>6. \A r \in BinOf(u, d) : next'[r] = next[r] /\ prev'[r] = prev[r]
      BY <1>5, <1>6, <3>5
    <3>7. Chain(h, next', prev', BinOf(u, d))
      BY <3>4, <3>6, ChainKept
    <3>. QED  BY <3>1, <3>2, <3>3, <3>4, <3>7 DEF BinLinked
  <2>. QED  BY <2>1, <2>2
<1>9. ASSUME NEW r \in Spans
      PROVE  \/ \E u \in Threads : \E d \in SizeClasses : r \in BinOf(u, d)'
             \/ next'[r] = NULL /\ prev'[r] = NULL
  <2>1. CASE r = s
    BY <1>6, <2>1
  <2>2. CASE r # s /\ \E u \in Threads : \E d \in SizeClasses : r \in BinOf(u, d)
    BY <1>7, <2>2
  <2>3. CASE r # s /\ ~\E u \in Threads : \E d \in SizeClasses : r \in BinOf(u, d)
    <3>1. next[r] = NULL /\ prev[r] = NULL
      BY <2>3 DEF BinInv
    <3>2. r \notin {p, n}
      BY <1>5, <2>3
    <3>. QED  BY <1>6, <2>3, <3>1, <3>2
  <2>. QED  BY <2>1, <2>2, <2>3
<1>. QED  BY <1>8, <1>9 DEF BinInv

-----------------------------------------------------------------------------
(* What belongs on a bin, step by step                                     *)

\* free_count = 0, 1 and CountOf tell the code what the free blocks are.
LEMMA FreeCountTells ==
  ASSUME TypeInv, CoreInv, NEW s \in Spans, owner[s] # NULL
  PROVE  /\ free_count[s] = 0 <=> free[s] = {}
         /\ free_count[s] = CountOf(size_class_index[s]) <=> free[s] = AllBlocks(s)
         /\ \A i \in free[s] : free_count[s] = 1 <=> free[s] \ {i} = {}
         /\ \A i \in free[s] : free[s] \ {i} # AllBlocks(s)
<1>1. SpanInv(s)
  BY DEF CoreInv, PoolInv
<1>2. PICK n \in Nat : n = CountOf(size_class_index[s])
  BY ClassesTyped DEF TypeInv, TypeOK
<1>3. AllBlocks(s) = 0 .. n - 1 /\ free[s] \in SUBSET (0 .. n - 1) /\ free_count[s] = Cardinality(free[s])
  BY <1>1, <1>2 DEF SpanInv, BlocksOK, AllBlocks
<1>4. \A S \in SUBSET (0 .. n - 1) :
        /\ Cardinality(S) = 0 <=> S = {}
        /\ Cardinality(S) = n <=> S = 0 .. n - 1
        /\ \A i \in S : Cardinality(S) = 1 <=> S \ {i} = {}
  BY CountFacts
<1>5. /\ Cardinality(free[s]) = 0 <=> free[s] = {}
      /\ Cardinality(free[s]) = n <=> free[s] = 0 .. n - 1
      /\ \A i \in free[s] : Cardinality(free[s]) = 1 <=> free[s] \ {i} = {}
  BY <1>3, <1>4
<1>. QED  BY <1>2, <1>3, <1>5

\* A span's place on a bin depends on where its owner is.
LEMMA BinnedAt ==
  ASSUME NEW t \in Threads, NEW s \in Spans, owner[s] = t
  PROVE  /\ pc[t] \notin Updating \/ span[t] # s
              => (Binned(s) <=> free[s] \notin {{}, AllBlocks(s)})
         /\ pc[t] \in {"m_load", "m_store"} /\ span[t] = s
              => (Binned(s) <=> free_count[s] # 1)
         /\ pc[t] \in {"f_load", "f_store", "f_empty"} /\ span[t] = s => Binned(s)
BY DEF Binned, Updating

\* Steps at which every span of t keeps its owner and its class.
LEMMA SameBins ==
  ASSUME NEW t \in Threads, UNCHANGED <<owner, size_class_index>>,
         \A s \in Spans : owner[s] = t /\ size_class_index[s] \in SizeClasses
                       => (Binned(s)' <=> Binned(s))
  PROVE  \A c \in SizeClasses : BinOf(t, c)' = BinOf(t, c)
BY DEF BinOf

\* Steps that change the frame of t only.
LEMMA QuietBins ==
  ASSUME NEW t \in Threads, UNCHANGED <<blockVars, poolVars>>,
         \/ pc[t] \notin Updating /\ pc'[t] \notin Updating
         \/ pc[t] = "m_load" /\ pc'[t] = "m_store" /\ span'[t] = span[t]
         \/ pc[t] = "f_load" /\ pc'[t] = "f_store" /\ span'[t] = span[t]
         \/ /\ pc[t] \notin Updating /\ span'[t] = span[t]
            /\ size_class_index[span[t]] \notin SizeClasses
  PROVE  \A c \in SizeClasses : BinOf(t, c)' = BinOf(t, c)
<1>1. UNCHANGED <<owner, size_class_index, free, free_count>>
  BY DEF blockVars, poolVars
<1>2. ASSUME NEW s \in Spans, owner[s] = t, size_class_index[s] \in SizeClasses
      PROVE  Binned(s)' <=> Binned(s)
  <2>1. AllBlocks(s)' = AllBlocks(s) /\ owner'[s] = t
    BY <1>1, <1>2 DEF AllBlocks
  <2>. QED  BY <1>1, <1>2, <2>1 DEF Binned, Updating
<1>. QED  BY <1>1, <1>2, SameBins

\* Entering and leaving calls, loading, and the lock.
LEMMA QuietStepBins ==
  ASSUME TypeInv, CoreInv, BinInv, NEW t \in Threads, StepOf(t),
         \/ \E c \in Classes : Cmalloc(t, c)
         \/ \E b : Cfree(t, b) \/ \E c \in Classes : Crealloc(t, b, c)
         \/ ReallocCheck(t) \/ LoadBlock(t) \/ LoadFree(t) \/ Acquire(t) \/ FindSpan(t)
         \/ ReleaseInit(t) \/ ReleaseCache(t)
  PROVE  BinInv'
<1>1. UNCHANGED <<binVars, blockVars, poolVars>>
  BY DEF Cmalloc, Cfree, Crealloc, ReallocCheck, LoadBlock, LoadFree, Acquire, FindSpan,
         ReleaseInit, ReleaseCache
<1>2. pc \in [Threads -> Labels] /\ cls \in [Threads -> Classes]
  BY DEF TypeInv, TypeOK
<1>3. \/ pc[t] \notin Updating /\ pc'[t] \notin Updating
      \/ pc[t] = "m_load" /\ pc'[t] = "m_store" /\ span'[t] = span[t]
      \/ pc[t] = "f_load" /\ pc'[t] = "f_store" /\ span'[t] = span[t]
      \/ pc[t] = "m_unlock" /\ pc'[t] = "m_load" /\ span'[t] = span[t] /\ cls[t] = LARGE
  <2>1. ASSUME NEW c \in Classes, Cmalloc(t, c)
        PROVE  pc[t] \notin Updating /\ pc'[t] \notin Updating
    BY <1>2, <2>1 DEF Cmalloc, MayCall, EnterCmalloc, Goto, Updating
  <2>2. ASSUME NEW b, Cfree(t, b) \/ \E c \in Classes : Crealloc(t, b, c)
        PROVE  pc[t] \notin Updating /\ pc'[t] \notin Updating
    BY <1>2, <2>2 DEF Cfree, EnterCfree, Crealloc, MayCall, Goto, Updating
  <2>3. CASE ReallocCheck(t)
    BY <1>2, <2>3 DEF ReallocCheck, Return, EnterCmalloc, Goto, Updating
  <2>4. CASE LoadBlock(t)
    <3>1. free[span[t]] # {}
      BY <2>4 DEF LoadBlock, CoreInv, ThreadInv, StageOK
    <3>. QED  BY <1>2, <2>4, <3>1 DEF LoadBlock, Goto
  <2>5. CASE LoadFree(t)
    BY <1>2, <2>5 DEF LoadFree, Goto
  <2>6. CASE Acquire(t) \/ FindSpan(t) \/ ReleaseCache(t)
    BY <1>2, <2>6 DEF Acquire, FindSpan, ReleaseCache, Return, Goto, Updating
  <2>7. CASE ReleaseInit(t)
    BY <1>2, <2>7 DEF ReleaseInit, Goto, Updating
  <2>. QED  BY <2>1, <2>2, <2>3, <2>4, <2>5, <2>6, <2>7
<1>4. pc[t] = "m_unlock" /\ cls[t] = LARGE => size_class_index[span[t]] \notin SizeClasses
  BY ClassesTyped DEF CoreInv, ThreadInv, OwnerOK, Working
<1>5. \A c \in SizeClasses : BinOf(t, c)' = BinOf(t, c)
  BY <1>1, <1>3, <1>4, QuietBins DEF Updating
<1>6. pc[t] # "ended" /\ pc'[t] # "ended"
  BY <1>2 DEF Cmalloc, Cfree, Crealloc, ReallocCheck, LoadBlock, LoadFree, Acquire, FindSpan,
         ReleaseInit, ReleaseCache, MayCall, EnterCmalloc, EnterCfree, Return, Goto
<1>. QED  BY <1>1, <1>5, <1>6, BinsKept

\* The stores of allocate_block and free_block.
LEMMA StoreBins ==
  ASSUME TypeInv, CoreInv, BinInv, NEW t \in Threads, StepOf(t),
         StoreBlock(t) \/ StoreFree(t)
  PROVE  BinInv'
<1>. USE DEF TypeInv, TypeOK
<1>. DEFINE s == span[t]
<1>1. /\ UNCHANGED <<binVars, poolVars>> /\ StoreReg(t)
      /\ \/ pc[t] = "m_store" /\ pc'[t] \notin Updating
         \/ pc[t] = "f_store" /\ pc'[t] = "f_empty" /\ span'[t] = span[t]
      /\ pc[t] # "ended" /\ pc'[t] # "ended"
  BY DEF StoreBlock, StoreFree, Return, EnterCfree, Goto, Updating
<1>2. s \in Spans /\ owner[s] = t
  BY <1>1 DEF FrameOK, CoreInv, ThreadInv, OwnerOK, Working
<1>3. \A r \in Spans \ {s} : free'[r] = free[r]
  BY <1>1 DEF StoreReg
<1>4. pc[t] = "m_store" => reg[t].block \in free[s] /\ free'[s] = free[s] \ {reg[t].block}
  BY <1>1, <1>2 DEF StoreReg, CoreInv, ThreadInv, StageOK
<1>5. \A r \in Spans : AllBlocks(r)' = AllBlocks(r) /\ owner'[r] = owner[r]
  BY <1>1 DEF AllBlocks, poolVars
<1>6. ASSUME NEW r \in Spans, owner[r] = t PROVE Binned(r)' <=> Binned(r)
  <2>1. CASE r # s
    <3>1. Binned(r) <=> free[r] \notin {{}, AllBlocks(r)}
      BY <1>6, <2>1, BinnedAt
    <3>2. pc'[t] \notin Updating \/ span'[t] # r
      BY <1>1, <2>1
    <3>3. Binned(r)' <=> free'[r] \notin {{}, AllBlocks(r)'}
      BY <1>5, <1>6, <3>2 DEF Binned
    <3>. QED  BY <1>3, <1>5, <2>1, <3>1, <3>3
  <2>2. CASE r = s /\ pc[t] = "f_store"
    BY <1>1, <1>5, <1>6, <2>2 DEF Binned, Updating
  <2>3. CASE r = s /\ pc[t] = "m_store"
    <3>1. Binned(r) <=> free_count[r] # 1
      BY <1>6, <2>3, BinnedAt
    <3>2. Binned(r)' <=> free'[r] \notin {{}, AllBlocks(r)'}
      BY <1>1, <1>5, <1>6, <2>3 DEF Binned
    <3>3. owner[r] # NULL
      BY <1>6
    <3>4. /\ free_count[r] = 1 <=> free[r] \ {reg[t].block} = {}
          /\ free[r] \ {reg[t].block} # AllBlocks(r)
      BY <1>4, <2>3, <3>3, FreeCountTells
    <3>. QED  BY <1>4, <1>5, <2>3, <3>1, <3>2, <3>4
  <2>. QED  BY <1>1, <2>1, <2>2, <2>3
<1>7. \A c \in SizeClasses : BinOf(t, c)' = BinOf(t, c)
  BY <1>1, <1>6, SameBins DEF poolVars
<1>. QED  BY <1>1, <1>7, BinsKept

\* A span joins a thread, or the pool, without being on a bin.
LEMMA MoveBins ==
  ASSUME TypeInv, CoreInv, BinInv, NEW t \in Threads, StepOf(t),
         InitializeSpan(t) \/ CacheSpan(t)
  PROVE  BinInv'
<1>. USE DEF TypeInv, TypeOK
<1>. DEFINE s == span[t]
<1>1. /\ UNCHANGED <<binVars, span>>
      /\ \/ pc[t] = "m_init" /\ pc'[t] = "m_unlock"
         \/ pc[t] = "f_cache" /\ pc'[t] = "f_unlock" /\ cls[t] = LARGE
         \/ pc[t] = "f_cache" /\ pc'[t] = "f_unlock" /\ cls[t] # LARGE
  BY DEF InitializeSpan, CacheSpan, Goto
<1>2. s \in Spans
  BY <1>1 DEF FrameOK
<1>3. \A r \in Spans \ {s} :
        /\ owner'[r] = owner[r] /\ size_class_index'[r] = size_class_index[r]
        /\ free'[r] = free[r]
  BY <1>2 DEF InitializeSpan, CacheSpan, blockVars
<1>4. \A c \in SizeClasses : s \notin BinOf(t, c)
  <2>1. CASE pc[t] = "m_init"
    BY <2>1 DEF BinOf, CoreInv, PoolInv, ThreadInv, OwnerOK
  <2>2. CASE pc[t] = "f_cache"
    <3>1. owner[s] = t /\ size_class_index[s] = cls[t]
      BY <2>2 DEF CoreInv, ThreadInv, OwnerOK, Working
    <3>2. cls[t] # LARGE => free[s] = AllBlocks(s)
      BY <2>2 DEF CoreInv, ThreadInv, StageOK
    <3>3. Binned(s) <=> free[s] \notin {{}, AllBlocks(s)}
      BY <1>2, <2>2, <3>1, BinnedAt DEF Updating
    <3>. QED  BY <3>1, <3>2, <3>3, ClassesTyped DEF BinOf
  <2>. QED  BY <1>1, <2>1, <2>2
<1>5. \A c \in SizeClasses : s \notin BinOf(t, c)'
  <2>1. CASE InitializeSpan(t)
    <3>1. /\ owner'[s] = t /\ pc'[t] = "m_unlock"
          /\ free'[s] = 0 .. CountOf(cls[t]) - 1
          /\ size_class_index'[s] = cls[t]
      BY <1>2, <2>1 DEF InitializeSpan, FreshBlocks, Goto
    <3>2. PICK r \in Spans : r = s
      BY <1>2
    <3>3. owner'[r] = t /\ free'[r] = AllBlocks(r)'
      BY <3>1, <3>2 DEF AllBlocks
    <3>4. ~Binned(r)'
      BY <3>1, <3>3 DEF Binned, Updating
    <3>. QED  BY <3>2, <3>4 DEF BinOf
  <2>2. CASE CacheSpan(t)
    BY <1>2, <2>2 DEF CacheSpan, BinOf
  <2>. QED  BY <2>1, <2>2
<1>6. ASSUME NEW r \in Spans \ {s}, owner[r] = t PROVE Binned(r)' <=> Binned(r)
  <2>1. AllBlocks(r)' = AllBlocks(r) /\ owner'[r] = t
    BY <1>3, <1>6 DEF AllBlocks
  <2>. QED  BY <1>1, <1>3, <1>6, <2>1 DEF Binned
<1>7. \A c \in SizeClasses : BinOf(t, c)' = BinOf(t, c)
  BY <1>3, <1>4, <1>5, <1>6 DEF BinOf
<1>. QED  BY <1>1, <1>7, BinsKept

\* At the tests and the push of a fresh span only span[t] can join or leave a
\* bin, the one of its class.
LEMMA OneSpanBins ==
  ASSUME TypeInv, CoreInv, NEW t \in Threads,
         UNCHANGED <<blockVars, poolVars>>,
         NEW s \in Spans, s = span[t], owner[s] = t,
         NEW c \in SizeClasses, size_class_index[s] = c,
         span'[t] = s \/ pc'[t] \notin Updating
  PROVE  \A d \in SizeClasses :
           BinOf(t, d)' = IF d # c THEN BinOf(t, d)
                          ELSE IF Binned(s)' THEN BinOf(t, c) \cup {s}
                          ELSE BinOf(t, c) \ {s}
<1>1. UNCHANGED <<owner, size_class_index, free, free_count>>
  BY DEF blockVars, poolVars
<1>2. ASSUME NEW r \in Spans \ {s}, owner[r] = t PROVE Binned(r)' <=> Binned(r)
  <2>1. AllBlocks(r)' = AllBlocks(r) /\ owner'[r] = t
    BY <1>1, <1>2 DEF AllBlocks
  <2>. QED  BY <1>1, <1>2, <2>1 DEF Binned
<1>. QED  BY <1>1, <1>2 DEF BinOf

\* The test of allocate_block's caller takes a span off when its last block
\* goes.
LEMMA CheckLastBins ==
  ASSUME TypeInv, CoreInv, BinInv, NEW t \in Threads, StepOf(t), CheckLast(t)
  PROVE  BinInv'
<1>. USE DEF TypeInv, TypeOK
<1>1. /\ pc[t] = "m_check" /\ pc'[t] = "m_load"
      /\ UNCHANGED <<blockVars, poolVars, span, cls>>
  BY DEF CheckLast, Goto
<1>2. PICK s \in Spans : s = span[t] /\ owner[s] = t /\ owner[s] # NULL
  BY <1>1 DEF FrameOK, CoreInv, ThreadInv, OwnerOK, Working
<1>3. PICK c \in SizeClasses : c = cls[t] /\ size_class_index[s] = c
  BY <1>1, <1>2 DEF FrameOK, CoreInv, ThreadInv, OwnerOK, Working
<1>4. free[s] \notin {{}, AllBlocks(s)}
  <2>1. free[s] # {}
    BY <1>1, <1>2 DEF CoreInv, ThreadInv, StageOK
  <2>2. free[s] # AllBlocks(s)
    BY <1>1, <1>2, OwnInUse DEF Vacant
  <2>. QED  BY <2>1, <2>2
<1>5. s \in BinOf(t, c)
  <2>1. Binned(s)
    BY <1>1, <1>2, <1>4, BinnedAt DEF Updating
  <2>. QED  BY <1>2, <1>3, <2>1 DEF BinOf
<1>6. Binned(s)' <=> free_count[s] # 1
  BY <1>1, <1>2 DEF Binned, Updating, blockVars, poolVars
<1>7. \A d \in SizeClasses :
        BinOf(t, d)' = IF d # c THEN BinOf(t, d)
                       ELSE IF free_count[s] # 1 THEN BinOf(t, c) \cup {s}
                       ELSE BinOf(t, c) \ {s}
  BY <1>1, <1>2, <1>3, <1>6, OneSpanBins
<1>8. CASE free_count[s] = 1
  <2>1. BinRemove(t, c, s)
    BY <1>2, <1>3, <1>8 DEF CheckLast, LastBlock
  <2>2. \A d \in SizeClasses :
          BinOf(t, d)' = IF d = c THEN BinOf(t, c) \ {s} ELSE BinOf(t, d)
    BY <1>7, <1>8
  <2>. QED  BY <1>1, <1>5, <2>1, <2>2, BinsRemoved
<1>9. CASE free_count[s] # 1
  <2>1. UNCHANGED binVars
    BY <1>2, <1>9 DEF CheckLast, LastBlock
  <2>2. \A d \in SizeClasses : BinOf(t, d)' = BinOf(t, d)
    <3>1. BinOf(t, c) \cup {s} = BinOf(t, c)
      BY <1>5
    <3>. QED  BY <1>7, <1>9, <3>1
  <2>. QED  BY <1>1, <2>1, <2>2, BinsKept
<1>. QED  BY <1>8, <1>9

\* A span pushed on a bin was on none.
LEMMA PushBins ==
  ASSUME TypeInv, CoreInv, BinInv, NEW t \in Threads, StepOf(t),
         PushFresh(t) \/ CheckFull(t)
  PROVE  BinInv'
<1>. USE DEF TypeInv, TypeOK
<1>1. /\ \/ pc[t] = "m_push" /\ pc'[t] = "m_load"
         \/ pc[t] = "f_check" /\ pc'[t] = "f_load"
      /\ UNCHANGED <<blockVars, poolVars, span, cls>>
  BY DEF PushFresh, CheckFull, Goto
<1>2. PICK s \in Spans : s = span[t] /\ owner[s] = t /\ owner[s] # NULL
  BY <1>1 DEF FrameOK, CoreInv, ThreadInv, OwnerOK, Working
<1>3. PICK c \in SizeClasses : c = cls[t] /\ size_class_index[s] = c
  BY <1>1, <1>2 DEF FrameOK, CoreInv, ThreadInv, OwnerOK, Working
<1>4. Binned(s) <=> free[s] \notin {{}, AllBlocks(s)}
  BY <1>1, <1>2, BinnedAt DEF Updating
<1>5. Binned(s)'
  <2>1. CASE pc[t] = "m_push"
    <3>1. free[s] = AllBlocks(s)
      BY <1>2, <2>1 DEF CoreInv, ThreadInv, StageOK
    <3>2. free_count[s] = CountOf(c)
      BY <1>2, <1>3, <3>1, FreeCountTells
    <3>3. CountOf(c) # 1
      BY ClassesTyped DEF CountOf
    <3>. QED  BY <1>1, <1>2, <2>1, <3>2, <3>3 DEF Binned, Updating, blockVars, poolVars
  <2>2. CASE pc[t] = "f_check"
    BY <1>1, <1>2, <2>2 DEF Binned, Updating, poolVars
  <2>. QED  BY <1>1, <2>1, <2>2
<1>6. \A d \in SizeClasses : BinOf(t, d)' = IF d = c THEN BinOf(t, c) \cup {s} ELSE BinOf(t, d)
  BY <1>1, <1>2, <1>3, <1>5, OneSpanBins
<1>7. CASE free[s] \in {{}, AllBlocks(s)}
  <2>1. BinPush(t, c, s)
    <3>1. pc[t] = "f_check" => free[s] # AllBlocks(s)
      BY <1>2, OwnInUse DEF Vacant
    <3>2. pc[t] = "f_check" => free_count[s] = 0
      BY <1>2, <1>7, <3>1, FreeCountTells
    <3>. QED  BY <1>1, <1>2, <1>3, <3>2 DEF PushFresh, CheckFull, Full
  <2>2. \A u \in Threads : \A d \in SizeClasses : s \notin BinOf(u, d)
    BY <1>4, <1>7 DEF BinOf
  <2>. QED  BY <1>1, <1>6, <2>1, <2>2, BinsPushed
<1>8. CASE free[s] \notin {{}, AllBlocks(s)}
  <2>1. pc[t] = "f_check"
    BY <1>1, <1>2, <1>8 DEF CoreInv, ThreadInv, StageOK
  <2>2. UNCHANGED binVars
    <3>1. free_count[s] # 0
      BY <1>2, <1>8, FreeCountTells
    <3>. QED  BY <1>2, <2>1, <3>1 DEF PushFresh, CheckFull, Full
  <2>3. s \in BinOf(t, c)
    BY <1>2, <1>3, <1>4, <1>8 DEF BinOf
  <2>4. \A d \in SizeClasses : BinOf(t, d)' = BinOf(t, d)
    <3>1. BinOf(t, c) \cup {s} = BinOf(t, c)
      BY <2>3
    <3>. QED  BY <1>6, <3>1
  <2>. QED  BY <1>1, <2>2, <2>4, BinsKept
<1>. QED  BY <1>7, <1>8

\* A span whose blocks are all free again leaves its bin.
LEMMA CheckEmptyBins ==
  ASSUME TypeInv, CoreInv, BinInv, NEW t \in Threads, StepOf(t), CheckEmpty(t)
  PROVE  BinInv'
<1>. USE DEF TypeInv, TypeOK
<1>1. /\ pc[t] = "f_empty" /\ pc'[t] \notin Updating /\ pc'[t] # "ended"
      /\ UNCHANGED <<blockVars, poolVars>>
  BY DEF CheckEmpty, Return, Goto, Updating
<1>2. PICK s \in Spans : s = span[t] /\ owner[s] = t /\ owner[s] # NULL
  BY <1>1 DEF FrameOK, CoreInv, ThreadInv, OwnerOK, Working
<1>3. PICK c \in SizeClasses : c = cls[t] /\ size_class_index[s] = c
  BY <1>1, <1>2 DEF FrameOK, CoreInv, ThreadInv, OwnerOK, Working
<1>4. s \in BinOf(t, c)
  <2>1. Binned(s)
    BY <1>1, <1>2, BinnedAt
  <2>. QED  BY <1>2, <1>3, <2>1 DEF BinOf
<1>5. Empty(s) <=> free[s] = AllBlocks(s)
  BY <1>2, FreeCountTells DEF Empty
<1>6. free[s] # {}
  BY <1>1, <1>2 DEF CoreInv, ThreadInv, StageOK
<1>7. Binned(s)' <=> ~Empty(s)
  <2>1. AllBlocks(s)' = AllBlocks(s) /\ owner'[s] = t /\ free'[s] = free[s]
    BY <1>1, <1>2 DEF AllBlocks, blockVars, poolVars
  <2>. QED  BY <1>1, <1>5, <1>6, <2>1 DEF Binned
<1>8. \A d \in SizeClasses :
        BinOf(t, d)' = IF d # c THEN BinOf(t, d)
                       ELSE IF ~Empty(s) THEN BinOf(t, c) \cup {s}
                       ELSE BinOf(t, c) \ {s}
  BY <1>1, <1>2, <1>3, <1>7, OneSpanBins
<1>9. CASE Empty(s)
  <2>1. BinRemove(t, c, s)
    BY <1>2, <1>3, <1>9 DEF CheckEmpty
  <2>2. \A d \in SizeClasses :
          BinOf(t, d)' = IF d = c THEN BinOf(t, c) \ {s} ELSE BinOf(t, d)
    BY <1>8, <1>9
  <2>. QED  BY <1>1, <1>4, <2>1, <2>2, BinsRemoved
<1>10. CASE ~Empty(s)
  <2>1. UNCHANGED binVars
    BY <1>2, <1>10 DEF CheckEmpty, binVars
  <2>2. \A d \in SizeClasses : BinOf(t, d)' = BinOf(t, d)
    <3>1. BinOf(t, c) \cup {s} = BinOf(t, c)
      BY <1>4
    <3>. QED  BY <1>8, <1>10, <3>1
  <2>. QED  BY <1>1, <2>1, <2>2, BinsKept
<1>. QED  BY <1>9, <1>10

\* A thread that ends takes the heads of its bins with it.
LEMMA ExitBins ==
  ASSUME TypeInv, CoreInv, BinInv, NEW t \in Threads, StepOf(t), Exit(t)
  PROVE  BinInv'
<1>. USE DEF TypeInv, TypeOK
<1>1. /\ pc[t] = "idle" /\ pc'[t] = "ended"
      /\ UNCHANGED <<next, prev, blockVars, poolVars>>
      /\ thread_local_bin' = [thread_local_bin EXCEPT ![t] = [c \in SizeClasses |-> NULL]]
  BY DEF Exit, Goto
<1>2. \A u \in Threads : \A c \in SizeClasses : BinOf(u, c)' = BinOf(u, c)
  BY <1>1, QuietBins, OtherBins DEF Updating
<1>3. ASSUME NEW u \in Threads, NEW c \in SizeClasses PROVE BinLinked(u, c)'
  <2>1. PICK h \in Spans \cup {NULL} :
          /\ Chain(h, next, prev, BinOf(u, c))
          /\ thread_local_bin[u][c] = IF pc[u] = "ended" THEN NULL ELSE h
    BY DEF BinInv, BinLinked
  <2>2. thread_local_bin'[u][c] = IF pc'[u] = "ended" THEN NULL ELSE h
    <3>1. CASE u = t
      BY <1>1, <3>1
    <3>2. CASE u # t
      BY <1>1, <2>1, <3>2 DEF StepOf
    <3>. QED  BY <3>1, <3>2
  <2>. QED  BY <1>1, <1>2, <2>1, <2>2 DEF BinLinked
<1>4. \A s \in Spans :
        \/ \E u \in Threads : \E c \in SizeClasses : s \in BinOf(u, c)'
        \/ next'[s] = NULL /\ prev'[s] = NULL
  BY <1>1, <1>2 DEF BinInv
<1>. QED  BY <1>3, <1>4 DEF BinInv

\* Every step of a thread, but running out of memory, keeps the invariant.
LEMMA StepInv ==
  ASSUME TypeInv, CoreInv, BinInv, ~CrossThreadFrees, NEW t \in Threads,
         Call(t) \/ Run(t) \/ Acquire(t) \/ Exit(t), ~OutOfMemory(t)
  PROVE  StepOf(t) /\ CoreInv' /\ BinInv'
<1>1. StepOf(t) /\ CoreInv'
  BY HeadBinned, StepCore
<1>. QED  BY <1>1, QuietStepBins, StoreBins, MoveBins, CheckLastBins, PushBins,
             CheckEmptyBins, ExitBins DEF Call, Run
=============================================================================
