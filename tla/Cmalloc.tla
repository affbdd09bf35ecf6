-------------------------------- MODULE Cmalloc --------------------------------
(***************************************************************************)
(* The front end of the allocator (src/src/cmalloc.c): threads that call   *)
(* cmalloc, cfree and crealloc, the thread-local bins of non-full spans,   *)
(* the block bookkeeping of each span, and the global lock.                *)
(*                                                                         *)
(* A thread runs one call at a time, from pc = "idle" back to "idle".  A   *)
(* step covers the code between two accesses to memory another thread may  *)
(* reach: allocate_block and free_block load the span's fields in one step *)
(* and store them in another, and every lock operation is a step, so calls *)
(* of different threads interleave wherever the code lets them.            *)
(*                                                                         *)
(* Abstracted: a span's free blocks are the set `free' of their indices    *)
(* (SpanBlocks shows the two-level bitmap keeps that set and gives out its *)
(* least element); alloc_span yields any span of the pool of uninitialized *)
(* ones (SpanPool models how it finds, splits and maps them); a request is *)
(* its size class, LARGE for more than MAX_SIZE_CLASS bytes.               *)
(***************************************************************************)
EXTENDS Integers, FiniteSets

CONSTANTS
  Threads,            \* the program's threads
  Spans,              \* span_t objects
  NULL,
  SIZE_CLASS_COUNT,   \* number of size classes
  BlockCount,         \* SIZE_CLASS_BLOCK_COUNT
  MAX_SPAN_BLOCK_COUNT,
  CrossThreadFrees,   \* the program frees blocks another thread allocated
  SerializedCalls,    \* the program never overlaps two calls
  ThreadsExit         \* the program's threads may end

LARGE == -1           \* LARGE_CLASS_SIZE_INDEX
SizeClasses == 0 .. SIZE_CLASS_COUNT - 1
Classes == SizeClasses \cup {LARGE}

\* Every size class has spans of at least two blocks (32 in the table of
\* common.h:77-86): cmalloc's slow path pushes a fresh span on the bin before
\* it takes a block and never checks whether that was the last one.
ASSUME CmallocAssumption ==
  /\ SIZE_CLASS_COUNT \in Nat
  /\ MAX_SPAN_BLOCK_COUNT \in Nat \ {0}
  /\ BlockCount \in [SizeClasses -> 2 .. MAX_SPAN_BLOCK_COUNT]
  /\ NULL \notin Spans
  /\ NULL \notin Threads
  /\ NULL \notin Spans \X Nat
  /\ IsFiniteSet(Spans)
  /\ CrossThreadFrees \in BOOLEAN
  /\ SerializedCalls \in BOOLEAN
  /\ ThreadsExit \in BOOLEAN

VARIABLES
  \* _Thread_local thread_local_bin and the bin links inside span_t
  thread_local_bin,   \* [Threads -> [SizeClasses -> span or NULL]]
  next,               \* next_in_size_class_bin
  prev,               \* prev_in_size_class_bin
  \* the other fields of span_t
  size_class_index,
  free_count,
  free,               \* block_bitmap, as a set of block indices
  \* the pool behind cmalloc_initialize_span and cmalloc_cache_span
  pool,               \* spans alloc_span may return
  lock,               \* the mutex: its holder or NULL
  \* the frame of each thread's current call
  pc,
  cls,                \* size_class_index
  span,               \* span, large_alloc_span
  ptr,                \* the argument of cfree or crealloc, NULL in cmalloc
  reg,                \* values loaded by allocate_block or free_block
  \* the program, and a history variable
  held,               \* blocks the program holds, by the thread that got them
  owner               \* history: the thread that initialized a span

binVars   == <<thread_local_bin, next, prev>>
blockVars == <<free_count, free>>
poolVars  == <<size_class_index, pool, owner>>
vars == <<binVars, blockVars, poolVars, lock, pc, cls, span, ptr, reg,
          held>>

BlockIndices == 0 .. MAX_SPAN_BLOCK_COUNT - 1
Blocks == Spans \X BlockIndices

\* Seeded fault: one block more than the span has room for.
CountOfOneTooMany(c) == IF c = LARGE THEN 1 ELSE BlockCount[c] + 1

CountOf(c) == IF c = LARGE THEN 1 ELSE BlockCount[c]
AllBlocks(s) == 0 .. CountOf(size_class_index[s]) - 1

\* Seeded fault: the former blocks of the span keep their bits.
FreshBlocksOverOld(s, c) == free[s] \cup 0 .. CountOf(c) - 1

\* The blocks of span s once it is initialized for class c.
FreshBlocks(s, c) == 0 .. CountOf(c) - 1

LeastOf(S) == CHOOSE i \in S : \A j \in S : i <= j

NoReg == [count |-> 0, bits |-> {}, block |-> 0]

Init ==
  /\ thread_local_bin = [t \in Threads |-> [c \in SizeClasses |-> NULL]]
  /\ next = [s \in Spans |-> NULL]
  /\ prev = [s \in Spans |-> NULL]
  /\ size_class_index = [s \in Spans |-> LARGE]
  /\ free_count = [s \in Spans |-> 0]
  /\ free = [s \in Spans |-> {}]
  /\ pool = Spans
  /\ lock = NULL
  /\ pc = [t \in Threads |-> "idle"]
  /\ cls = [t \in Threads |-> LARGE]
  /\ span = [t \in Threads |-> NULL]
  /\ ptr = [t \in Threads |-> NULL]
  /\ reg = [t \in Threads |-> NoReg]
  /\ held = [t \in Threads |-> {}]
  /\ owner = [s \in Spans |-> NULL]

Goto(t, label) == pc' = [pc EXCEPT ![t] = label]

\* The call returns; its frame is gone.
Return(t) ==
  /\ Goto(t, "idle")
  /\ cls' = [cls EXCEPT ![t] = LARGE]
  /\ span' = [span EXCEPT ![t] = NULL]
  /\ ptr' = [ptr EXCEPT ![t] = NULL]

-----------------------------------------------------------------------------
(* The tests of free_count, and the mutex                                  *)

\* Seeded fault: a span stays on its bin when its last block is taken.
LastBlockNever(s) == FALSE

LastBlock(s) == free_count[s] = 1

\* Seeded fault: a span that was full does not go back on a bin.
FullNever(s) == FALSE

Full(s) == free_count[s] = 0

\* Seeded fault: a span with one block in use counts as empty.
EmptyTooEarly(s) == free_count[s] >= CountOf(size_class_index[s]) - 1

Empty(s) == free_count[s] = CountOf(size_class_index[s])

\* Seeded fault: no mutual exclusion.
LockAlways(t) == lock' = t

Lock(t) == lock = NULL /\ lock' = t

\* Seeded fault: an early return past the unlock.
UnlockForgotten == UNCHANGED lock

Unlock == lock' = NULL

-----------------------------------------------------------------------------
(* bin_push and bin_remove                                                 *)

BinPush(t, c, s) ==
  LET head == thread_local_bin[t][c]
  IN /\ next' = [next EXCEPT ![s] = head]
     /\ prev' = IF head = NULL THEN [prev EXCEPT ![s] = NULL]
                ELSE [prev EXCEPT ![s] = NULL, ![head] = s]
     /\ thread_local_bin' = [thread_local_bin EXCEPT ![t][c] = s]

\* Seeded fault: the head of the bin is not moved on.
BinRemoveKeepsHead(t, c, s) ==
  LET p == prev[s]
      n == next[s]
  IN /\ next' = IF p = NULL THEN [next EXCEPT ![s] = NULL]
                ELSE [next EXCEPT ![p] = n, ![s] = NULL]
     /\ prev' = IF n = NULL THEN [prev EXCEPT ![s] = NULL]
                ELSE [prev EXCEPT ![n] = p, ![s] = NULL]
     /\ UNCHANGED thread_local_bin

BinRemove(t, c, s) ==
  LET p == prev[s]
      n == next[s]
  IN /\ next' = IF p = NULL THEN [next EXCEPT ![s] = NULL]
                ELSE [next EXCEPT ![p] = n, ![s] = NULL]
     /\ prev' = IF n = NULL THEN [prev EXCEPT ![s] = NULL]
                ELSE [prev EXCEPT ![n] = p, ![s] = NULL]
     /\ thread_local_bin' = IF p = NULL
                              THEN [thread_local_bin EXCEPT ![t][c] = n]
                              ELSE thread_local_bin

-----------------------------------------------------------------------------
(* Calls.  The program calls only from a thread that is not in a call; it  *)
(* frees and reallocates only blocks it holds, once.                       *)

MayCall(t) ==
  /\ pc[t] = "idle"
  /\ SerializedCalls => \A u \in Threads : pc[u] \in {"idle", "ended"}

MayPass(t, b) ==
  /\ b \in held[t] \/ (CrossThreadFrees /\ \E u \in Threads : b \in held[u])
  /\ \A u \in Threads : ptr[u] # b

\* cmalloc up to its branch on the thread-local bin.
EnterCmalloc(t, c) ==
  LET head == IF c = LARGE THEN NULL ELSE thread_local_bin[t][c]
  IN /\ cls' = [cls EXCEPT ![t] = c]
     /\ span' = [span EXCEPT ![t] = head]
     /\ Goto(t, IF head # NULL THEN "m_check" ELSE "m_lock")

\* cfree up to its branch on the span's class.
EnterCfree(t, b) ==
  LET s == b[1]
      c == size_class_index[s]
  IN /\ cls' = [cls EXCEPT ![t] = c]
     /\ span' = [span EXCEPT ![t] = s]
     /\ ptr' = [ptr EXCEPT ![t] = b]
     /\ Goto(t, IF c = LARGE THEN "f_lock" ELSE "f_check")

Cmalloc(t, c) ==
  /\ MayCall(t)
  /\ EnterCmalloc(t, c)
  /\ UNCHANGED <<binVars, blockVars, poolVars, lock, ptr, reg, held>>

Cfree(t, b) ==
  /\ MayCall(t)
  /\ MayPass(t, b)
  /\ EnterCfree(t, b)
  /\ held' = [u \in Threads |-> held[u] \ {b}]
  /\ UNCHANGED <<binVars, blockVars, poolVars, lock, reg>>

\* crealloc of a block to a size of class c; crealloc of NULL is Cmalloc and
\* crealloc to size 0 is Cfree.
Crealloc(t, b, c) ==
  /\ MayCall(t)
  /\ MayPass(t, b)
  /\ ptr' = [ptr EXCEPT ![t] = b]
  /\ cls' = [cls EXCEPT ![t] = c]
  /\ Goto(t, "r_check")
  /\ UNCHANGED <<binVars, blockVars, poolVars, lock, span, reg, held>>

\* The values block_size >= size can have for a block of class d and a request
\* of class c: block_size is the exact size of the request in a large span.
BlockSizeSuffices(d, c) ==
  IF d = LARGE /\ c = LARGE THEN BOOLEAN
  ELSE {d = LARGE \/ (c # LARGE /\ c <= d)}

ReallocCheck(t) ==
  /\ pc[t] = "r_check"
  /\ \E suffices \in BlockSizeSuffices(size_class_index[ptr[t][1]], cls[t]) :
       IF suffices THEN Return(t)
       ELSE EnterCmalloc(t, cls[t]) /\ UNCHANGED ptr
  /\ UNCHANGED <<binVars, blockVars, poolVars, lock, reg, held>>

-----------------------------------------------------------------------------
(* cmalloc                                                                 *)

CheckLast(t) ==
  /\ pc[t] = "m_check"
  /\ IF LastBlock(span[t]) THEN BinRemove(t, cls[t], span[t])
                           ELSE UNCHANGED binVars
  /\ Goto(t, "m_load")
  /\ UNCHANGED <<blockVars, poolVars, lock, cls, span, ptr, reg, held>>

\* allocate_block, its loads; cmalloc returns NULL if there is no free block.
LoadBlock(t) ==
  LET s == span[t]
      b == LeastOf(free[s])
  IN /\ pc[t] = "m_load"
     /\ IF free[s] = {}
          THEN Return(t) /\ UNCHANGED reg
          ELSE /\ reg' = [reg EXCEPT ![t] = [count |-> free_count[s] - 1,
                                             bits  |-> free[s] \ {b},
                                             block |-> b]]
               /\ Goto(t, "m_store")
               /\ UNCHANGED <<cls, span, ptr>>
     /\ UNCHANGED <<binVars, blockVars, poolVars, lock, held>>

StoreReg(t) ==
  /\ free_count' = [free_count EXCEPT ![span[t]] = reg[t].count]
  /\ free' = [free EXCEPT ![span[t]] = reg[t].bits]
  /\ reg' = [reg EXCEPT ![t] = NoReg]

\* allocate_block, its stores, and the return of cmalloc; in crealloc, the
\* copy and the entry of cfree for the old block.
StoreBlock(t) ==
  LET b == <<span[t], reg[t].block>>
  IN /\ pc[t] = "m_store"
     /\ StoreReg(t)
     /\ IF ptr[t] = NULL
          THEN /\ held' = [held EXCEPT ![t] = @ \cup {b}]
               /\ Return(t)
          ELSE /\ held' = [u \in Threads |->
                             (held[u] \ {ptr[t]}) \cup (IF u = t THEN {b} ELSE {})]
               /\ EnterCfree(t, ptr[t])
     /\ UNCHANGED <<binVars, poolVars, lock>>

\* pthread_mutex_lock, on every path that takes it.
Acquire(t) ==
  /\ pc[t] \in {"m_lock", "f_lock"}
  /\ Lock(t)
  /\ Goto(t, IF pc[t] = "m_lock" THEN "m_find" ELSE "f_cache")
  /\ UNCHANGED <<binVars, blockVars, poolVars, cls, span, ptr, reg, held>>

\* alloc_span reads the head of a bin of uninitialized spans.
FindSpan(t) ==
  /\ pc[t] = "m_find"
  /\ \E s \in pool : span' = [span EXCEPT ![t] = s]
  /\ Goto(t, "m_init")
  /\ UNCHANGED <<binVars, blockVars, poolVars, lock, cls, ptr, reg, held>>

\* alloc_span unlinks the span, and cmalloc_initialize_span sets its fields.
InitializeSpan(t) ==
  LET s == span[t]
      c == cls[t]
  IN /\ pc[t] = "m_init"
     /\ pool' = pool \ {s}
     /\ owner' = [owner EXCEPT ![s] = t]
     /\ size_class_index' = [size_class_index EXCEPT ![s] = c]
     /\ free_count' = [free_count EXCEPT ![s] = CountOf(c)]
     /\ free' = [free EXCEPT ![s] = FreshBlocks(s, c)]
     /\ Goto(t, "m_unlock")
     /\ UNCHANGED <<binVars, lock, cls, span, ptr, reg, held>>

\* alloc_span returns NULL, assert(new) fails and the process ends.
OutOfMemory(t) ==
  /\ pc[t] = "m_find"
  /\ pool = {}
  /\ pc' = [u \in Threads |-> "aborted"]
  /\ UNCHANGED <<binVars, blockVars, poolVars, lock, cls, span, ptr, reg, held>>

\* pthread_mutex_unlock after cmalloc_initialize_span.
ReleaseInit(t) ==
  /\ pc[t] = "m_unlock"
  /\ Unlock
  /\ Goto(t, IF cls[t] = LARGE THEN "m_load" ELSE "m_push")
  /\ UNCHANGED <<binVars, blockVars, poolVars, cls, span, ptr, reg, held>>

\* bin_push of the fresh span.
PushFresh(t) ==
  /\ pc[t] = "m_push"
  /\ BinPush(t, cls[t], span[t])
  /\ Goto(t, "m_load")
  /\ UNCHANGED <<blockVars, poolVars, lock, cls, span, ptr, reg, held>>

-----------------------------------------------------------------------------
(* cfree                                                                   *)

\* A span that was full goes back on the bin.
CheckFull(t) ==
  /\ pc[t] = "f_check"
  /\ IF Full(span[t]) THEN BinPush(t, cls[t], span[t]) ELSE UNCHANGED binVars
  /\ Goto(t, "f_load")
  /\ UNCHANGED <<blockVars, poolVars, lock, cls, span, ptr, reg, held>>

\* free_block: loads, then stores.
LoadFree(t) ==
  LET s == span[t]
      b == ptr[t][2]
  IN /\ pc[t] = "f_load"
     /\ reg' = [reg EXCEPT ![t] = [count |-> free_count[s] + 1,
                                   bits  |-> free[s] \cup {b},
                                   block |-> b]]
     /\ Goto(t, "f_store")
     /\ UNCHANGED <<binVars, blockVars, poolVars, lock, cls, span, ptr, held>>

StoreFree(t) ==
  /\ pc[t] = "f_store"
  /\ StoreReg(t)
  /\ Goto(t, "f_empty")
  /\ UNCHANGED <<binVars, poolVars, lock, cls, span, ptr, held>>

\* A span whose blocks are all free leaves the bin, and goes to the pool.
CheckEmpty(t) ==
  LET s == span[t]
  IN /\ pc[t] = "f_empty"
     /\ IF Empty(s)
          THEN /\ BinRemove(t, cls[t], s)
               /\ Goto(t, "f_lock")
               /\ UNCHANGED <<cls, span, ptr>>
          ELSE Return(t) /\ UNCHANGED binVars
     /\ UNCHANGED <<blockVars, poolVars, lock, reg, held>>

\* cmalloc_cache_span, under the lock.
CacheSpan(t) ==
  /\ pc[t] = "f_cache"
  /\ pool' = pool \cup {span[t]}
  /\ owner' = [owner EXCEPT ![span[t]] = NULL]
  /\ Goto(t, "f_unlock")
  /\ UNCHANGED <<binVars, blockVars, size_class_index, lock, cls, span, ptr,
                 reg, held>>

ReleaseCache(t) ==
  /\ pc[t] = "f_unlock"
  /\ Unlock
  /\ Return(t)
  /\ UNCHANGED <<binVars, blockVars, poolVars, reg, held>>

-----------------------------------------------------------------------------

Call(t) ==
  \/ \E c \in Classes : Cmalloc(t, c)
  \/ \E u \in Threads : \E b \in held[u] :
       Cfree(t, b) \/ \E c \in Classes : Crealloc(t, b, c)

\* The function of thread t returns.  Its bins go with the thread, and nothing
\* is done with the spans on them: the library has no destructor for a thread.
Exit(t) ==
  /\ ThreadsExit
  /\ pc[t] = "idle"
  /\ Goto(t, "ended")
  /\ thread_local_bin' = [thread_local_bin EXCEPT ![t] = [c \in SizeClasses |-> NULL]]
  /\ UNCHANGED <<next, prev, blockVars, poolVars, lock, cls, span, ptr, reg, held>>

\* The rest of a call, from its entry to its return.
Run(t) ==
  \/ ReallocCheck(t)
  \/ CheckLast(t) \/ LoadBlock(t) \/ StoreBlock(t)
  \/ FindSpan(t) \/ InitializeSpan(t) \/ OutOfMemory(t) \/ ReleaseInit(t) \/ PushFresh(t)
  \/ CheckFull(t) \/ LoadFree(t) \/ StoreFree(t) \/ CheckEmpty(t)
  \/ CacheSpan(t) \/ ReleaseCache(t)

\* The process, or every thread of it, has ended; nothing more happens.
Aborted == \E t \in Threads : pc[t] = "aborted"
AllEnded == \A t \in Threads : pc[t] = "ended"

Terminated == (Aborted \/ AllEnded) /\ UNCHANGED vars

Next ==
  \/ \E t \in Threads : Call(t) \/ Run(t) \/ Acquire(t) \/ Exit(t)
  \/ Terminated

Spec == Init /\ [][Next]_vars

\* The scheduler runs every thread that can run.  glibc's mutex gives no
\* bound on overtaking, but a waiter is woken at every unlock: a thread that
\* waits while the lock is free again and again gets it in the end.
FairSpec ==
  /\ Spec
  /\ \A t \in Threads : WF_vars(Run(t))
  /\ \A t \in Threads : SF_vars(Acquire(t))

-----------------------------------------------------------------------------
(* Properties                                                              *)

Labels == {"idle", "r_check", "m_check", "m_load", "m_store", "m_lock",
           "m_find", "m_init", "m_unlock", "m_push", "f_check", "f_load", "f_store",
           "f_empty", "f_lock", "f_cache", "f_unlock", "aborted", "ended"}

\* The types of the variables.
TypeOK ==
  /\ thread_local_bin \in [Threads -> [SizeClasses -> Spans \cup {NULL}]]
  /\ next \in [Spans -> Spans \cup {NULL}]
  /\ prev \in [Spans -> Spans \cup {NULL}]
  /\ size_class_index \in [Spans -> Classes]
  /\ free_count \in [Spans -> Int]
  /\ free \in [Spans -> SUBSET BlockIndices]
  /\ pool \in SUBSET Spans
  /\ lock \in Threads \cup {NULL}
  /\ pc \in [Threads -> Labels]
  /\ cls \in [Threads -> Classes]
  /\ span \in [Threads -> Spans \cup {NULL}]
  /\ ptr \in [Threads -> Blocks \cup {NULL}]
  /\ reg \in [Threads -> [count : Int, bits : SUBSET BlockIndices,
                       block : BlockIndices]]
  /\ held \in [Threads -> SUBSET Blocks]
  /\ owner \in [Spans -> Threads \cup {NULL}]

HeldBlocks == UNION {held[t] : t \in Threads}

\* The block thread t is about to return from allocate_block.
Offered(t) == <<span[t], reg[t].block>>

\* No block is handed out twice: a block that cmalloc or crealloc is about to
\* return is held by no thread, is not being offered to another thread, and is
\* not the argument of a cfree or crealloc that has not finished with it.
NoDoubleHandout ==
  \A t \in Threads :
    pc[t] = "m_store" =>
      /\ Offered(t) \notin HeldBlocks
      /\ \A u \in Threads \ {t} :
           /\ pc[u] = "m_store" => Offered(u) # Offered(t)
           /\ pc[u] \in {"f_check", "f_load", "f_store"} => ptr[u] # Offered(t)

\* cmalloc finds a free block in every span it takes from a bin or from the
\* pool, so it never returns NULL (the symptom bench/xthread_repro.c counts).
NoSpuriousNull ==
  \A t \in Threads : pc[t] = "m_load" => free[span[t]] # {}

\* The blocks of s that cfree has taken from the program and not yet marked.
BeingFreed(s) ==
  {ptr[t][2] : t \in
     {u \in Threads :
        /\ ptr[u] # NULL
        /\ ptr[u][1] = s
        /\ pc[u] \in IF size_class_index[s] = LARGE THEN {"f_lock", "f_cache"}
                     ELSE {"f_check", "f_load", "f_store"}}}

HeldOf(s) == {b[2] : b \in {x \in HeldBlocks : x[1] = s}}

\* In a span that is in use every block is free, held, or on its way from one
\* to the other, no block is two of these, and free_count is the number of
\* free blocks: no update of a span's bookkeeping is lost.
BlocksAccounted ==
  ~Aborted => \A s \in Spans \ pool :
    /\ free[s] \cup HeldOf(s) \cup BeingFreed(s) = AllBlocks(s)
    /\ free[s] \cap HeldOf(s) = {}
    /\ free[s] \cap BeingFreed(s) = {}
    /\ HeldOf(s) \cap BeingFreed(s) = {}
    /\ free_count[s] = Cardinality(free[s])

\* The spans reached from the head of a bin in at most n links.
Walk(t, c) ==
  LET walk[n \in Nat] ==
        IF n = 0 THEN {thread_local_bin[t][c]} \ {NULL}
        ELSE walk[n-1] \cup ({next[s] : s \in walk[n-1]} \ {NULL})
  IN walk[Cardinality(Spans)]

\* Between two calls of a thread each of its bins links exactly its own spans
\* of that class that have both free blocks and blocks in use.  So cmalloc
\* never searches a full span, and no span with free blocks is lost to its
\* thread.
BinsExact ==
  \A t \in Threads : pc[t] = "idle" =>
    \A c \in SizeClasses :
      Walk(t, c) = {s \in Spans : /\ owner[s] = t
                                  /\ size_class_index[s] = c
                                  /\ free[s] \notin {{}, AllBlocks(s)}}

\* A thread that ends leaves behind only spans with blocks it never freed: what
\* it did free is in the pool, where other threads find it, or in such a span
\* (cmalloc.c:16, whose bins no other thread reaches).
NothingStranded ==
  ~Aborted => \A s \in Spans \ pool :
    pc[owner[s]] = "ended" => \E b \in held[owner[s]] : b[1] = s

\* A span in the pool is free for alloc_span to split and reuse: no thread
\* holds a block of it, has it on a bin or links to it, and none still works on
\* it but the one that holds the lock.
PooledSpansUnreferenced ==
  \A s \in pool :
    /\ HeldOf(s) = {}
    /\ \A t \in Threads :
         /\ \A c \in SizeClasses : thread_local_bin[t][c] # s
         /\ span[t] = s => lock = t /\ pc[t] \in {"m_init", "f_unlock"}
    /\ \A r \in Spans : next[r] # s /\ prev[r] # s

\* The blocks of Heap are pairs of a span and a block index.
MallocHeap == INSTANCE Heap

\* The front end implements the heap its callers rely on.
ImplementsHeap == MallocHeap!Spec

\* Whoever takes the lock gives it back, on every path through the code.
LockReleased ==
  \A t \in Threads : lock = t ~> (lock # t \/ Aborted)

\* Every call returns: nobody waits for the lock for ever.
CallsReturn ==
  \A t \in Threads : pc[t] # "idle" ~> pc[t] \in {"idle", "ended", "aborted"}

\* When memory runs out in crealloc the program keeps its block and goes on
\* (README.md:166: "OOM leaves the original pointer intact").
ReallocSurvivesOutOfMemory ==
  [][\A t \in Threads :
       pc[t] = "m_find" /\ ptr[t] # NULL => pc'[t] # "aborted"]_vars
=============================================================================
