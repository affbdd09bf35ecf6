---------------------------- MODULE CmallocTheorems ----------------------------
(***************************************************************************)
(* What the front end guarantees every program that frees a block only in  *)
(* the thread that got it, for all sets of threads and spans, all numbers  *)
(* of size classes and of blocks, with overlapping calls and with threads  *)
(* that end: the invariants of Cmalloc, and that it implements Heap.  All  *)
(* of them follow from SafeInv, which is inductive.                        *)
(***************************************************************************)
EXTENDS CmallocProofs

USE CmallocAssumption

-----------------------------------------------------------------------------
(* SafeInv is an inductive invariant                                       *)

\* Nothing is on a bin at first.
LEMMA InitSafeInv == Init => SafeInv
<1>. SUFFICES ASSUME Init PROVE SafeInv
  OBVIOUS
<1>1. ~Aborted
  BY DEF Init, Aborted
<1>2. CoreInv
  BY DEF Init, CoreInv, PoolInv, ThreadInv, LockOK, OwnerOK, HeldOK, StageOK,
         Working, Freeing, Locked
<1>3. BinInv
  <2>1. Chain(NULL, next, prev, {})
    <3>. DEFINE l == [i \in 1 .. 0 |-> NULL]
    <3>1. l \in [1 .. 0 -> Spans] /\ 0 \in 0 .. Cardinality(Spans)
      BY CardinalitySpans
    <3>2. Lists(l, 0, next, prev, {})
      BY DEF Lists
    <3>. QED  BY <3>1, <3>2 DEF Chain
  <2>2. \A t \in Threads : \A c \in SizeClasses : BinOf(t, c) = {}
    BY DEF Init, BinOf
  <2>. QED  BY <2>1, <2>2 DEF Init, BinInv, BinLinked
<1>. QED  BY <1>1, <1>2, <1>3 DEF SafeInv

\* No thread of a process that has aborted takes a step.
LEMMA AbortedStops ==
  ASSUME NEW t \in Threads, pc[t] = "aborted"
  PROVE  ~(Call(t) \/ Run(t) \/ Acquire(t) \/ Exit(t))
BY DEF Call, Cmalloc, Cfree, Crealloc, MayCall, Run, ReallocCheck, CheckLast, LoadBlock,
       StoreBlock, FindSpan, InitializeSpan, OutOfMemory, ReleaseInit, PushFresh,
       CheckFull, LoadFree, StoreFree, CheckEmpty, CacheSpan, ReleaseCache, Acquire, Exit

LEMMA NextSafeInv ==
  ASSUME ~CrossThreadFrees, TypeInv, SafeInv, [Next]_vars
  PROVE  SafeInv'
<1>1. CASE UNCHANGED vars
  <2>1. /\ UNCHANGED <<thread_local_bin, next, prev, free_count, free, size_class_index, pool>>
        /\ UNCHANGED <<owner, lock, pc, cls, span, ptr, reg, held>>
    BY <1>1 DEF vars, binVars, blockVars, poolVars
  <2>2. \A s \in Spans : SpanInv(s) => SpanInv(s)'
    BY <2>1 DEF SpanInv, BlocksOK, InUseOK, Returning, AllBlocks
  <2>3. \A t \in Threads : ThreadInv(t) => ThreadInv(t)'
    BY <2>1 DEF ThreadInv, LockOK, OwnerOK, HeldOK, StageOK, AllBlocks
  <2>4. \A t \in Threads : \A c \in SizeClasses : BinOf(t, c)' = BinOf(t, c)
    BY <2>1 DEF BinOf, Binned, AllBlocks
  <2>5. CoreInv => CoreInv'
    BY <2>1, <2>2, <2>3 DEF CoreInv, PoolInv
  <2>6. BinInv => BinInv'
    BY <2>1, <2>4 DEF BinInv, BinLinked
  <2>. QED  BY <2>1, <2>5, <2>6 DEF SafeInv, Aborted
<1>2. ASSUME NEW t \in Threads, Call(t) \/ Run(t) \/ Acquire(t) \/ Exit(t)
      PROVE  SafeInv'
  <2>1. ~Aborted
    BY <1>2, AbortedStops DEF SafeInv
  <2>2. CASE OutOfMemory(t)
    BY <2>2 DEF OutOfMemory, SafeInv, Aborted, poolVars
  <2>3. CASE ~OutOfMemory(t)
    <3>1. StepOf(t) /\ CoreInv' /\ BinInv'
      BY <1>2, <2>1, <2>3, StepInv DEF SafeInv
    <3>2. ~Aborted'
      BY <2>1, <3>1 DEF StepOf, Aborted
    <3>. QED  BY <3>1, <3>2 DEF SafeInv
  <2>. QED  BY <2>2, <2>3
<1>. QED  BY <1>1, <1>2 DEF Next, Terminated

\* The inductive invariant: at each place a call can have reached, how far the
\* bookkeeping of its span has come, and which spans each bin links.
THEOREM SpecSafeInv == ASSUME ~CrossThreadFrees PROVE Spec => []SafeInv
<1>1. Init => SafeInv
  BY InitSafeInv
<1>2. TypeInv /\ SafeInv /\ [Next]_vars => SafeInv'
  BY NextSafeInv
<1>3. Spec => []TypeInv
  BY SpecTypeInv
<1>. QED  BY <1>1, <1>2, <1>3, PTL DEF Spec

-----------------------------------------------------------------------------
(* What follows from it                                                    *)

\* A thread in a call, or between calls, is one of a process still running.
LEMMA NotAborted ==
  ASSUME SafeInv, NEW t \in Threads, pc[t] # "aborted"
  PROVE  CoreInv /\ BinInv /\ ThreadInv(t)
BY DEF SafeInv, CoreInv

LEMMA SafeNoDoubleHandout == TypeInv /\ SafeInv => NoDoubleHandout
<1>. SUFFICES ASSUME TypeInv, SafeInv, NEW t \in Threads, pc[t] = "m_store"
              PROVE  /\ Offered(t) \notin HeldBlocks
                     /\ \A u \in Threads \ {t} :
                          /\ pc[u] = "m_store" => Offered(u) # Offered(t)
                          /\ pc[u] \in {"f_check", "f_load", "f_store"} => ptr[u] # Offered(t)
  BY DEF NoDoubleHandout
<1>1. CoreInv /\ \A u \in Threads : ThreadInv(u)
  BY NotAborted DEF CoreInv
<1>2. PICK s \in Spans : s = span[t] /\ owner[s] = t /\ SpanInv(s)
  BY <1>1 DEF TypeInv, FrameOK, CoreInv, PoolInv, ThreadInv, OwnerOK, Working
<1>3. PICK i \in AllBlocks(s) : i = reg[t].block /\ i \in free[s]
  BY <1>1, <1>2 DEF ThreadInv, StageOK, SpanInv, BlocksOK
<1>4. Offered(t) = <<s, i>>
  BY <1>2, <1>3 DEF Offered
<1>5. ASSUME NEW u \in Threads PROVE <<s, i>> \notin held[u]
  <2>1. CASE u = t
    BY <1>2, <1>3, <2>1 DEF SpanInv, BlocksOK
  <2>2. CASE u # t
    BY <1>1, <1>2, <2>2 DEF ThreadInv, HeldOK
  <2>. QED  BY <2>1, <2>2
<1>6. ASSUME NEW u \in Threads \ {t}
      PROVE  /\ pc[u] = "m_store" => Offered(u) # <<s, i>>
             /\ pc[u] \in {"f_check", "f_load", "f_store"} => ptr[u] # <<s, i>>
  <2>1. pc[u] \in {"m_store", "f_check", "f_load", "f_store"} => span[u] # s
    BY <1>1, <1>2 DEF ThreadInv, OwnerOK, Working
  <2>2. pc[u] \in {"f_check", "f_load", "f_store"} => ptr[u][1] = span[u]
    BY <1>1 DEF ThreadInv, HeldOK, Freeing
  <2>. QED  BY <2>1, <2>2 DEF Offered
<1>. QED  BY <1>4, <1>5, <1>6 DEF HeldBlocks

LEMMA SafeNoSpuriousNull == SafeInv => NoSpuriousNull
BY NotAborted DEF NoSpuriousNull, ThreadInv, StageOK

\* The sets the properties are stated with, in the terms of the invariant.
LEMMA HeldOfOwner ==
  ASSUME TypeInv, CoreInv, NEW s \in Spans
  PROVE  /\ owner[s] = NULL => HeldOf(s) = {}
         /\ owner[s] # NULL => HeldOf(s) = {i \in AllBlocks(s) : <<s, i>> \in held[owner[s]]}
<1>1. ASSUME NEW t \in Threads, NEW b \in held[t], b[1] = s
      PROVE  owner[s] = t /\ b[2] \in AllBlocks(s) /\ b = <<s, b[2]>>
  BY <1>1 DEF CoreInv, ThreadInv, HeldOK, TypeInv, TypeOK, Blocks
<1>2. owner[s] = NULL => HeldOf(s) = {}
  BY <1>1 DEF HeldOf, HeldBlocks
<1>3. ASSUME owner[s] # NULL
      PROVE  HeldOf(s) = {i \in AllBlocks(s) : <<s, i>> \in held[owner[s]]}
  <2>1. owner[s] \in Threads
    BY <1>3 DEF TypeInv, TypeOK
  <2>2. ASSUME NEW i \in HeldOf(s) PROVE i \in AllBlocks(s) /\ <<s, i>> \in held[owner[s]]
    <3>1. PICK t \in Threads : \E b \in held[t] : b[1] = s /\ b[2] = i
      BY DEF HeldOf, HeldBlocks
    <3>. QED  BY <1>1, <3>1
  <2>3. ASSUME NEW i \in AllBlocks(s), <<s, i>> \in held[owner[s]] PROVE i \in HeldOf(s)
    <3>1. <<s, i>> \in HeldBlocks
      BY <2>1, <2>3 DEF HeldBlocks
    <3>2. <<s, i>>[1] = s /\ <<s, i>>[2] = i
      OBVIOUS
    <3>. QED  BY <3>1, <3>2 DEF HeldOf
  <2>. QED  BY <2>2, <2>3
<1>. QED  BY <1>2, <1>3

LEMMA BeingFreedByOwner ==
  ASSUME TypeInv, CoreInv, NEW s \in Spans, owner[s] # NULL
  PROVE  BeingFreed(s) = {i \in AllBlocks(s) : Returning(owner[s], <<s, i>>)}
<1>1. owner[s] \in Threads
  BY DEF TypeInv, TypeOK
<1>. DEFINE places == IF size_class_index[s] = LARGE THEN {"f_lock", "f_cache"}
                      ELSE {"f_check", "f_load", "f_store"}
<1>2. ASSUME NEW i \in BeingFreed(s)
      PROVE  i \in AllBlocks(s) /\ Returning(owner[s], <<s, i>>)
  <2>1. PICK u \in Threads : /\ ptr[u] # NULL /\ ptr[u][1] = s /\ pc[u] \in places
                             /\ i = ptr[u][2]
    BY DEF BeingFreed
  <2>2. /\ ThreadInv(u) /\ pc[u] \in Freeing /\ pc[u] \in Working /\ ptr[u] = <<s, i>>
        /\ span[u] = s
    BY <2>1 DEF CoreInv, ThreadInv, HeldOK, Freeing, Working, TypeInv, TypeOK, Blocks
  <2>3. owner[s] = u /\ size_class_index[s] = cls[u] /\ i \in AllBlocks(s)
    BY <2>1, <2>2 DEF ThreadInv, OwnerOK, HeldOK
  <2>. QED  BY <2>1, <2>2, <2>3 DEF Returning
<1>3. ASSUME NEW i \in AllBlocks(s), Returning(owner[s], <<s, i>>) PROVE i \in BeingFreed(s)
  <2>1. PICK u \in Threads : u = owner[s] /\ ptr[u] = <<s, i>>
    BY <1>1, <1>3 DEF Returning
  <2>2. pc[u] \in Freeing /\ pc[u] \in Working
    BY <1>3, <2>1 DEF Returning, Freeing, Working
  <2>3. span[u] = s /\ size_class_index[s] = cls[u]
    BY <2>1, <2>2 DEF CoreInv, ThreadInv, OwnerOK, HeldOK
  <2>4. pc[u] \in {"f_check", "f_load", "f_store"} => cls[u] # LARGE
    BY ClassesTyped DEF TypeInv, FrameOK
  <2>5. pc[u] \in places /\ ptr[u][1] = s /\ ptr[u][2] = i
    BY <1>3, <2>1, <2>3, <2>4 DEF Returning
  <2>6. ptr[u] # NULL
    BY <2>1, <2>2, NullNoBlock DEF Freeing, TypeInv, FrameOK
  <2>. QED  BY <2>5, <2>6 DEF BeingFreed
<1>. QED  BY <1>2, <1>3

LEMMA SafeBlocksAccounted == TypeInv /\ SafeInv => BlocksAccounted
<1>. SUFFICES ASSUME TypeInv, SafeInv, ~Aborted, NEW s \in Spans \ pool
              PROVE  /\ free[s] \cup HeldOf(s) \cup BeingFreed(s) = AllBlocks(s)
                     /\ free[s] \cap HeldOf(s) = {}
                     /\ free[s] \cap BeingFreed(s) = {}
                     /\ HeldOf(s) \cap BeingFreed(s) = {}
                     /\ free_count[s] = Cardinality(free[s])
  BY DEF BlocksAccounted
<1>1. CoreInv /\ BlocksOK(s) /\ owner[s] # NULL
  BY DEF SafeInv, CoreInv, PoolInv, SpanInv
<1>2. HeldOf(s) = {i \in AllBlocks(s) : <<s, i>> \in held[owner[s]]}
  BY <1>1, HeldOfOwner
<1>3. BeingFreed(s) = {i \in AllBlocks(s) : Returning(owner[s], <<s, i>>)}
  BY <1>1, BeingFreedByOwner
<1>. QED  BY <1>1, <1>2, <1>3 DEF BlocksOK

LEMMA SafeNothingStranded == TypeInv /\ SafeInv => NothingStranded
<1>. SUFFICES ASSUME TypeInv, SafeInv, ~Aborted, NEW s \in Spans \ pool, pc[owner[s]] = "ended"
              PROVE  \E b \in held[owner[s]] : b[1] = s
  BY DEF NothingStranded
<1>1. CoreInv /\ SpanInv(s) /\ owner[s] \in Threads
  BY DEF SafeInv, CoreInv, PoolInv, TypeInv, TypeOK
<1>2. free[s] # AllBlocks(s)
  BY <1>1 DEF SpanInv, InUseOK, Vacant
<1>3. PICK i \in AllBlocks(s) : i \notin free[s]
  BY <1>1, <1>2 DEF SpanInv, BlocksOK
<1>4. ~Returning(owner[s], <<s, i>>)
  BY DEF Returning
<1>5. <<s, i>> \in held[owner[s]]
  BY <1>1, <1>3, <1>4 DEF SpanInv, BlocksOK
<1>6. <<s, i>>[1] = s
  OBVIOUS
<1>. QED  BY <1>5, <1>6

LEMMA SafePooledSpans == TypeInv /\ SafeInv => PooledSpansUnreferenced
<1>. SUFFICES ASSUME TypeInv, SafeInv, NEW s \in pool
              PROVE  /\ HeldOf(s) = {}
                     /\ \A t \in Threads :
                          /\ \A c \in SizeClasses : thread_local_bin[t][c] # s
                          /\ span[t] = s => lock = t /\ pc[t] \in {"m_init", "f_unlock"}
                     /\ \A r \in Spans : next[r] # s /\ prev[r] # s
  BY DEF PooledSpansUnreferenced
<1>1. s \in Spans /\ CoreInv /\ BinInv /\ owner[s] = NULL /\ s # NULL
      /\ \A t \in Threads : pc[t] # "aborted"
  BY DEF SafeInv, Aborted, CoreInv, PoolInv, TypeInv, TypeOK
<1>2. HeldOf(s) = {}
  BY <1>1, HeldOfOwner
<1>3. \A t \in Threads : \A c \in SizeClasses : s \notin BinOf(t, c)
  BY <1>1 DEF BinOf
<1>4. ASSUME NEW t \in Threads
      PROVE  /\ \A c \in SizeClasses : thread_local_bin[t][c] # s
             /\ span[t] = s => lock = t /\ pc[t] \in {"m_init", "f_unlock"}
  <2>1. \A c \in SizeClasses : thread_local_bin[t][c] # s
    BY <1>1, <1>3, HeadBinned
  <2>2. ASSUME span[t] = s PROVE pc[t] \in {"m_init", "f_unlock"}
    <3>1. pc[t] \notin Working
      BY <1>1, <2>2 DEF CoreInv, ThreadInv, OwnerOK
    <3>2. pc[t] \notin {"idle", "ended", "r_check", "m_lock", "m_find"}
      BY <1>1, <2>2 DEF CoreInv, ThreadInv, OwnerOK
    <3>. QED  BY <1>1, <3>1, <3>2 DEF Working, TypeInv, TypeOK, Labels
  <2>3. pc[t] \in {"m_init", "f_unlock"} => lock = t
    BY <1>1 DEF CoreInv, ThreadInv, LockOK, Locked
  <2>. QED  BY <2>1, <2>2, <2>3
<1>5. ASSUME NEW r \in Spans PROVE next[r] # s /\ prev[r] # s
  <2>1. ASSUME NEW t \in Threads, NEW c \in SizeClasses, r \in BinOf(t, c)
        PROVE  next[r] # s /\ prev[r] # s
    <3>1. PICK h \in Spans \cup {NULL} : Chain(h, next, prev, BinOf(t, c))
      BY <1>1 DEF BinInv, BinLinked
    <3>. QED  BY <1>1, <1>3, <2>1, <3>1, ChainFacts
  <2>. QED  BY <1>1, <2>1 DEF BinInv
<1>. QED  BY <1>2, <1>4, <1>5

-----------------------------------------------------------------------------
(* Walking a bin                                                           *)

\* The least number with a property; induction on Nat, stated with a set.
LEMMA NatSetInduction ==
  ASSUME NEW T \in SUBSET Nat, 0 \in T, \A k \in Nat : k \in T => k + 1 \in T
  PROVE  T = Nat
<1>. DEFINE R == {ss \in Nat \X Nat : ss[1] < ss[2]}
<1>1. IsWellFoundedOn(R, Nat)
  BY NatLessThanWellFounded DEF OpToRel
<1>2. SUFFICES ASSUME Nat \ T # {} PROVE FALSE
  OBVIOUS
<1>3. PICK m \in Nat \ T : \A j \in Nat \ T : <<j, m>> \notin R
  <2>. HIDE DEF R
  <2>. QED  BY <1>1, <1>2, WFMin
<1>4. m - 1 \in Nat /\ m = (m - 1) + 1 /\ m - 1 < m
  BY <1>3
<1>5. m - 1 \notin T
  BY <1>3, <1>4
<1>6. <<m - 1, m>> \in R
  BY <1>4
<1>. QED  BY <1>3, <1>4, <1>5, <1>6

\* From the head of a bin, the links lead to exactly the spans it chains.
LEMMA WalkChain ==
  ASSUME NEW t \in Threads, NEW c \in SizeClasses, NEW S,
         Chain(thread_local_bin[t][c], next, prev, S)
  PROVE  Walk(t, c) = S
<1>1. PICK n \in 0 .. Cardinality(Spans) : \E l \in [1 .. n -> Spans] :
        /\ Lists(l, n, next, prev, S)
        /\ thread_local_bin[t][c] = IF n = 0 THEN NULL ELSE l[1]
  BY DEF Chain
<1>2. PICK l \in [1 .. n -> Spans] :
        /\ Lists(l, n, next, prev, S)
        /\ thread_local_bin[t][c] = IF n = 0 THEN NULL ELSE l[1]
  BY <1>1
<1>3. n \in Nat
  BY CardinalitySpans
<1>. DEFINE first(k) == {l[i] : i \in {j \in 1 .. n : j <= k + 1}}
            start == {thread_local_bin[t][c]} \ {NULL}
            further(V) == V \cup ({next[s] : s \in V} \ {NULL})
<1>4. first(0) = start
  BY <1>2, <1>3
<1>5. ASSUME NEW k \in Nat PROVE first(k + 1) = further(first(k))
  <2>1. ASSUME NEW x \in first(k + 1) PROVE x \in further(first(k))
    <3>1. PICK i \in 1 .. n : i <= k + 2 /\ x = l[i]
      BY <1>3
    <3>2. CASE i <= k + 1
      BY <3>1, <3>2
    <3>3. CASE ~(i <= k + 1)
      <4>1. PICK j \in 1 .. n : i = j + 1 /\ j <= k + 1
        BY <1>3, <3>1, <3>3
      <4>2. l[j] \in first(k) /\ next[l[j]] = x /\ x # NULL
        BY <1>2, <1>3, <3>1, <4>1 DEF Lists
      <4>. QED  BY <4>2
    <3>. QED  BY <3>2, <3>3
  <2>2. ASSUME NEW x \in further(first(k)) PROVE x \in first(k + 1)
    <3>1. CASE x \in first(k)
      BY <1>3, <3>1
    <3>2. CASE x \notin first(k)
      <4>1. PICK i \in 1 .. n : i <= k + 1 /\ x = next[l[i]] /\ x # NULL
        BY <3>2
      <4>2. i # n /\ x = l[i + 1]
        BY <1>2, <4>1 DEF Lists
      <4>3. i + 1 \in 1 .. n /\ i + 1 <= (k + 1) + 1
        BY <1>3, <4>1, <4>2
      <4>. QED  BY <4>2, <4>3
    <3>. QED  BY <3>1, <3>2
  <2>. QED  BY <2>1, <2>2
<1>. DEFINE walk[k \in Nat] ==
              IF k = 0 THEN {thread_local_bin[t][c]} \ {NULL}
              ELSE walk[k-1] \cup ({next[s] : s \in walk[k-1]} \ {NULL})
            body(g) == [k \in Nat |-> IF k = 0 THEN start ELSE further(g[k-1])]
            f == [k \in Nat |-> first(k)]
<1>6. f = body(f)
  <2>1. ASSUME NEW k \in Nat PROVE first(k) = IF k = 0 THEN start ELSE further(f[k-1])
    <3>1. CASE k = 0
      BY <1>4, <3>1
    <3>2. CASE k # 0
      <4>1. k - 1 \in Nat /\ (k - 1) + 1 = k
        BY <3>2
      <4>2. f[k - 1] = first(k - 1)
        BY <4>1
      <4>3. first((k - 1) + 1) = further(first(k - 1))
        BY <1>5, <4>1
      <4>. QED  BY <3>2, <4>1, <4>2, <4>3
    <3>. QED  BY <3>1, <3>2
  <2>. QED  BY <2>1
<1>7. walk = CHOOSE g : g = body(g)
  OBVIOUS
<1>. HIDE DEF first, start, further, walk
<1>8. walk = body(walk)
  <2>. HIDE DEF body, f
  <2>. QED  BY <1>6, <1>7, Zenon
<1>9. walk[0] = start /\ \A k \in Nat : walk[k + 1] = further(walk[k])
  <2>1. \A k \in Nat : walk[k] = IF k = 0 THEN start ELSE further(walk[k-1])
    BY <1>8
  <2>2. ASSUME NEW k \in Nat PROVE walk[k + 1] = further(walk[k])
    <3>1. k + 1 \in Nat /\ k + 1 # 0 /\ (k + 1) - 1 = k
      OBVIOUS
    <3>2. walk[k + 1] = IF k + 1 = 0 THEN start ELSE further(walk[(k + 1) - 1])
      BY <2>1, <3>1
    <3>. QED  BY <3>1, <3>2
  <2>. QED  BY <2>1, <2>2
<1>10. \A k \in Nat : walk[k] = first(k)
  <2>. DEFINE T == {k \in Nat : walk[k] = first(k)}
  <2>1. 0 \in T
    BY <1>4, <1>9
  <2>2. ASSUME NEW k \in Nat, k \in T PROVE k + 1 \in T
    <3>1. walk[k + 1] = further(walk[k]) /\ walk[k] = first(k) /\ first(k + 1) = further(first(k))
      BY <1>5, <1>9, <2>2
    <3>. QED  BY <3>1
  <2>3. T \in SUBSET Nat
    OBVIOUS
  <2>. HIDE DEF T
  <2>4. T = Nat
    BY <2>1, <2>2, <2>3, NatSetInduction
  <2>. QED  BY <2>4 DEF T
<1>11. first(Cardinality(Spans)) = S
  <2>1. \A i \in 1 .. n : i <= Cardinality(Spans) + 1
    BY <1>3, CardinalitySpans
  <2>. QED  BY <1>2, <2>1 DEF first, Lists
<1>12. Walk(t, c) = walk[Cardinality(Spans)]
  BY DEF Walk, walk
<1>. QED  BY <1>10, <1>11, <1>12, CardinalitySpans

LEMMA SafeBinsExact == TypeInv /\ SafeInv => BinsExact
<1>. SUFFICES ASSUME TypeInv, SafeInv, NEW t \in Threads, pc[t] = "idle", NEW c \in SizeClasses
              PROVE  Walk(t, c) = {s \in Spans : /\ owner[s] = t
                                                 /\ size_class_index[s] = c
                                                 /\ free[s] \notin {{}, AllBlocks(s)}}
  BY DEF BinsExact
<1>1. BinLinked(t, c)
  BY NotAborted DEF BinInv
<1>2. Chain(thread_local_bin[t][c], next, prev, BinOf(t, c))
  BY <1>1 DEF BinLinked
<1>3. Walk(t, c) = BinOf(t, c)
  BY <1>2, WalkChain
<1>4. \A s \in Spans : owner[s] = t => (Binned(s) <=> free[s] \notin {{}, AllBlocks(s)})
  BY BinnedAt DEF Updating
<1>. QED  BY <1>3, <1>4 DEF BinOf

-----------------------------------------------------------------------------
(* Refinement of Heap                                                      *)

\* The program's view of a step: a block handed out, given back, exchanged for
\* another, or nothing.
LEMMA NextHeap ==
  ASSUME ~CrossThreadFrees, TypeInv, SafeInv, [Next]_vars
  PROVE  [MallocHeap!Next]_held
<1>. USE DEF TypeInv, TypeOK
<1>1. ASSUME NEW t \in Threads, Call(t) \/ Run(t) \/ Acquire(t) \/ Exit(t)
      PROVE  UNCHANGED held \/ MallocHeap!Free(t) \/ MallocHeap!Allocate(t)
                            \/ MallocHeap!Reallocate(t)
  <2>1. pc[t] # "aborted" /\ CoreInv /\ \A u \in Threads : ThreadInv(u)
    BY <1>1, AbortedStops, NotAborted DEF CoreInv
  <2>2. \A u \in Threads \ {t} : held[u] \cap held[t] = {}
    <3>1. \A u \in Threads : \A b \in held[u] : owner[b[1]] = u
      BY <2>1 DEF ThreadInv, HeldOK
    <3>2. \A u \in Threads \ {t} : \A b \in held[u] : b \notin held[t]
      BY <3>1
    <3>. QED  BY <3>2
  <2>3. ASSUME NEW b \in Blocks, Cfree(t, b) PROVE MallocHeap!Free(t)
    <3>1. b \in held[t] /\ held' = [u \in Threads |-> held[u] \ {b}]
      BY <2>3 DEF Cfree, MayPass
    <3>2. held' = [held EXCEPT ![t] = @ \ {b}]
      <4>1. \A u \in Threads \ {t} : held[u] \ {b} = held[u]
        BY <2>2, <3>1
      <4>. QED  BY <3>1, <4>1
    <3>. QED  BY <3>1, <3>2 DEF MallocHeap!Free
  <2>4. CASE StoreBlock(t)
    <3>. DEFINE b == <<span[t], reg[t].block>>
    <3>1. pc[t] = "m_store" /\ span[t] \in Spans /\ b \in Blocks
      BY <2>4 DEF StoreBlock, FrameOK, Blocks
    <3>2. b \in MallocHeap!Available
      BY <3>1, SafeNoDoubleHandout DEF NoDoubleHandout, HeldBlocks, Offered, MallocHeap!Available
    <3>3. CASE ptr[t] = NULL
      <4>1. held' = [held EXCEPT ![t] = @ \cup {b}]
        BY <2>4, <3>3 DEF StoreBlock
      <4>. QED  BY <3>2, <4>1 DEF MallocHeap!Allocate
    <3>4. CASE ptr[t] # NULL
      <4>1. ptr[t] \in held[t]
        BY <2>1, <3>1, <3>4 DEF ThreadInv, HeldOK, Freeing
      <4>2. held' = [u \in Threads |-> (held[u] \ {ptr[t]}) \cup (IF u = t THEN {b} ELSE {})]
        BY <2>4, <3>4 DEF StoreBlock
      <4>3. held' = [held EXCEPT ![t] = (@ \ {ptr[t]}) \cup {b}]
        <5>1. \A u \in Threads \ {t} : (held[u] \ {ptr[t]}) \cup {} = held[u]
          BY <2>2, <4>1
        <5>. QED  BY <4>2, <5>1
      <4>. QED  BY <3>2, <4>1, <4>3 DEF MallocHeap!Reallocate
    <3>. QED  BY <3>3, <3>4
  <2>5. CASE Call(t)
    BY <2>3, <2>5 DEF Call, Cmalloc, Crealloc
  <2>6. CASE Run(t) /\ ~StoreBlock(t)
    BY <2>6 DEF Run, ReallocCheck, CheckLast, LoadBlock, FindSpan, InitializeSpan,
                OutOfMemory, ReleaseInit, PushFresh, CheckFull, LoadFree, StoreFree,
                CheckEmpty, CacheSpan, ReleaseCache
  <2>7. CASE Acquire(t) \/ Exit(t)
    BY <2>7 DEF Acquire, Exit
  <2>. QED  BY <1>1, <2>4, <2>5, <2>6, <2>7
<1>2. UNCHANGED vars => UNCHANGED held
  BY DEF vars
<1>. QED  BY <1>1, <1>2 DEF Next, Terminated, MallocHeap!Next

-----------------------------------------------------------------------------
(* The theorems                                                            *)

\* cmalloc and crealloc never return a block that someone holds, is being
\* offered or is still being freed: the unlocked loads and stores of
\* allocate_block and free_block stay within spans of one thread.
THEOREM SpecNoDoubleHandout == ASSUME ~CrossThreadFrees PROVE Spec => []NoDoubleHandout
<1>1. TypeInv /\ SafeInv => NoDoubleHandout
  BY SafeNoDoubleHandout
<1>. QED  BY <1>1, SpecTypeInv, SpecSafeInv, PTL

\* allocate_block always finds a free block in the span cmalloc chose, so
\* cmalloc never returns NULL for want of one.
THEOREM SpecNoSpuriousNull == ASSUME ~CrossThreadFrees PROVE Spec => []NoSpuriousNull
<1>1. TypeInv /\ SafeInv => NoSpuriousNull
  BY SafeNoSpuriousNull
<1>. QED  BY <1>1, SpecTypeInv, SpecSafeInv, PTL

\* Every block of a span in use is free, held or on its way back, exactly one of
\* these, and free_count counts the free ones: no update of a span is lost.
THEOREM SpecBlocksAccounted == ASSUME ~CrossThreadFrees PROVE Spec => []BlocksAccounted
<1>1. TypeInv /\ SafeInv => BlocksAccounted
  BY SafeBlocksAccounted
<1>. QED  BY <1>1, SpecTypeInv, SpecSafeInv, PTL

\* bin_push and bin_remove, called where cmalloc and cfree call them, keep on
\* each bin exactly the spans with both free blocks and blocks in use.
THEOREM SpecBinsExact == ASSUME ~CrossThreadFrees PROVE Spec => []BinsExact
<1>1. TypeInv /\ SafeInv => BinsExact
  BY SafeBinsExact
<1>. QED  BY <1>1, SpecTypeInv, SpecSafeInv, PTL

\* A thread that ends leaves no span behind but those with blocks it still holds.
THEOREM SpecNothingStranded == ASSUME ~CrossThreadFrees PROVE Spec => []NothingStranded
<1>1. TypeInv /\ SafeInv => NothingStranded
  BY SafeNothingStranded
<1>. QED  BY <1>1, SpecTypeInv, SpecSafeInv, PTL

\* Nothing refers to a span that cmalloc_cache_span has given back, but the
\* holder of the lock.
THEOREM SpecPooledSpansUnreferenced == ASSUME ~CrossThreadFrees PROVE Spec => []PooledSpansUnreferenced
<1>1. TypeInv /\ SafeInv => PooledSpansUnreferenced
  BY SafePooledSpans
<1>. QED  BY <1>1, SpecTypeInv, SpecSafeInv, PTL

\* The front end implements Heap: a block returned is in nobody's hands, and
\* only its holder's cfree or crealloc takes it away.
THEOREM SpecImplementsHeap == ASSUME ~CrossThreadFrees PROVE Spec => ImplementsHeap
<1>1. Init => MallocHeap!Init
  BY DEF Init, MallocHeap!Init
<1>2. TypeInv /\ SafeInv /\ [Next]_vars => [MallocHeap!Next]_held
  BY NextHeap
<1>. QED  BY <1>1, <1>2, SpecTypeInv, SpecSafeInv, PTL
     DEF Spec, ImplementsHeap, MallocHeap!Spec
=============================================================================
