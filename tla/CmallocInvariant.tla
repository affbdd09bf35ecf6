--------------------------- MODULE CmallocInvariant ---------------------------
(***************************************************************************)
(* The inductive invariant of the front end for programs that free blocks  *)
(* only in the thread that got them (CrossThreadFrees = FALSE).  It says,  *)
(* for each place a call can have reached, how far the bookkeeping of the  *)
(* span it works on has come, so that the invariants of Cmalloc follow and *)
(* each step preserves it.  CmallocProofs proves that it does.             *)
(***************************************************************************)
EXTENDS Cmalloc

\* A thread at one of these places works on span[t], a span of its own.
Working == {"m_check", "m_load", "m_store", "m_unlock", "m_push", "f_check",
            "f_load", "f_store", "f_empty", "f_lock", "f_cache"}

\* At these it gives ptr[t] back, a block of span[t].
Freeing == {"f_check", "f_load", "f_store", "f_empty", "f_lock", "f_cache"}

\* At these it holds the lock.
Locked == {"m_find", "m_init", "m_unlock", "f_cache", "f_unlock"}

\* Between bin_push or bin_remove and the update of the span's blocks.
Updating == {"m_load", "m_store", "f_load", "f_store", "f_empty"}

\* At these span[t] may have no block in use.
Vacant == {"m_unlock", "m_push", "m_load", "m_store", "f_empty", "f_lock", "f_cache"}

\* At most one thread is between lock and unlock.
LockOK(t) == pc[t] \in Locked => lock = t

\* A call works on spans of its own thread only, or, under the lock, on one of
\* the pool.
OwnerOK(t) ==
  /\ pc[t] \in Working => owner[span[t]] = t /\ size_class_index[span[t]] = cls[t]
  /\ pc[t] \in {"m_init", "f_unlock"} => span[t] \in pool
  /\ pc[t] \in {"idle", "ended", "r_check", "m_lock", "m_find"} => span[t] = NULL

\* The blocks in the program's hands are blocks of the thread's own spans, and
\* so is the argument of a call; crealloc keeps its block until it has a new one.
HeldOK(t) ==
  /\ \A b \in held[t] : owner[b[1]] = t /\ b[2] \in AllBlocks(b[1])
  /\ pc[t] \in {"idle", "ended"} => ptr[t] = NULL
  /\ pc[t] \in Freeing => ptr[t][1] = span[t] /\ ptr[t][2] \in AllBlocks(span[t])
  /\ pc[t] \notin Freeing \cup {"f_unlock"} /\ ptr[t] # NULL => ptr[t] \in held[t]

\* What the free blocks of span[t] are at each place, and that the values in
\* reg[t] are still those of the span.
StageOK(t) ==
  /\ pc[t] \in {"m_check", "m_load"} => free[span[t]] # {}
  /\ pc[t] = "m_store" =>
       /\ reg[t].block \in free[span[t]]
       /\ reg[t].bits = free[span[t]] \ {reg[t].block}
       /\ reg[t].count = free_count[span[t]] - 1
  /\ pc[t] \in {"m_unlock", "m_push"} => free[span[t]] = AllBlocks(span[t])
  /\ pc[t] = "f_store" =>
       /\ reg[t].bits = free[span[t]] \cup {ptr[t][2]}
       /\ reg[t].count = free_count[span[t]] + 1
  /\ pc[t] = "f_empty" => ptr[t][2] \in free[span[t]]
  /\ pc[t] \in {"f_lock", "f_cache"} /\ cls[t] # LARGE
       => free[span[t]] = AllBlocks(span[t])

\* cfree has taken block b from the program and has not marked it free.
Returning(t, b) ==
  /\ ptr[t] = b
  /\ \/ pc[t] \in {"f_check", "f_load", "f_store"}
     \/ pc[t] \in {"f_lock", "f_cache"} /\ cls[t] = LARGE

\* Each block of a span in use is free, held or being returned, and only one
\* of these.
BlocksOK(s) ==
  /\ free[s] \subseteq AllBlocks(s)
  /\ free_count[s] = Cardinality(free[s])
  /\ \A i \in AllBlocks(s) :
       LET b == <<s, i>>
       IN /\ i \in free[s] \/ b \in held[owner[s]] \/ Returning(owner[s], b)
          /\ i \in free[s] => b \notin held[owner[s]] /\ ~Returning(owner[s], b)
          /\ b \in held[owner[s]] => ~Returning(owner[s], b)

\* A span with no block in use is about to be used or about to be given back.
InUseOK(s) ==
  free[s] = AllBlocks(s) => span[owner[s]] = s /\ pc[owner[s]] \in Vacant

\* Span s, of a size class, belongs on a bin of its owner: it has free blocks
\* and blocks in use.  While a block is taken it is there if that is not the
\* last one, and while a block is freed it is there in any case.
Binned(s) ==
  LET t == owner[s]
  IN IF span[t] = s /\ pc[t] \in Updating
       THEN pc[t] \in {"m_load", "m_store"} => free_count[s] # 1
       ELSE free[s] \notin {{}, AllBlocks(s)}

BinOf(t, c) == {s \in Spans : owner[s] = t /\ size_class_index[s] = c /\ Binned(s)}

\* l lists the spans of S once each, in the order of their links.
Lists(l, n, nx, pv, S) ==
  /\ S = {l[i] : i \in 1 .. n}
  /\ \A i, j \in 1 .. n : l[i] = l[j] => i = j
  /\ \A i \in 1 .. n :
       /\ nx[l[i]] = IF i = n THEN NULL ELSE l[i + 1]
       /\ pv[l[i]] = IF i = 1 THEN NULL ELSE l[i - 1]

\* Next and prev links nx and pv chain the spans of S, from the head h.
Chain(h, nx, pv, S) ==
  \E n \in 0 .. Cardinality(Spans) : \E l \in [1 .. n -> Spans] :
    Lists(l, n, nx, pv, S) /\ h = IF n = 0 THEN NULL ELSE l[1]

\* A bin is a doubly linked list of exactly the spans that belong on it.  The
\* bins of a thread that has ended have lost their heads.
BinLinked(t, c) ==
  \E h \in Spans \cup {NULL} :
    /\ Chain(h, next, prev, BinOf(t, c))
    /\ thread_local_bin[t][c] = IF pc[t] = "ended" THEN NULL ELSE h

\* Every bin is linked so, and a span that is on none of them has no links.
BinInv ==
  /\ \A t \in Threads : \A c \in SizeClasses : BinLinked(t, c)
  /\ \A s \in Spans :
       \/ \E t \in Threads : \E c \in SizeClasses : s \in BinOf(t, c)
       \/ next[s] = NULL /\ prev[s] = NULL

ThreadInv(t) == LockOK(t) /\ OwnerOK(t) /\ HeldOK(t) /\ StageOK(t)

SpanInv(s) == BlocksOK(s) /\ InUseOK(s)

\* A span has an owner exactly while it is in use.
PoolInv == \A s \in Spans : s \in pool <=> owner[s] = NULL

CoreInv ==
  /\ PoolInv
  /\ \A t \in Threads : ThreadInv(t)
  /\ \A s \in Spans \ pool : SpanInv(s)

\* A process that has aborted has no span left to give out.
SafeInv ==
  IF Aborted THEN pool = {} /\ \A t \in Threads : pc[t] = "aborted" ELSE CoreInv /\ BinInv
=============================================================================
