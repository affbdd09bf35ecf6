------------------------------ MODULE BlockPool ------------------------------
(***************************************************************************)
(* What a span promises the allocator front end (src/src/cmalloc.c): while *)
(* it is open for a size class it is a pool of numbered blocks, each of    *)
(* which is either in the caller's hands or available, and a block that is *)
(* taken was available.  Which available block is taken is left open, and  *)
(* so is everything about bitmaps.  SpanBlocks implements this module.     *)
(***************************************************************************)
EXTENDS Naturals

CONSTANT BlockCounts    \* the block counts a span may be opened with

VARIABLES
  open,    \* the span is in use for a size class
  size,    \* its number of blocks
  live     \* the blocks in the caller's hands

vars == <<open, size, live>>

Init == open = FALSE /\ size = 0 /\ live = {}

Open(n) ==
  /\ ~open
  /\ open' = TRUE
  /\ size' = n
  /\ live' = {}

Take(b) ==
  /\ open
  /\ b \in (0 .. size - 1) \ live
  /\ live' = live \cup {b}
  /\ UNCHANGED <<open, size>>

Give(b) ==
  /\ b \in live
  /\ live' = live \ {b}
  /\ UNCHANGED <<open, size>>

\* The caller closes a span it holds no block of; a one-block span is closed
\* by the free of its block.
Close ==
  /\ open
  /\ live = {} \/ size = 1
  /\ open' = FALSE
  /\ live' = {}
  /\ UNCHANGED size

Next ==
  \/ \E n \in BlockCounts : Open(n)
  \/ \E b \in 0 .. size - 1 : Take(b)
  \/ \E b \in live : Give(b)
  \/ Close

Spec == Init /\ [][Next]_vars
=============================================================================
