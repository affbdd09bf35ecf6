------------------------------- MODULE PageHeap -------------------------------
(***************************************************************************)
(* What the span layer (src/src/span.c) promises the front end: the page   *)
(* runs it hands out never overlap one another while they are in use,      *)
(* each is long enough for its own request, and a run that is given back   *)
(* is gone from use.  Where a run comes from (a bin, a split, a fresh      *)
(* chunk, a mapping of its own) is left open.  SpanPool implements this    *)
(* module.                                                                 *)
(***************************************************************************)
EXTENDS Integers

CONSTANTS
  Handles,      \* what the front end holds a run by
  Pages,        \* the page indices
  PAGE_SIZE,    \* bytes in a page
  Requests      \* the sizes asked for, in bytes

VARIABLE runs   \* the runs in use, <<first page, last page, size asked for>> by handle

Held == DOMAIN runs

PagesIn(r) == r[1] .. r[2]

Init == runs = [h \in {} |-> <<0, 0, 0>>]

Reserve(h, first, last, size) ==
  /\ size <= (last + 1 - first) * PAGE_SIZE
  /\ \A g \in Held : PagesIn(runs[g]) \cap first .. last = {}
  /\ runs' = [g \in Held \cup {h} |-> IF g = h THEN <<first, last, size>> ELSE runs[g]]

Release(h) == runs' = [g \in Held \ {h} |-> runs[g]]

Next ==
  \/ \E h \in Held : Release(h)
  \/ \E h \in Handles \ Held, first, last \in Pages, size \in Requests :
       Reserve(h, first, last, size)

Spec == Init /\ [][Next]_runs
=============================================================================
