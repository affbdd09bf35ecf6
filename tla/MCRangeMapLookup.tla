--------------------------- MODULE MCRangeMapLookup ---------------------------
(***************************************************************************)
(* Two nodes and two or three leaves, so that one is released and recycled *)
(* while a reader walks another.  Two keys share a leaf, a third their     *)
(* node, a fourth lies under the other slot of the root; slot 0, which the *)
(* free list overwrites, is in use at every level.                         *)
(***************************************************************************)
EXTENDS RangeMapLookup, TLC

CONSTANTS r1, r2, n1, n2, l1, l2, l3, s1, s2

TwoReaders  == {r1, r2}
TwoNodes    == {n1, n2}
ThreeLeaves == {l1, l2, l3}
TwoSpans    == {s1, s2}
TwoSlots    == {0, 1}
FourKeys    == {<<0, 0, 0>>, <<0, 0, 1>>, <<0, 1, 0>>, <<1, 0, 0>>}

Symmetric == UNION {Permutations(S) : S \in {Readers, Nodes, Leaves, Spans}}
=============================================================================
