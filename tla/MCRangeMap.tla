------------------------------ MODULE MCRangeMap ------------------------------
(***************************************************************************)
(* RangeMap with 2 x 4 x 2 = 16 keys.  The keys below 8 share the node of  *)
(* the first slot of the root, the others that of the second.              *)
(***************************************************************************)
EXTENDS RangeMap

\* A chunk that ends inside a leaf node.
Chunks == {<<1, 4>>}

\* Direct mappings: from next to the chunk into the other half, and one in the
\* upper half alone.
Directs == {<<4, 9>>, <<12, 15>>}
=============================================================================
