------------------------------ MODULE MCSpanPool ------------------------------
(***************************************************************************)
(* SpanPool with pages of two bytes.  Chunks of three pages and mappings   *)
(* of their own from five pages on are the proportion of a build with      *)
(* 16 KiB pages (2048 and 8193), where a span can be binnable and longer   *)
(* than a chunk.                                                           *)
(***************************************************************************)
EXTENDS SpanPool

\* Room for two chunks, or for a chunk and a direct mapping.
TwoBases == {1, 4}

\* One page, two, a page more than a chunk, and a direct mapping.
MixedRequests == {2, 3, 8, 10}

\* A direct mapping.
DirectRequests == {10}
=============================================================================
