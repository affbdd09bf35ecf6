----------------------------- MODULE MCSpanBlocks -----------------------------
(***************************************************************************)
(* SpanBlocks on words of three bits.  A span of 1 block is a large        *)
(* allocation; 4, 7 and 8 blocks end in a partial word, 3, 6 and 9 in a    *)
(* full one, and 2 has fewer blocks than a word has bits.                  *)
(***************************************************************************)
EXTENDS SpanBlocks

MCBlockCounts == 1 .. 9
=============================================================================
