------------------------------- MODULE MCCmalloc -------------------------------
EXTENDS CmallocInvariant, TLC

CONSTANTS t1, t2, s1, s2, s3

TwoThreads == {t1, t2}
OneThread  == {t1}
TwoSpans   == {s1, s2}
ThreeSpans == {s1, s2, s3}

TwoBlocks     == [c \in SizeClasses |-> 2]
ThreeBlocks   == [c \in SizeClasses |-> 3]
TwoThenThree  == [c \in SizeClasses |-> 2 + c]

Symmetric == Permutations(Threads) \cup Permutations(Spans)
=============================================================================
