--------------------------------- MODULE Heap ---------------------------------
(***************************************************************************)
(* What include/cmalloc/cmalloc.h promises a program: a block that cmalloc *)
(* or crealloc returns is in nobody's hands at that moment, stays with its *)
(* holder until the holder gives it back, and crealloc replaces one block  *)
(* by another.  Where blocks come from and when a freed block is reused    *)
(* are left open.  Cmalloc implements this module.                         *)
(***************************************************************************)
CONSTANTS Threads, Blocks

VARIABLE held     \* [Threads -> SUBSET Blocks]: the blocks each thread holds

Init == held = [t \in Threads |-> {}]

Available == Blocks \ UNION {held[t] : t \in Threads}

Allocate(t) ==
  \E b \in Available : held' = [held EXCEPT ![t] = @ \cup {b}]

Free(t) ==
  \E b \in held[t] : held' = [held EXCEPT ![t] = @ \ {b}]

Reallocate(t) ==
  \E old \in held[t], new \in Available :
    held' = [held EXCEPT ![t] = (@ \ {old}) \cup {new}]

Next == \E t \in Threads : Free(t) \/ Allocate(t) \/ Reallocate(t)

Spec == Init /\ [][Next]_held
=============================================================================
