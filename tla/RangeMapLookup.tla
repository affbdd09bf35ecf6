---------------------------- MODULE RangeMapLookup ----------------------------
(***************************************************************************)
(* Lookups without the lock.  cfree and crealloc find the span of a        *)
(* pointer with cmalloc_get (src/src/range_map.c:119), which walks the     *)
(* trie slot by slot while the thread that holds the mutex maps and unmaps *)
(* pages, adds nodes before it clears them, and releases nodes before it   *)
(* unlinks them.                                                           *)
(*                                                                         *)
(* A step is one access to a slot that another thread may reach.  A        *)
(* released node keeps its slots but the first, which links the free list  *)
(* of metadata (RangeMap models the list and the arena behind it).         *)
(*                                                                         *)
(* The program looks up pages of blocks it holds: the page is mapped, and  *)
(* nobody maps or unmaps it until the lookup has returned.                 *)
(***************************************************************************)
EXTENDS Integers, FiniteSets

CONSTANTS
  Readers,   \* threads inside cfree or crealloc
  Nodes,     \* l2_node objects
  Leaves,    \* l3_node objects
  Spans,     \* the values
  NULL,
  Slots,     \* slots of the root, of a node and of a leaf
  Keys       \* page indices, as the slot of each level

ASSUME RangeMapLookupAssumption ==
  /\ Slots \subseteq Nat /\ 0 \in Slots /\ IsFiniteSet(Slots)
  /\ Keys \subseteq Slots \X Slots \X Slots
  /\ NULL \notin Nodes \cup Leaves \cup Spans \cup Keys
  /\ Nodes \cap Leaves = {} /\ Leaves \cap Spans = {}

VARIABLES
  root,        \* slots of page_map
  slot,        \* slots of the nodes and of the leaves
  count,       \* their counts
  released,    \* nodes and leaves on the free lists, or not yet carved
  wpc, wkey, wspan,   \* the writer: the step, key and value of its call
  rpc, rkey,          \* each reader: the step and key of its lookup
  at,                 \* the node or leaf it has loaded
  found,              \* what cmalloc_get returned
  mapped       \* history: the value last mapped at each key, until its unmap

trieVars   == <<root, slot, count, released>>
writerVars == <<wpc, wkey, wspan, mapped>>
readerVars == <<rpc, rkey, at, found>>
vars == <<trieVars, writerVars, readerVars>>

Objects == Nodes \cup Leaves

\* The node and the leaf that key k leads to, as the code names them at each
\* use: from the root.
NodeOf(k) == root[k[1]]
LeafOf(k) == slot[NodeOf(k)][k[2]]

Init ==
  /\ root = [i \in Slots |-> NULL]
  /\ slot = [o \in Objects |-> [i \in Slots |-> NULL]]
  /\ count = [o \in Objects |-> 0]
  /\ released = Objects
  /\ wpc = "idle" /\ wkey = NULL /\ wspan = NULL
  /\ rpc = [r \in Readers |-> "idle"]
  /\ rkey = [r \in Readers |-> NULL]
  /\ at = [r \in Readers |-> NULL]
  /\ found = [r \in Readers |-> NULL]
  /\ mapped = [k \in Keys |-> NULL]

-----------------------------------------------------------------------------
(* The writer, under the lock                                              *)

\* cmalloc_alloc_metadata gives out any object of the size that is free.
Take(o) == released' = released \ {o}

\* cmalloc_free_metadata: the first word links the rest of the free list.
Release(o, kind) ==
  /\ released' = released \cup {o}
  /\ \E rest \in (released \cap kind) \cup {NULL} :
       slot' = [slot EXCEPT ![o][0] = rest]

WriterGoto(label) == wpc' = label /\ UNCHANGED <<wkey, wspan>>
WriterReturn == wpc' = "idle" /\ wkey' = NULL /\ wspan' = NULL

Unread(k) == \A r \in Readers : rkey[r] # k

\* cmalloc_map of a page nobody looks up: of a new span, or, when a span is
\* split, again of a page that is mapped.
Map(k, s) ==
  /\ wpc = "idle" /\ Unread(k)
  /\ wpc' = "m_node" /\ wkey' = k /\ wspan' = s
  /\ mapped' = [mapped EXCEPT ![k] = NULL]
  /\ UNCHANGED <<trieVars, readerVars>>

\* Seeded fault: the test for a missing node is left out.
NodeMissingAlways(k) == TRUE

NodeMissing(k) == NodeOf(k) = NULL

\* A missing node is linked before it is cleared.
LinkNode ==
  /\ wpc = "m_node"
  /\ IF NodeMissing(wkey)
       THEN \E n \in released \cap Nodes :
              /\ Take(n)
              /\ root' = [root EXCEPT ![wkey[1]] = n]
              /\ WriterGoto("m_clear_node")
       ELSE WriterGoto("m_leaf") /\ UNCHANGED <<root, released>>
  /\ UNCHANGED <<slot, count, mapped, readerVars>>

\* memset of an object.
Cleared(o) ==
  /\ slot' = [slot EXCEPT ![o] = [i \in Slots |-> NULL]]
  /\ count' = [count EXCEPT ![o] = 0]

ClearNode ==
  /\ wpc = "m_clear_node"
  /\ Cleared(NodeOf(wkey))
  /\ WriterGoto("m_leaf")
  /\ UNCHANGED <<root, released, mapped, readerVars>>

LinkLeaf ==
  /\ wpc = "m_leaf"
  /\ IF LeafOf(wkey) = NULL
       THEN \E l \in released \cap Leaves :
              /\ Take(l)
              /\ slot' = [slot EXCEPT ![NodeOf(wkey)][wkey[2]] = l]
              /\ WriterGoto("m_clear_leaf")
       ELSE WriterGoto("m_count") /\ UNCHANGED <<slot, released>>
  /\ UNCHANGED <<root, count, mapped, readerVars>>

ClearLeaf ==
  /\ wpc = "m_clear_leaf"
  /\ Cleared(LeafOf(wkey))
  /\ WriterGoto("m_count_leaf")
  /\ UNCHANGED <<root, released, mapped, readerVars>>

CountLeaf ==
  /\ wpc = "m_count_leaf"
  /\ count' = [count EXCEPT ![NodeOf(wkey)] = @ + 1]
  /\ WriterGoto("m_count")
  /\ UNCHANGED <<root, slot, released, mapped, readerVars>>

\* Seeded fault: a leaf does not count the pages mapped in it.
CountKeyNever ==
  /\ wpc = "m_count"
  /\ WriterGoto("m_store")
  /\ UNCHANGED <<trieVars, mapped, readerVars>>

CountKey ==
  /\ wpc = "m_count"
  /\ count' = IF slot[LeafOf(wkey)][wkey[3]] = NULL
                THEN [count EXCEPT ![LeafOf(wkey)] = @ + 1] ELSE count
  /\ WriterGoto("m_store")
  /\ UNCHANGED <<root, slot, released, mapped, readerVars>>

StoreKey ==
  /\ wpc = "m_store"
  /\ slot' = [slot EXCEPT ![LeafOf(wkey)][wkey[3]] = wspan]
  /\ mapped' = [mapped EXCEPT ![wkey] = wspan]
  /\ WriterReturn
  /\ UNCHANGED <<root, count, released, readerVars>>

\* cmalloc_unmap of a mapped page nobody looks up.
Unmap(k) ==
  /\ wpc = "idle" /\ Unread(k)
  /\ mapped[k] # NULL
  /\ wpc' = "u_store" /\ wkey' = k /\ UNCHANGED wspan
  /\ mapped' = [mapped EXCEPT ![k] = NULL]
  /\ UNCHANGED <<trieVars, readerVars>>

\* Seeded fault: an object with one entry left counts as empty.
UnusedTooEarly(n) == n <= 1

Unused(n) == n = 0

ClearKey ==
  LET l == LeafOf(wkey)
  IN /\ wpc = "u_store"
     /\ slot' = [slot EXCEPT ![l][wkey[3]] = NULL]
     /\ count' = [count EXCEPT ![l] = @ - 1]
     /\ WriterGoto(IF Unused(count'[l]) THEN "u_free_leaf" ELSE "u_node")
     /\ UNCHANGED <<root, released, mapped, readerVars>>

\* The leaf is released while the node still links it.
FreeLeaf ==
  /\ wpc = "u_free_leaf"
  /\ Release(LeafOf(wkey), Leaves)
  /\ WriterGoto("u_unlink_leaf")
  /\ UNCHANGED <<root, count, mapped, readerVars>>

UnlinkLeaf ==
  LET n == NodeOf(wkey)
  IN /\ wpc = "u_unlink_leaf"
     /\ slot' = [slot EXCEPT ![n][wkey[2]] = NULL]
     /\ count' = [count EXCEPT ![n] = @ - 1]
     /\ WriterGoto("u_node")
     /\ UNCHANGED <<root, released, mapped, readerVars>>

FreeNode ==
  /\ wpc = "u_node"
  /\ IF Unused(count[NodeOf(wkey)])
       THEN Release(NodeOf(wkey), Nodes) /\ WriterGoto("u_unlink_node")
       ELSE WriterReturn /\ UNCHANGED <<slot, released>>
  /\ UNCHANGED <<root, count, mapped, readerVars>>

UnlinkNode ==
  /\ wpc = "u_unlink_node"
  /\ root' = [root EXCEPT ![wkey[1]] = NULL]
  /\ WriterReturn
  /\ UNCHANGED <<slot, count, released, mapped, readerVars>>

Writer ==
  \/ \E k \in Keys : Unmap(k) \/ \E s \in Spans \ {mapped[k]} : Map(k, s)
  \/ LinkNode \/ ClearNode \/ LinkLeaf \/ ClearLeaf \/ CountLeaf
  \/ CountKey \/ StoreKey
  \/ ClearKey \/ FreeLeaf \/ UnlinkLeaf \/ FreeNode \/ UnlinkNode

-----------------------------------------------------------------------------
(* The readers.  The code names each object from the root again at every   *)
(* use; a compiler may keep the pointer of the test or load it anew.       *)

ReaderStep(r, label, o) ==
  /\ rpc' = [rpc EXCEPT ![r] = label]
  /\ at' = [at EXCEPT ![r] = o]
  /\ UNCHANGED <<rkey, trieVars, writerVars>>

Lookup(r, k) ==
  /\ rpc[r] = "idle"
  /\ mapped[k] # NULL
  /\ rpc' = [rpc EXCEPT ![r] = "load_node"]
  /\ rkey' = [rkey EXCEPT ![r] = k]
  /\ UNCHANGED <<at, found, trieVars, writerVars>>

\* cmalloc_get returns NULL past an empty slot.
LoadNode(r) ==
  LET n == NodeOf(rkey[r])
  IN /\ rpc[r] = "load_node"
     /\ found' = [found EXCEPT ![r] = NULL]
     /\ ReaderStep(r, IF n = NULL THEN "return" ELSE "load_leaf", n)

LoadLeaf(r) ==
  /\ rpc[r] = "load_leaf"
  /\ \E n \in {at[r], NodeOf(rkey[r])} :
       LET l == slot[n][rkey[r][2]]
       IN ReaderStep(r, IF l = NULL THEN "return" ELSE "load_span", l)
  /\ UNCHANGED found

LoadSpan(r) ==
  /\ rpc[r] = "load_span"
  /\ \E l \in {at[r], LeafOf(rkey[r])} :
       found' = [found EXCEPT ![r] = slot[l][rkey[r][3]]]
  /\ ReaderStep(r, "return", NULL)

Return(r) ==
  /\ rpc[r] = "return"
  /\ rpc' = [rpc EXCEPT ![r] = "idle"]
  /\ rkey' = [rkey EXCEPT ![r] = NULL]
  /\ at' = [at EXCEPT ![r] = NULL]
  /\ found' = [found EXCEPT ![r] = NULL]
  /\ UNCHANGED <<trieVars, writerVars>>

Reader(r) ==
  \/ \E k \in Keys : Lookup(r, k)
  \/ LoadNode(r) \/ LoadLeaf(r) \/ LoadSpan(r) \/ Return(r)

Next == Writer \/ \E r \in Readers : Reader(r)

Spec == Init /\ [][Next]_vars

-----------------------------------------------------------------------------
(* Properties                                                              *)

WriterLabels == {"idle", "m_node", "m_clear_node", "m_leaf", "m_clear_leaf",
                 "m_count_leaf", "m_count", "m_store", "u_store", "u_free_leaf",
                 "u_unlink_leaf", "u_node", "u_unlink_node"}

\* The types of the variables.  A count stays within the slots it counts; the
\* first slot of a released object links its free list.
TypeOK ==
  /\ root \in [Slots -> Nodes \cup {NULL}]
  /\ slot \in [Objects -> [Slots -> Objects \cup Spans \cup {NULL}]]
  /\ count \in [Objects -> 0 .. Cardinality(Slots)]
  /\ released \subseteq Objects
  /\ wpc \in WriterLabels
  /\ wkey \in Keys \cup {NULL}
  /\ wspan \in Spans \cup {NULL}
  /\ rpc \in [Readers -> {"idle", "load_node", "load_leaf", "load_span", "return"}]
  /\ rkey \in [Readers -> Keys \cup {NULL}]
  /\ at \in [Readers -> Objects \cup {NULL}]
  /\ found \in [Readers -> Objects \cup Spans \cup {NULL}]
  /\ mapped \in [Keys -> Spans \cup {NULL}]

\* A lookup without the lock returns the span its page is mapped to, whatever
\* the thread with the lock does to the trie meanwhile (range_map.c:119-127,
\* span.c:242-244).
LookupExact ==
  \A r \in Readers : rpc[r] = "return" => found[r] = mapped[rkey[r]]

\* A reader stands on the live object of its path: the node or leaf it has
\* loaded has not been released, recycled or replaced while it was underway.
ReadersOnLiveObjects ==
  \A r \in Readers :
    /\ rpc[r] = "load_leaf" => at[r] = NodeOf(rkey[r])
    /\ rpc[r] = "load_span" => at[r] = LeafOf(rkey[r])
    /\ rpc[r] \in {"load_leaf", "load_span"} => at[r] \in Objects \ released

-----------------------------------------------------------------------------
(* The inductive invariant, which RangeMapLookupProofs proves              *)

\* The node under slot i of the root is linked and not yet cleared, or released
\* and not yet unlinked; the same for the leaf at slot j of that node.
NodeInDoubt(i) == wpc \in {"m_clear_node", "u_unlink_node"} /\ i = wkey[1]
LeafInDoubt(i, j) ==
  wpc \in {"m_clear_leaf", "u_unlink_leaf"} /\ i = wkey[1] /\ j = wkey[2]

Leaf(i, j) == slot[root[i]][j]
HasNode(i) == root[i] # NULL /\ ~NodeInDoubt(i)
HasLeaf(i, j) == HasNode(i) /\ Leaf(i, j) # NULL /\ ~LeafInDoubt(i, j)

Used(o) == {i \in Slots : slot[o][i] # NULL}

\* The root links each node once, and links a released one only on the way to
\* unlinking it.
RootInv ==
  \A i \in Slots : root[i] # NULL =>
    /\ root[i] \in released <=> wpc = "u_unlink_node" /\ i = wkey[1]
    /\ \A j \in Slots : root[j] = root[i] => i = j

\* So do the nodes with leaves.
LinkInv ==
  \A i, j \in Slots : HasNode(i) /\ Leaf(i, j) # NULL =>
    /\ Leaf(i, j) \in Leaves
    /\ Leaf(i, j) \in released <=> wpc = "u_unlink_leaf" /\ i = wkey[1] /\ j = wkey[2]
    /\ \A a, b \in Slots : HasNode(a) /\ Leaf(a, b) = Leaf(i, j) => a = i /\ b = j

\* A node counts its leaves, a new one late.
NodeInv ==
  \A i \in Slots : HasNode(i) =>
    Cardinality(Used(root[i])) =
      IF wpc \in {"m_clear_leaf", "m_count_leaf"} /\ i = wkey[1]
        THEN count[root[i]] + 1 ELSE count[root[i]]

\* A leaf counts its pages, a new one early.
LeafInv ==
  \A i, j \in Slots : HasLeaf(i, j) =>
    count[Leaf(i, j)] =
      IF /\ wpc = "m_store" /\ i = wkey[1] /\ j = wkey[2]
         /\ slot[Leaf(i, j)][wkey[3]] = NULL
        THEN Cardinality(Used(Leaf(i, j))) + 1 ELSE Cardinality(Used(Leaf(i, j)))

\* What the writer finds on the path of its key at each step.
WriterInv ==
  /\ wpc = "idle" <=> wkey = NULL
  /\ wpc # "idle" => mapped[wkey] = NULL
  /\ wpc \in {"m_node", "m_clear_node", "m_leaf", "m_clear_leaf", "m_count_leaf",
              "m_count", "m_store"} => wspan # NULL
  /\ wpc \notin {"idle", "m_node"} => NodeOf(wkey) # NULL
  /\ wpc \in {"m_clear_leaf", "m_count_leaf", "m_count", "m_store", "u_store",
              "u_free_leaf", "u_unlink_leaf"} => LeafOf(wkey) # NULL
  /\ wpc = "u_store" => slot[LeafOf(wkey)][wkey[3]] # NULL
  /\ wpc = "u_free_leaf" => Used(LeafOf(wkey)) = {}

\* The path of a mapped page leads to its span, through objects not in doubt.
MappedInv ==
  \A k \in Keys : mapped[k] # NULL =>
    HasLeaf(k[1], k[2]) /\ slot[LeafOf(k)][k[3]] = mapped[k]

\* A reader looks up a mapped page and is on its path.
ReaderInv ==
  \A r \in Readers : rpc[r] # "idle" =>
    /\ rkey[r] # NULL /\ mapped[rkey[r]] # NULL
    /\ rpc[r] = "load_leaf" => at[r] = NodeOf(rkey[r])
    /\ rpc[r] = "load_span" => at[r] = LeafOf(rkey[r])
    /\ rpc[r] = "return" => found[r] = mapped[rkey[r]]

TrieInv ==
  /\ RootInv /\ LinkInv /\ NodeInv /\ LeafInv
  /\ WriterInv /\ MappedInv /\ ReaderInv
=============================================================================
