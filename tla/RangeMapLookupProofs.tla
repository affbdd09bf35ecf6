-------------------------- MODULE RangeMapLookupProofs --------------------------
(***************************************************************************)
(* Proofs about RangeMapLookup, for every number of readers, nodes, leaves *)
(* and slots and every set of keys: a lookup that takes no lock returns    *)
(* the span its page is mapped to, whatever the writer does meanwhile.     *)
(***************************************************************************)
EXTENDS RangeMapLookup, FiniteSetTheorems, TLAPS

USE RangeMapLookupAssumption

-----------------------------------------------------------------------------
(* Slots and keys                                                          *)

LEMMA KeySlots ==
  ASSUME NEW k \in Keys
  PROVE  /\ k[1] \in Slots /\ k[2] \in Slots /\ k[3] \in Slots /\ k # NULL
         /\ \A h \in Keys : h[1] = k[1] /\ h[2] = k[2] /\ h[3] = k[3] => h = k
OBVIOUS

\* How a count of slots follows the slots that are filled and emptied.
LEMMA SlotCount ==
  ASSUME NEW S \in SUBSET Slots
  PROVE  /\ Cardinality(S) \in 0 .. Cardinality(Slots)
         /\ Cardinality(S) = 0 <=> S = {}
         /\ \A i \in S : Cardinality(S \ {i}) = Cardinality(S) - 1
         /\ \A i \in Slots \ S : /\ Cardinality(S \cup {i}) = Cardinality(S) + 1
                                 /\ Cardinality(S) + 1 \in 0 .. Cardinality(Slots)
<1>1. ASSUME NEW T \in SUBSET Slots
      PROVE  IsFiniteSet(T) /\ Cardinality(T) \in Nat /\ Cardinality(T) <= Cardinality(Slots)
  BY FS_Subset, FS_CardinalityType
<1>2. Cardinality(Slots) \in Nat
  BY FS_CardinalityType
<1>3. Cardinality(S) = 0 <=> S = {}
  BY <1>1, FS_EmptySet
<1>4. \A i \in S : Cardinality(S \ {i}) = Cardinality(S) - 1
  BY <1>1, FS_RemoveElement
<1>5. ASSUME NEW i \in Slots \ S
      PROVE  /\ Cardinality(S \cup {i}) = Cardinality(S) + 1
             /\ Cardinality(S) + 1 \in 0 .. Cardinality(Slots)
  <2>1. Cardinality(S \cup {i}) = Cardinality(S) + 1
    BY <1>1, FS_AddElement
  <2>2. Cardinality(S \cup {i}) <= Cardinality(Slots)
    BY <1>1
  <2>. QED  BY <1>1, <1>2, <2>1, <2>2
<1>. QED  BY <1>1, <1>2, <1>3, <1>4, <1>5

\* Where the path of a key leads.
LEMMA PathFacts ==
  ASSUME TypeOK, RootInv, LinkInv, NEW i \in Slots
  PROVE  /\ HasNode(i) => root[i] \in Nodes /\ root[i] \notin Leaves /\ root[i] \in Objects
         /\ \A j \in Slots : HasLeaf(i, j) =>
              /\ Leaf(i, j) \in Leaves /\ Leaf(i, j) \notin Nodes
              /\ Leaf(i, j) \in Objects \ released /\ HasNode(i)
         /\ \A j, a, b \in Slots : HasNode(i) /\ Leaf(i, j) # NULL /\ HasNode(a)
              /\ Leaf(a, b) = Leaf(i, j) => a = i /\ b = j
BY DEF TypeOK, RootInv, LinkInv, HasNode, HasLeaf, NodeInDoubt, LeafInDoubt, Objects

\* The path of a mapped page is not the one the writer has in doubt.
LEMMA MappedPath ==
  ASSUME TypeOK, TrieInv, NEW k \in Keys, mapped[k] # NULL
  PROVE  /\ k[1] \in Slots /\ k[2] \in Slots /\ k[3] \in Slots
         /\ HasNode(k[1]) /\ HasLeaf(k[1], k[2]) /\ slot[LeafOf(k)][k[3]] = mapped[k]
         /\ NodeOf(k) = root[k[1]] /\ LeafOf(k) = Leaf(k[1], k[2])
         /\ wpc # "idle" => k # wkey
BY KeySlots DEF TrieInv, MappedInv, WriterInv, HasLeaf, NodeOf, LeafOf, Leaf

LEMMA UsedKept ==
  ASSUME UNCHANGED trieVars
  PROVE  /\ \A i \in Slots : Used(root[i])' = Used(root[i])
         /\ \A i, j \in Slots : /\ Leaf(i, j)' = Leaf(i, j)
                                /\ Used(Leaf(i, j))' = Used(Leaf(i, j))
BY DEF Leaf, Used, trieVars

\* A step that leaves the trie and the object in doubt alone keeps LinkInv.
LEMMA LinkKept ==
  ASSUME LinkInv, \A i \in Slots : HasNode(i)' <=> HasNode(i),
         \A i, j \in Slots : Leaf(i, j)' = Leaf(i, j), UNCHANGED <<released, wpc, wkey>>
  PROVE  LinkInv'
<1>1. ASSUME NEW i \in Slots, NEW j \in Slots, HasNode(i)', Leaf(i, j)' # NULL
      PROVE  /\ Leaf(i, j)' \in Leaves
             /\ Leaf(i, j)' \in released' <=> wpc' = "u_unlink_leaf" /\ i = wkey'[1] /\ j = wkey'[2]
             /\ \A a, b \in Slots : HasNode(a)' /\ Leaf(a, b)' = Leaf(i, j)' => a = i /\ b = j
  <2>1. HasNode(i) /\ Leaf(i, j) # NULL /\ Leaf(i, j)' = Leaf(i, j)
    BY <1>1
  <2>2. /\ Leaf(i, j) \in Leaves
        /\ Leaf(i, j) \in released <=> wpc = "u_unlink_leaf" /\ i = wkey[1] /\ j = wkey[2]
    BY <2>1 DEF LinkInv
  <2>3. \A a, b \in Slots : HasNode(a) /\ Leaf(a, b) = Leaf(i, j) => a = i /\ b = j
    BY <2>1 DEF LinkInv
  <2>. QED  BY <2>1, <2>2, <2>3
<1>. QED  BY <1>1 DEF LinkInv

\* A write to one object leaves the nodes and leaves that are others as they are.
LEMMA NodeFrame ==
  ASSUME TypeOK, RootInv, LinkInv, NEW x, NEW i \in Slots, HasNode(i),
         root'[i] = root[i], root[i] # x,
         \A o \in Objects \ {x} : slot'[o] = slot[o] /\ count'[o] = count[o]
  PROVE  /\ count'[root'[i]] = count[root[i]]
         /\ Used(root[i])' = Used(root[i])
         /\ \A j \in Slots : Leaf(i, j)' = Leaf(i, j)
<1>1. root[i] \in Objects \ {x}
  BY PathFacts
<1>. QED  BY <1>1 DEF Used, Leaf

LEMMA LeafFrame ==
  ASSUME TypeOK, RootInv, LinkInv, NEW x, NEW i \in Slots, NEW j \in Slots, HasLeaf(i, j),
         Leaf(i, j)' = Leaf(i, j), Leaf(i, j) # x,
         \A o \in Objects \ {x} : slot'[o] = slot[o] /\ count'[o] = count[o]
  PROVE  /\ count'[Leaf(i, j)'] = count[Leaf(i, j)]
         /\ slot'[Leaf(i, j)'] = slot[Leaf(i, j)]
         /\ Used(Leaf(i, j))' = Used(Leaf(i, j))
<1>1. Leaf(i, j) \in Objects \ {x}
  BY PathFacts
<1>. QED  BY <1>1 DEF Used

-----------------------------------------------------------------------------
(* Readers                                                                 *)

\* A step of the writer that leaves the paths being read alone does not disturb
\* the readers.
LEMMA ReadersKept ==
  ASSUME TypeOK, ReaderInv, UNCHANGED readerVars,
         \A k \in Keys : mapped[k] # NULL /\ ~Unread(k) =>
           mapped'[k] = mapped[k] /\ NodeOf(k)' = NodeOf(k) /\ LeafOf(k)' = LeafOf(k)
  PROVE  ReaderInv'
<1>. SUFFICES ASSUME NEW r \in Readers, rpc[r] # "idle"
              PROVE  /\ rkey[r] # NULL /\ mapped'[rkey[r]] # NULL
                     /\ rpc[r] = "load_leaf" => at[r] = NodeOf(rkey[r])'
                     /\ rpc[r] = "load_span" => at[r] = LeafOf(rkey[r])'
                     /\ rpc[r] = "return" => found[r] = mapped'[rkey[r]]
  BY DEF ReaderInv, readerVars, NodeOf, LeafOf
<1>1. PICK k \in Keys : k = rkey[r] /\ mapped[k] # NULL /\ ~Unread(k)
  BY DEF ReaderInv, TypeOK, Unread
<1>2. mapped'[k] = mapped[k] /\ NodeOf(k)' = NodeOf(k) /\ LeafOf(k)' = LeafOf(k)
  BY <1>1
<1>3. NodeOf(rkey[r])' = NodeOf(k)' /\ LeafOf(rkey[r])' = LeafOf(k)'
  BY <1>1 DEF NodeOf, LeafOf, readerVars
<1>. QED  BY <1>1, <1>2, <1>3 DEF ReaderInv

\* A reader's own steps follow the path of its key, whichever pointer the
\* compiler keeps.
LEMMA ReaderSteps ==
  ASSUME TypeOK, TrieInv, NEW r \in Readers, Reader(r)
  PROVE  TypeOK' /\ TrieInv'
<1>. USE DEF TypeOK
<1>1. UNCHANGED <<trieVars, writerVars>>
  BY DEF Reader, Lookup, LoadNode, LoadLeaf, LoadSpan, Return, ReaderStep
<1>2. \A u \in Readers \ {r} : rpc'[u] = rpc[u] /\ rkey'[u] = rkey[u]
                             /\ at'[u] = at[u] /\ found'[u] = found[u]
  BY DEF Reader, Lookup, LoadNode, LoadLeaf, LoadSpan, Return, ReaderStep
<1>3. ASSUME rpc[r] # "idle"
      PROVE  /\ rkey[r] \in Keys /\ mapped[rkey[r]] # NULL
             /\ NodeOf(rkey[r]) \in Objects /\ LeafOf(rkey[r]) \in Objects
             /\ NodeOf(rkey[r]) # NULL /\ LeafOf(rkey[r]) # NULL
             /\ slot[LeafOf(rkey[r])][rkey[r][3]] = mapped[rkey[r]]
             /\ slot[NodeOf(rkey[r])][rkey[r][2]] = LeafOf(rkey[r])
  <2>1. PICK k \in Keys : k = rkey[r] /\ mapped[k] # NULL
    BY <1>3 DEF TrieInv, ReaderInv
  <2>2. RootInv /\ LinkInv
    BY DEF TrieInv
  <2>3. /\ NodeOf(k) = root[k[1]] /\ LeafOf(k) = Leaf(k[1], k[2])
        /\ root[k[1]] \in Nodes /\ Leaf(k[1], k[2]) \in Leaves
        /\ slot[LeafOf(k)][k[3]] = mapped[k]
    BY <2>1, <2>2, MappedPath, PathFacts
  <2>. QED  BY <2>1, <2>3 DEF Leaf, Objects
<1>4. TypeOK'
  <2>1. CASE \E k \in Keys : Lookup(r, k)
    BY <1>1, <2>1 DEF Lookup, trieVars, writerVars
  <2>2. CASE LoadNode(r)
    BY <1>1, <1>3, <2>2 DEF LoadNode, ReaderStep, trieVars, writerVars
  <2>3. CASE LoadLeaf(r)
    <3>1. at[r] = NodeOf(rkey[r]) /\ rpc[r] = "load_leaf"
      BY <2>3 DEF LoadLeaf, TrieInv, ReaderInv
    <3>. QED  BY <1>1, <1>3, <2>3, <3>1 DEF LoadLeaf, ReaderStep, trieVars, writerVars
  <2>4. CASE LoadSpan(r)
    <3>1. at[r] = LeafOf(rkey[r]) /\ rpc[r] = "load_span"
      BY <2>4 DEF LoadSpan, TrieInv, ReaderInv
    <3>2. found' = [found EXCEPT ![r] = mapped[rkey[r]]]
      BY <1>3, <2>4, <3>1 DEF LoadSpan
    <3>. QED  BY <1>1, <1>3, <2>4, <3>1, <3>2 DEF LoadSpan, ReaderStep, trieVars, writerVars
  <2>5. CASE Return(r)
    BY <1>1, <2>5 DEF Return, trieVars, writerVars
  <2>. QED  BY <2>1, <2>2, <2>3, <2>4, <2>5 DEF Reader
<1>5. rpc'[r] # "idle" =>
        /\ rkey'[r] # NULL /\ mapped[rkey'[r]] # NULL
        /\ rpc'[r] = "load_leaf" => at'[r] = NodeOf(rkey'[r])
        /\ rpc'[r] = "load_span" => at'[r] = LeafOf(rkey'[r])
        /\ rpc'[r] = "return" => found'[r] = mapped[rkey'[r]]
  <2>1. CASE \E k \in Keys : Lookup(r, k)
    BY <2>1 DEF Lookup
  <2>2. CASE LoadNode(r)
    BY <1>3, <2>2 DEF LoadNode, ReaderStep
  <2>3. CASE LoadLeaf(r)
    <3>1. at[r] = NodeOf(rkey[r]) /\ rpc[r] = "load_leaf"
      BY <2>3 DEF LoadLeaf, TrieInv, ReaderInv
    <3>. QED  BY <1>3, <2>3, <3>1 DEF LoadLeaf, ReaderStep
  <2>4. CASE LoadSpan(r)
    <3>1. at[r] = LeafOf(rkey[r]) /\ rpc[r] = "load_span"
      BY <2>4 DEF LoadSpan, TrieInv, ReaderInv
    <3>. QED  BY <1>3, <2>4, <3>1 DEF LoadSpan, ReaderStep
  <2>5. CASE Return(r)
    BY <2>5 DEF Return
  <2>. QED  BY <2>1, <2>2, <2>3, <2>4, <2>5 DEF Reader
<1>6. ReaderInv'
  BY <1>1, <1>2, <1>5 DEF TrieInv, ReaderInv, NodeOf, LeafOf, trieVars, writerVars
<1>7. RootInv' /\ LinkInv' /\ NodeInv' /\ LeafInv'
  <2>1. /\ \A i \in Slots : HasNode(i)' <=> HasNode(i)
        /\ \A i, j \in Slots : HasLeaf(i, j)' <=> HasLeaf(i, j)
    BY <1>1, UsedKept DEF HasNode, HasLeaf, NodeInDoubt, LeafInDoubt, trieVars, writerVars
  <2>2. RootInv'
    BY <1>1 DEF TrieInv, RootInv, trieVars, writerVars
  <2>3. NodeInv'
    BY <1>1, <2>1, UsedKept DEF TrieInv, NodeInv, trieVars, writerVars
  <2>4. LeafInv'
    BY <1>1, <2>1, UsedKept DEF TrieInv, LeafInv, trieVars, writerVars
  <2>5. LinkInv'
    <3>1. /\ \A i, j \in Slots : Leaf(i, j)' = Leaf(i, j)
          /\ UNCHANGED <<released, wpc, wkey>>
      BY <1>1, UsedKept DEF trieVars, writerVars
    <3>2. \A i \in Slots : HasNode(i)' <=> HasNode(i)
      BY <2>1
    <3>. QED  BY <3>1, <3>2, LinkKept DEF TrieInv
  <2>. QED  BY <2>2, <2>3, <2>4, <2>5
<1>8. WriterInv' /\ MappedInv'
  BY <1>1 DEF TrieInv, WriterInv, MappedInv, HasNode, HasLeaf, Leaf, Used, NodeInDoubt,
              LeafInDoubt, NodeOf, LeafOf, trieVars, writerVars
<1>. QED  BY <1>4, <1>6, <1>7, <1>8 DEF TrieInv

-----------------------------------------------------------------------------
(* Steps of the writer that leave the trie as it is                        *)

Plain == {"idle", "m_node", "m_leaf", "m_count", "u_store", "u_free_leaf", "u_node"}

LEMMA QuietTrie ==
  ASSUME RootInv, LinkInv, NodeInv, LeafInv, UNCHANGED trieVars, wpc \in Plain, wpc' \in Plain
  PROVE  /\ RootInv' /\ LinkInv' /\ NodeInv' /\ LeafInv'
         /\ \A i, j \in Slots : HasLeaf(i, j)' <=> HasLeaf(i, j)
<1>1. /\ \A i \in Slots : HasNode(i)' <=> HasNode(i)
      /\ \A i, j \in Slots : HasLeaf(i, j)' <=> HasLeaf(i, j)
  BY DEF HasNode, HasLeaf, Leaf, NodeInDoubt, LeafInDoubt, Plain, trieVars
<1>4. RootInv'
  BY DEF RootInv, Plain, trieVars
<1>5. NodeInv'
  <2>1. /\ wpc \notin {"m_clear_leaf", "m_count_leaf", "u_unlink_leaf"}
        /\ wpc' \notin {"m_clear_leaf", "m_count_leaf", "u_unlink_leaf"}
    BY DEF Plain
  <2>. QED  BY <1>1, <2>1, UsedKept DEF NodeInv, trieVars
<1>6. LeafInv'
  BY <1>1, UsedKept DEF LeafInv, Plain, trieVars
<1>7. LinkInv'
  BY <1>1, UsedKept DEF LinkInv, Plain, trieVars
<1>. QED  BY <1>1, <1>4, <1>5, <1>6, <1>7

\* A call of cmalloc_map or cmalloc_unmap begins.
LEMMA BeginInv ==
  ASSUME TypeOK, TrieInv, NEW k \in Keys,
         Unmap(k) \/ \E s \in Spans \ {mapped[k]} : Map(k, s)
  PROVE  TypeOK' /\ TrieInv'
<1>1. /\ wpc = "idle" /\ Unread(k) /\ UNCHANGED <<trieVars, readerVars>>
      /\ wkey' = k /\ mapped' = [mapped EXCEPT ![k] = NULL]
      /\ \/ wpc' = "m_node" /\ wspan' \in Spans
         \/ wpc' = "u_store" /\ wspan' = wspan /\ mapped[k] # NULL
  BY DEF Map, Unmap
<1>2. TypeOK'
  BY <1>1 DEF TypeOK, WriterLabels, trieVars, readerVars
<1>3. /\ RootInv' /\ LinkInv' /\ NodeInv' /\ LeafInv'
      /\ \A i, j \in Slots : HasLeaf(i, j)' <=> HasLeaf(i, j)
  BY <1>1, QuietTrie DEF TrieInv, Plain
<1>4. WriterInv'
  <2>1. wpc' = "u_store" =>
          NodeOf(k) # NULL /\ LeafOf(k) # NULL /\ slot[LeafOf(k)][k[3]] # NULL
    BY <1>1, MappedPath DEF HasLeaf, HasNode
  <2>. QED  BY <1>1, <2>1 DEF TypeOK, WriterInv, NodeOf, LeafOf, trieVars
<1>5. MappedInv'
  <2>1. ASSUME NEW h \in Keys, mapped'[h] # NULL
        PROVE  HasLeaf(h[1], h[2])' /\ slot'[LeafOf(h)'][h[3]] = mapped'[h]
    <3>1. mapped[h] # NULL /\ mapped'[h] = mapped[h]
      BY <1>1, <2>1 DEF TypeOK
    <3>. QED  BY <1>1, <1>3, <3>1, MappedPath DEF LeafOf, NodeOf, trieVars
  <2>. QED  BY <2>1 DEF MappedInv, LeafOf, NodeOf
<1>6. ReaderInv'
  <2>1. \A h \in Keys : mapped[h] # NULL /\ ~Unread(h) =>
          mapped'[h] = mapped[h] /\ NodeOf(h)' = NodeOf(h) /\ LeafOf(h)' = LeafOf(h)
    BY <1>1 DEF TypeOK, NodeOf, LeafOf, trieVars
  <2>. QED  BY <1>1, <2>1, ReadersKept DEF TrieInv
<1>. QED  BY <1>2, <1>3, <1>4, <1>5, <1>6 DEF TrieInv

\* A step within a call that changes no slot of a path to a mapped page.
LEMMA PathsKept ==
  ASSUME TypeOK, TrieInv, UNCHANGED <<mapped, readerVars>>,
         \A k \in Keys : mapped[k] # NULL =>
           /\ root'[k[1]] = root[k[1]]
           /\ Leaf(k[1], k[2])' = Leaf(k[1], k[2])
           /\ slot'[LeafOf(k)][k[3]] = slot[LeafOf(k)][k[3]]
           /\ HasLeaf(k[1], k[2])'
  PROVE  MappedInv' /\ ReaderInv'
<1>1. \A k \in Keys : mapped[k] # NULL =>
        NodeOf(k)' = NodeOf(k) /\ LeafOf(k)' = LeafOf(k)
  BY DEF NodeOf, LeafOf, Leaf
<1>2. ReaderInv'
  BY <1>1, ReadersKept DEF TrieInv
<1>3. ASSUME NEW k \in Keys, mapped[k] # NULL
      PROVE  HasLeaf(k[1], k[2])' /\ slot'[LeafOf(k)'][k[3]] = mapped'[k]
  BY <1>1, <1>3, MappedPath
<1>4. MappedInv'
  BY <1>3 DEF MappedInv, LeafOf, NodeOf
<1>. QED  BY <1>2, <1>4

LEMMA LeavesKept ==
  ASSUME TypeOK, TrieInv, UNCHANGED <<mapped, readerVars>>,
         \A i, j \in Slots : HasLeaf(i, j) =>
           /\ root'[i] = root[i] /\ Leaf(i, j)' = Leaf(i, j) /\ HasLeaf(i, j)'
           /\ slot'[Leaf(i, j)] = slot[Leaf(i, j)]
  PROVE  MappedInv' /\ ReaderInv'
<1>1. ASSUME NEW k \in Keys, mapped[k] # NULL
      PROVE  /\ root'[k[1]] = root[k[1]]
             /\ Leaf(k[1], k[2])' = Leaf(k[1], k[2])
             /\ slot'[LeafOf(k)][k[3]] = slot[LeafOf(k)][k[3]]
             /\ HasLeaf(k[1], k[2])'
  <2>1. k[1] \in Slots /\ k[2] \in Slots /\ HasLeaf(k[1], k[2]) /\ LeafOf(k) = Leaf(k[1], k[2])
    BY <1>1, MappedPath
  <2>2. /\ root'[k[1]] = root[k[1]] /\ Leaf(k[1], k[2])' = Leaf(k[1], k[2])
        /\ HasLeaf(k[1], k[2])' /\ slot'[Leaf(k[1], k[2])] = slot[Leaf(k[1], k[2])]
    BY <2>1
  <2>. QED  BY <2>1, <2>2
<1>. QED  BY <1>1, PathsKept

\* A step that finds nothing to link, or nothing to release.
LEMMA SkipInv ==
  ASSUME TypeOK, TrieInv, UNCHANGED <<trieVars, mapped, readerVars>>,
         \/ wpc = "m_node" /\ wpc' = "m_leaf" /\ NodeOf(wkey) # NULL /\ UNCHANGED <<wkey, wspan>>
         \/ wpc = "m_leaf" /\ wpc' = "m_count" /\ LeafOf(wkey) # NULL /\ UNCHANGED <<wkey, wspan>>
         \/ wpc = "u_node" /\ wpc' = "idle" /\ wkey' = NULL /\ wspan' = NULL
  PROVE  TypeOK' /\ TrieInv'
<1>1. TypeOK'
  BY DEF TypeOK, WriterLabels, trieVars, readerVars
<1>2. /\ RootInv' /\ LinkInv' /\ NodeInv' /\ LeafInv'
      /\ \A i, j \in Slots : HasLeaf(i, j)' <=> HasLeaf(i, j)
  BY QuietTrie DEF TrieInv, Plain
<1>3. WriterInv'
  BY DEF TrieInv, WriterInv, NodeOf, LeafOf, trieVars
<1>4. MappedInv' /\ ReaderInv'
  BY <1>2, PathsKept, MappedPath DEF trieVars, Leaf
<1>. QED  BY <1>1, <1>2, <1>3, <1>4 DEF TrieInv

-----------------------------------------------------------------------------
(* cmalloc_map                                                             *)

\* The key of a call under way.
LEMMA WriterKey ==
  ASSUME TypeOK, TrieInv, wpc # "idle"
  PROVE  wkey \in Keys /\ mapped[wkey] = NULL
BY DEF TypeOK, TrieInv, WriterInv

\* A missing node is linked.
LEMMA LinkNodeInv ==
  ASSUME TypeOK, TrieInv, LinkNode
  PROVE  TypeOK' /\ TrieInv'
<1>1. PICK k \in Keys : k = wkey
  BY WriterKey DEF LinkNode
<1>2. k[1] \in Slots /\ k[2] \in Slots /\ k[3] \in Slots
  BY KeySlots
<1>3. CASE root[k[1]] # NULL
  <2>1. /\ UNCHANGED <<trieVars, mapped, readerVars, wkey, wspan>>
        /\ wpc = "m_node" /\ wpc' = "m_leaf" /\ NodeOf(wkey) # NULL
    BY <1>1, <1>3 DEF LinkNode, NodeMissing, NodeOf, WriterGoto, trieVars
  <2>. QED  BY <2>1, SkipInv
<1>4. CASE root[k[1]] = NULL
  <2>1. PICK n \in Nodes : /\ n \in released
                           /\ root' = [root EXCEPT ![k[1]] = n]
                           /\ released' = released \ {n}
    BY <1>1, <1>4 DEF LinkNode, NodeMissing, NodeOf, Take
  <2>2. /\ wpc = "m_node" /\ wpc' = "m_clear_node"
        /\ UNCHANGED <<slot, count, mapped, readerVars, wkey, wspan>>
    BY <1>1, <1>4 DEF LinkNode, NodeMissing, NodeOf, WriterGoto
  <2>3. /\ root'[k[1]] = n /\ n # NULL /\ n \notin Leaves
        /\ \A i \in Slots \ {k[1]} : root'[i] = root[i]
    BY <1>2, <2>1 DEF TypeOK
  <2>4. TypeOK'
    BY <1>2, <2>1, <2>2 DEF TypeOK, WriterLabels, readerVars
  <2>5. /\ \A i \in Slots : HasNode(i)' <=> HasNode(i)
        /\ \A i \in Slots : HasNode(i) => i # k[1]
    BY <1>1, <1>4, <2>2, <2>3 DEF HasNode, NodeInDoubt
  <2>6. \A i, j \in Slots : HasNode(i) =>
          /\ root'[i] = root[i]
          /\ Leaf(i, j)' = Leaf(i, j) /\ Used(Leaf(i, j))' = Used(Leaf(i, j))
    BY <2>2, <2>3, <2>5 DEF Leaf, Used
  <2>7. \A i, j \in Slots : HasLeaf(i, j)' <=> HasLeaf(i, j)
    BY <2>2, <2>5, <2>6 DEF HasLeaf, LeafInDoubt
  <2>8. RootInv'
    <3>1. \A i \in Slots : root[i] # n /\ (root[i] # NULL => root[i] \notin released)
      BY <2>1, <2>2, <2>3 DEF TrieInv, RootInv
    <3>. QED  BY <1>1, <2>1, <2>2, <2>3, <3>1 DEF TrieInv, RootInv
  <2>9. LinkInv'
    BY <2>1, <2>2, <2>3, <2>5, <2>6 DEF TrieInv, LinkInv
  <2>10. NodeInv'
    <3>1. \A i \in Slots : HasNode(i) => Used(root[i])' = Used(root[i]) /\ root'[i] = root[i]
      BY <2>2, <2>3, <2>5 DEF Used
    <3>. QED  BY <2>2, <2>5, <3>1 DEF TrieInv, NodeInv
  <2>11. LeafInv'
    <3>1. \A i, j \in Slots : HasLeaf(i, j) =>
            Leaf(i, j)' = Leaf(i, j) /\ Used(Leaf(i, j))' = Used(Leaf(i, j))
      BY <2>6 DEF HasLeaf
    <3>2. wpc # "m_store" /\ wpc' # "m_store" /\ count' = count
      BY <2>2
    <3>3. \A i, j \in Slots : HasLeaf(i, j) => count[Leaf(i, j)] = Cardinality(Used(Leaf(i, j)))
      BY <3>2 DEF TrieInv, LeafInv
    <3>4. \A i, j \in Slots : HasLeaf(i, j)' =>
            count'[Leaf(i, j)'] = Cardinality(Used(Leaf(i, j))')
      BY <2>7, <3>1, <3>2, <3>3
    <3>. QED  BY <3>2, <3>4 DEF LeafInv
  <2>12. WriterInv'
    BY <1>1, <2>2, <2>3 DEF TrieInv, WriterInv, NodeOf
  <2>13. MappedInv' /\ ReaderInv'
    BY <2>2, <2>6, <2>7, MappedPath, PathsKept
  <2>. QED  BY <2>4, <2>8, <2>9, <2>10, <2>11, <2>12, <2>13 DEF TrieInv
<1>. QED  BY <1>3, <1>4

\* A node just linked is cleared.
LEMMA ClearNodeInv ==
  ASSUME TypeOK, TrieInv, ClearNode
  PROVE  TypeOK' /\ TrieInv'
<1>1. PICK k \in Keys : k = wkey
  BY WriterKey DEF ClearNode
<1>2. k[1] \in Slots /\ k[2] \in Slots /\ k[3] \in Slots
  BY KeySlots
<1>3. /\ wpc = "m_clear_node" /\ wpc' = "m_leaf"
      /\ UNCHANGED <<root, released, mapped, readerVars, wkey, wspan>>
  BY DEF ClearNode, WriterGoto
<1>4. PICK n \in Nodes : n = root[k[1]] /\ n = NodeOf(wkey)
  BY <1>1, <1>2, <1>3 DEF TrieInv, WriterInv, NodeOf, TypeOK
<1>5. slot' = [slot EXCEPT ![n] = [i \in Slots |-> NULL]] /\ count' = [count EXCEPT ![n] = 0]
  BY <1>4 DEF ClearNode, Cleared
<1>6. TypeOK'
  <2>1. 0 \in 0 .. Cardinality(Slots)
    BY FS_CardinalityType
  <2>. QED  BY <1>3, <1>5, <2>1 DEF TypeOK, WriterLabels, readerVars, Objects
<1>7. /\ n \notin Leaves /\ n # NULL /\ count'[n] = 0
      /\ \A i \in Slots : slot'[n][i] = NULL
      /\ \A o \in Objects \ {n} : slot'[o] = slot[o] /\ count'[o] = count[o]
  BY <1>5 DEF TypeOK, Objects
<1>8. RootInv /\ LinkInv /\ NodeInv /\ LeafInv
  BY DEF TrieInv
<1>9. \A i \in Slots : HasNode(i) => i # k[1] /\ root[i] # n
  <2>1. \A i \in Slots : root[i] = n => i = k[1]
    <3>1. root[k[1]] # NULL /\ root[k[1]] = n
      BY <1>4, <1>7
    <3>. QED  BY <1>2, <1>8, <3>1 DEF RootInv
  <2>. QED  BY <1>1, <1>3, <2>1 DEF HasNode, NodeInDoubt
<1>10. \A i \in Slots : HasNode(i)' <=> HasNode(i) \/ i = k[1]
  BY <1>1, <1>3, <1>4, <1>7 DEF HasNode, NodeInDoubt
<1>11. \A i \in Slots : HasNode(i) =>
         /\ count'[root'[i]] = count[root[i]]
         /\ Used(root[i])' = Used(root[i])
         /\ \A j \in Slots : Leaf(i, j)' = Leaf(i, j)
  BY <1>3, <1>7, <1>8, <1>9, NodeFrame
<1>12. Used(root[k[1]])' = {} /\ \A j \in Slots : Leaf(k[1], j)' = NULL
  <2>1. root'[k[1]] = n
    BY <1>3, <1>4
  <2>2. \A i \in Slots : slot'[root'[k[1]]][i] = NULL
    BY <1>7, <2>1
  <2>3. Used(root[k[1]])' = {}
    BY <2>2 DEF Used
  <2>. QED  BY <2>2, <2>3 DEF Leaf
<1>13. /\ \A i, j \in Slots : HasLeaf(i, j)' <=> HasLeaf(i, j)
       /\ \A i, j \in Slots : HasLeaf(i, j) => HasNode(i)
  BY <1>2, <1>3, <1>10, <1>11, <1>12 DEF HasLeaf, LeafInDoubt
<1>14. \A i, j \in Slots : HasLeaf(i, j) =>
         /\ Leaf(i, j)' = Leaf(i, j)
         /\ count'[Leaf(i, j)'] = count[Leaf(i, j)]
         /\ slot'[Leaf(i, j)'] = slot[Leaf(i, j)]
         /\ Used(Leaf(i, j))' = Used(Leaf(i, j))
  <2>1. ASSUME NEW i \in Slots, NEW j \in Slots, HasLeaf(i, j)
        PROVE  /\ Leaf(i, j)' = Leaf(i, j)
               /\ count'[Leaf(i, j)'] = count[Leaf(i, j)]
               /\ slot'[Leaf(i, j)'] = slot[Leaf(i, j)]
               /\ Used(Leaf(i, j))' = Used(Leaf(i, j))
    <3>1. HasNode(i)
      BY <2>1 DEF HasLeaf
    <3>2. Leaf(i, j) \notin Nodes
      BY <1>8, <2>1, PathFacts
    <3>3. Leaf(i, j)' = Leaf(i, j) /\ Leaf(i, j) # n
      BY <1>11, <3>1, <3>2
    <3>. QED  BY <1>7, <1>8, <2>1, <3>3, LeafFrame
  <2>. QED  BY <2>1
<1>15. RootInv'
  BY <1>3, <1>8 DEF RootInv
<1>16. LinkInv'
  <2>1. ASSUME NEW i \in Slots, NEW j \in Slots, HasNode(i)', Leaf(i, j)' # NULL
        PROVE  HasNode(i) /\ Leaf(i, j)' = Leaf(i, j) /\ Leaf(i, j) # NULL
    BY <1>10, <1>11, <1>12, <2>1
  <2>2. ASSUME NEW i \in Slots, NEW j \in Slots, HasNode(i), Leaf(i, j) # NULL
        PROVE  /\ Leaf(i, j) \in Leaves
               /\ Leaf(i, j) \in released <=> wpc = "u_unlink_leaf" /\ i = wkey[1] /\ j = wkey[2]
               /\ \A a, b \in Slots : HasNode(a) /\ Leaf(a, b) = Leaf(i, j) => a = i /\ b = j
    BY <1>8, <2>2 DEF LinkInv
  <2>3. ASSUME NEW i \in Slots, NEW j \in Slots, HasNode(i)', Leaf(i, j)' # NULL
        PROVE  /\ Leaf(i, j)' \in Leaves
               /\ Leaf(i, j)' \in released' <=> wpc' = "u_unlink_leaf" /\ i = wkey'[1] /\ j = wkey'[2]
    BY <1>3, <2>1, <2>2, <2>3
  <2>4. ASSUME NEW i \in Slots, NEW j \in Slots, HasNode(i)', Leaf(i, j)' # NULL,
               NEW a \in Slots, NEW b \in Slots, HasNode(a)', Leaf(a, b)' = Leaf(i, j)'
        PROVE  a = i /\ b = j
    BY <2>1, <2>2, <2>4
  <2>. QED  BY <2>3, <2>4 DEF LinkInv
<1>17. NodeInv'
  <2>1. ASSUME NEW i \in Slots, HasNode(i)'
        PROVE  count'[root'[i]] = Cardinality(Used(root[i])')
    <3>1. CASE HasNode(i)
      BY <1>3, <1>8, <1>11, <3>1 DEF NodeInv
    <3>2. CASE i = k[1]
      BY <1>3, <1>4, <1>7, <1>12, <3>2, FS_EmptySet
    <3>. QED  BY <1>10, <2>1, <3>1, <3>2
  <2>. QED  BY <1>3, <2>1 DEF NodeInv
<1>18. LeafInv'
  BY <1>3, <1>8, <1>13, <1>14 DEF LeafInv
<1>19. WriterInv'
  BY <1>1, <1>3, <1>4, <1>7 DEF TrieInv, WriterInv, NodeOf
<1>20. MappedInv' /\ ReaderInv'
  <2>1. \A i, j \in Slots : HasLeaf(i, j) =>
          /\ root'[i] = root[i] /\ Leaf(i, j)' = Leaf(i, j) /\ HasLeaf(i, j)'
          /\ slot'[Leaf(i, j)] = slot[Leaf(i, j)]
    BY <1>3, <1>13, <1>14
  <2>. QED  BY <1>3, <2>1, LeavesKept
<1>. QED  BY <1>6, <1>15, <1>16, <1>17, <1>18, <1>19, <1>20 DEF TrieInv

LEMMA OtherLeaves ==
  ASSUME LinkInv, NEW a \in Slots, NEW b \in Slots, HasNode(a), Leaf(a, b) # NULL
  PROVE  \A i, j \in Slots : HasNode(i) /\ Leaf(i, j) # NULL /\ ~(i = a /\ j = b) =>
           Leaf(i, j) # Leaf(a, b) /\ Leaf(i, j) \in Leaves
<1>1. \A i, j \in Slots : HasNode(i) /\ Leaf(i, j) = Leaf(a, b) => i = a /\ j = b
  BY DEF LinkInv
<1>2. \A i, j \in Slots : HasNode(i) /\ Leaf(i, j) # NULL => Leaf(i, j) \in Leaves
  BY DEF LinkInv
<1>. QED  BY <1>1, <1>2

\* A step within a call that writes the leaf of the writer's key only.
LEMMA LeafWrite ==
  ASSUME TypeOK, RootInv, LinkInv, NodeInv, LeafInv,
         NEW k \in Keys, k = wkey, HasNode(k[1]),
         NEW l \in Leaves, l = Leaf(k[1], k[2]),
         wpc \notin {"m_clear_node", "u_unlink_node", "u_unlink_leaf"},
         wpc' \notin {"m_clear_node", "u_unlink_node"},
         wpc' = "idle" \/ wkey' = wkey,
         wpc \in {"m_clear_leaf", "m_count_leaf"} <=> wpc' \in {"m_clear_leaf", "m_count_leaf"},
         root' = root,
         \A o \in Objects \ {l} : /\ slot'[o] = slot[o] /\ count'[o] = count[o]
                                  /\ o \in released' <=> o \in released,
         l \in released' <=> wpc' = "u_unlink_leaf",
         HasLeaf(k[1], k[2])' =>
           count'[l] = IF wpc' = "m_store" /\ slot'[l][k[3]] = NULL
                         THEN Cardinality({i \in Slots : slot'[l][i] # NULL}) + 1
                         ELSE Cardinality({i \in Slots : slot'[l][i] # NULL})
  PROVE  /\ RootInv' /\ LinkInv' /\ NodeInv' /\ LeafInv'
         /\ \A i \in Slots : HasNode(i)' <=> HasNode(i)
         /\ \A i, j \in Slots : HasNode(i) => Leaf(i, j)' = Leaf(i, j)
<1>1. k[1] \in Slots /\ k[2] \in Slots /\ k[3] \in Slots
  BY KeySlots
<1>2. /\ l \notin Nodes /\ l # NULL
      /\ \A i \in Slots : root[i] # l /\ (root[i] # NULL => root[i] \in Objects \ {l})
  BY DEF TypeOK, Objects
<1>3. \A i \in Slots : HasNode(i)' <=> HasNode(i)
  BY DEF HasNode, NodeInDoubt
<1>4. \A i \in Slots : HasNode(i) =>
        /\ count'[root'[i]] = count[root[i]] /\ Used(root[i])' = Used(root[i])
        /\ \A j \in Slots : Leaf(i, j)' = Leaf(i, j)
  BY <1>2, NodeFrame
<1>5. \A i, j \in Slots : HasNode(i) /\ Leaf(i, j) # NULL /\ ~(i = k[1] /\ j = k[2]) =>
        Leaf(i, j) # l /\ Leaf(i, j) \in Objects \ {l}
  <2>1. Leaf(k[1], k[2]) # NULL
    BY <1>2
  <2>2. PICK a \in Slots, b \in Slots : a = k[1] /\ b = k[2]
    BY <1>1
  <2>3. HasNode(a) /\ Leaf(a, b) # NULL
    BY <2>1, <2>2
  <2>4. \A i, j \in Slots : HasNode(i) /\ Leaf(i, j) # NULL /\ ~(i = a /\ j = b) =>
          Leaf(i, j) # Leaf(a, b) /\ Leaf(i, j) \in Leaves
    BY <2>3, OtherLeaves
  <2>5. l = Leaf(a, b) /\ \A i, j : i = a /\ j = b <=> i = k[1] /\ j = k[2]
    BY <2>2
  <2>6. \A i, j \in Slots : HasNode(i) /\ Leaf(i, j) # NULL /\ ~(i = k[1] /\ j = k[2]) =>
          Leaf(i, j) # l /\ Leaf(i, j) \in Leaves
    BY <2>4, <2>5
  <2>. QED  BY <2>6 DEF Objects
<1>6. RootInv'
  BY <1>2 DEF RootInv
<1>7. NodeInv'
  BY <1>3, <1>4 DEF NodeInv
<1>8. LinkInv'
  <2>1. ASSUME NEW i \in Slots, NEW j \in Slots, HasNode(i), Leaf(i, j) # NULL
        PROVE  /\ Leaf(i, j) \in Leaves
               /\ Leaf(i, j) \in released' <=> wpc' = "u_unlink_leaf" /\ i = wkey'[1] /\ j = wkey'[2]
               /\ \A a, b \in Slots : HasNode(a) /\ Leaf(a, b) = Leaf(i, j) => a = i /\ b = j
    <3>1. CASE i = k[1] /\ j = k[2]
      BY <2>1, <3>1 DEF LinkInv
    <3>2. CASE ~(i = k[1] /\ j = k[2])
      BY <1>5, <2>1, <3>2 DEF LinkInv
    <3>. QED  BY <3>1, <3>2
  <2>. QED  BY <1>3, <1>4, <2>1 DEF LinkInv
<1>9. LeafInv'
  <2>1. ASSUME NEW i \in Slots, NEW j \in Slots, HasLeaf(i, j)'
        PROVE  count'[Leaf(i, j)'] =
                 IF /\ wpc' = "m_store" /\ i = wkey'[1] /\ j = wkey'[2]
                    /\ slot'[Leaf(i, j)'][wkey'[3]] = NULL
                   THEN Cardinality(Used(Leaf(i, j))') + 1 ELSE Cardinality(Used(Leaf(i, j))')
    <3>1. HasNode(i) /\ Leaf(i, j)' = Leaf(i, j) /\ Leaf(i, j) # NULL
      BY <1>3, <1>4, <2>1 DEF HasLeaf
    <3>2. CASE i = k[1] /\ j = k[2]
      <4>1. Leaf(i, j)' = l
        BY <3>1, <3>2
      <4>2. Used(Leaf(i, j))' = {a \in Slots : slot'[l][a] # NULL}
        BY <4>1 DEF Used
      <4>. QED  BY <2>1, <3>2, <4>1, <4>2
    <3>3. CASE ~(i = k[1] /\ j = k[2])
      <4>1. Leaf(i, j) # l /\ Leaf(i, j) \in Objects \ {l}
        BY <1>5, <3>1, <3>3
      <4>2. HasLeaf(i, j)
        BY <3>1, <3>3 DEF HasLeaf, LeafInDoubt
      <4>3. Used(Leaf(i, j))' = Used(Leaf(i, j))
        BY <3>1, <4>1 DEF Used
      <4>4. count[Leaf(i, j)] = Cardinality(Used(Leaf(i, j)))
        BY <3>3, <4>2 DEF LeafInv
      <4>5. ~(wpc' = "m_store" /\ i = wkey'[1] /\ j = wkey'[2])
        BY <3>3
      <4>. QED  BY <3>1, <4>1, <4>3, <4>4, <4>5
    <3>. QED  BY <3>2, <3>3
  <2>. QED  BY <2>1 DEF LeafInv
<1>. QED  BY <1>3, <1>4, <1>6, <1>7, <1>8, <1>9

\* The leaf of the writer's key, where the writer has a node and a leaf.
LEMMA WriterLeaf ==
  ASSUME TypeOK, TrieInv,
         wpc \in {"m_clear_leaf", "m_count_leaf", "m_count", "m_store", "u_store",
                  "u_free_leaf", "u_unlink_leaf"}
  PROVE  /\ wkey \in Keys /\ mapped[wkey] = NULL
         /\ wkey[1] \in Slots /\ wkey[2] \in Slots /\ wkey[3] \in Slots
         /\ NodeOf(wkey) = root[wkey[1]] /\ LeafOf(wkey) = Leaf(wkey[1], wkey[2])
         /\ HasNode(wkey[1]) /\ root[wkey[1]] \in Nodes
         /\ LeafOf(wkey) \in Leaves /\ LeafOf(wkey) # NULL /\ LeafOf(wkey) \in Objects
         /\ LeafOf(wkey) \in released <=> wpc = "u_unlink_leaf"
         /\ wpc \notin {"m_clear_leaf", "u_unlink_leaf"} => HasLeaf(wkey[1], wkey[2])
<1>1. wkey \in Keys /\ mapped[wkey] = NULL
  BY WriterKey
<1>2. wkey[1] \in Slots /\ wkey[2] \in Slots /\ wkey[3] \in Slots
  BY <1>1, KeySlots
<1>3. NodeOf(wkey) = root[wkey[1]] /\ LeafOf(wkey) = Leaf(wkey[1], wkey[2])
  BY DEF NodeOf, LeafOf, Leaf
<1>4. NodeOf(wkey) # NULL /\ LeafOf(wkey) # NULL
  BY DEF TrieInv, WriterInv
<1>5. HasNode(wkey[1]) /\ root[wkey[1]] \in Nodes
  BY <1>2, <1>3, <1>4 DEF HasNode, NodeInDoubt, TypeOK
<1>6. LeafOf(wkey) \in Leaves /\ (LeafOf(wkey) \in released <=> wpc = "u_unlink_leaf")
  <2>1. /\ Leaf(wkey[1], wkey[2]) \in Leaves
        /\ Leaf(wkey[1], wkey[2]) \in released <=> wpc = "u_unlink_leaf"
    <3>1. PICK a \in Slots, b \in Slots : a = wkey[1] /\ b = wkey[2]
      BY <1>2
    <3>2. HasNode(a) /\ Leaf(a, b) # NULL
      BY <1>3, <1>4, <1>5, <3>1
    <3>3. /\ Leaf(a, b) \in Leaves
          /\ Leaf(a, b) \in released <=> wpc = "u_unlink_leaf" /\ a = wkey[1] /\ b = wkey[2]
      BY <3>2 DEF TrieInv, LinkInv
    <3>. QED  BY <3>1, <3>3
  <2>. QED  BY <1>3, <2>1
<1>. QED  BY <1>1, <1>2, <1>3, <1>4, <1>5, <1>6 DEF HasLeaf, LeafInDoubt, Objects

LEMMA WriterLeafCount ==
  ASSUME TypeOK, TrieInv, wpc \in {"m_count_leaf", "m_count", "m_store", "u_store", "u_free_leaf"}
  PROVE  count[LeafOf(wkey)] =
           IF wpc = "m_store" /\ slot[LeafOf(wkey)][wkey[3]] = NULL
             THEN Cardinality(Used(LeafOf(wkey))) + 1 ELSE Cardinality(Used(LeafOf(wkey)))
<1>1. PICK i \in Slots, j \in Slots :
        i = wkey[1] /\ j = wkey[2] /\ HasLeaf(i, j) /\ LeafOf(wkey) = Leaf(i, j)
  BY WriterLeaf
<1>2. count[Leaf(i, j)] =
        IF wpc = "m_store" /\ slot[Leaf(i, j)][wkey[3]] = NULL
          THEN Cardinality(Used(Leaf(i, j))) + 1 ELSE Cardinality(Used(Leaf(i, j)))
  BY <1>1 DEF TrieInv, LeafInv
<1>. QED  BY <1>1, <1>2

\* A leaf just linked is cleared.
LEMMA ClearLeafInv ==
  ASSUME TypeOK, TrieInv, ClearLeaf
  PROVE  TypeOK' /\ TrieInv'
<1>1. /\ wpc = "m_clear_leaf" /\ wpc' = "m_count_leaf"
      /\ UNCHANGED <<root, released, mapped, readerVars, wkey, wspan>>
  BY DEF ClearLeaf, WriterGoto
<1>2. PICK k \in Keys : k = wkey /\ k[1] \in Slots /\ k[2] \in Slots /\ k[3] \in Slots
                        /\ HasNode(k[1])
  BY <1>1, WriterLeaf
<1>3. PICK l \in Leaves : /\ l = Leaf(k[1], k[2]) /\ l = LeafOf(wkey) /\ l # NULL
                          /\ l \in Objects /\ l \notin released
  BY <1>1, <1>2, WriterLeaf
<1>4. slot' = [slot EXCEPT ![l] = [i \in Slots |-> NULL]] /\ count' = [count EXCEPT ![l] = 0]
  BY <1>3 DEF ClearLeaf, Cleared
<1>5. TypeOK'
  <2>1. 0 \in 0 .. Cardinality(Slots)
    BY FS_CardinalityType
  <2>. QED  BY <1>1, <1>4, <2>1 DEF TypeOK, WriterLabels, readerVars, Objects
<1>6. /\ count'[l] = 0
      /\ \A i \in Slots : slot'[l][i] = NULL
      /\ \A o \in Objects \ {l} : slot'[o] = slot[o] /\ count'[o] = count[o]
  BY <1>3, <1>4 DEF TypeOK
<1>7. Cardinality({i \in Slots : slot'[l][i] # NULL}) = 0
  <2>1. {i \in Slots : slot'[l][i] # NULL} = {}
    BY <1>6
  <2>. QED  BY <2>1, FS_EmptySet
<1>8. /\ RootInv' /\ LinkInv' /\ NodeInv' /\ LeafInv'
      /\ \A i \in Slots : HasNode(i)' <=> HasNode(i)
      /\ \A i, j \in Slots : HasNode(i) => Leaf(i, j)' = Leaf(i, j)
  <2>1. RootInv /\ LinkInv /\ NodeInv /\ LeafInv
    BY DEF TrieInv
  <2>2. count'[l] = IF wpc' = "m_store" /\ slot'[l][k[3]] = NULL
                      THEN Cardinality({i \in Slots : slot'[l][i] # NULL}) + 1
                      ELSE Cardinality({i \in Slots : slot'[l][i] # NULL})
    BY <1>1, <1>6, <1>7
  <2>3. \A o \in Objects \ {l} : /\ slot'[o] = slot[o] /\ count'[o] = count[o]
                                 /\ o \in released' <=> o \in released
    BY <1>1, <1>6
  <2>4. /\ wpc \notin {"m_clear_node", "u_unlink_node", "u_unlink_leaf"}
        /\ wpc' \notin {"m_clear_node", "u_unlink_node"}
        /\ wpc' = "idle" \/ wkey' = wkey
        /\ wpc \in {"m_clear_leaf", "m_count_leaf"} <=> wpc' \in {"m_clear_leaf", "m_count_leaf"}
        /\ root' = root
        /\ l \in released' <=> wpc' = "u_unlink_leaf"
    BY <1>1, <1>3
  <2>. QED  BY <1>2, <1>3, <2>1, <2>2, <2>3, <2>4, LeafWrite
<1>9. WriterInv'
  <2>1. LeafOf(wkey)' = l /\ NodeOf(wkey)' # NULL
    BY <1>1, <1>2, <1>3, <1>8 DEF NodeOf, LeafOf, Leaf, HasNode
  <2>. QED  BY <1>1, <1>3, <2>1 DEF TrieInv, WriterInv
<1>10. MappedInv' /\ ReaderInv'
  <2>1. \A i, j \in Slots : HasLeaf(i, j) => ~(i = k[1] /\ j = k[2]) /\ HasNode(i) /\ Leaf(i, j) # NULL
    BY <1>1, <1>2 DEF HasLeaf, LeafInDoubt
  <2>2. \A i, j \in Slots : HasLeaf(i, j) => Leaf(i, j) \in Objects \ {l}
    <3>1. LinkInv /\ Leaf(k[1], k[2]) # NULL
      BY <1>3 DEF TrieInv
    <3>2. \A i, j \in Slots : HasNode(i) /\ Leaf(i, j) # NULL /\ ~(i = k[1] /\ j = k[2]) =>
            Leaf(i, j) # Leaf(k[1], k[2]) /\ Leaf(i, j) \in Leaves
      BY <1>2, <3>1, OtherLeaves
    <3>. QED  BY <1>3, <2>1, <3>2 DEF Objects
  <2>3. \A i, j \in Slots : HasLeaf(i, j) => HasLeaf(i, j)'
    BY <1>1, <1>8, <2>1 DEF HasLeaf, LeafInDoubt
  <2>. QED  BY <1>1, <1>6, <1>8, <2>1, <2>2, <2>3, LeavesKept
<1>. QED  BY <1>5, <1>8, <1>9, <1>10 DEF TrieInv

\* A mapped page beside the writer's key: in another leaf, or in another slot of
\* its leaf.
LEMMA MappedBeside ==
  ASSUME TypeOK, TrieInv, NEW h \in Keys, mapped[h] # NULL,
         wpc \in {"m_clear_leaf", "m_count_leaf", "m_count", "m_store", "u_store",
                  "u_free_leaf", "u_unlink_leaf"}
  PROVE  /\ h[1] \in Slots /\ h[2] \in Slots /\ h[3] \in Slots
         /\ HasNode(h[1]) /\ HasLeaf(h[1], h[2]) /\ LeafOf(h) = Leaf(h[1], h[2])
         /\ slot[LeafOf(h)][h[3]] = mapped[h] /\ LeafOf(h) \in Leaves
         /\ \/ LeafOf(h) # LeafOf(wkey)
            \/ LeafOf(h) = LeafOf(wkey) /\ h[1] = wkey[1] /\ h[2] = wkey[2] /\ h[3] # wkey[3]
<1>1. /\ h[1] \in Slots /\ h[2] \in Slots /\ h[3] \in Slots /\ h # wkey
      /\ HasNode(h[1]) /\ HasLeaf(h[1], h[2]) /\ LeafOf(h) = Leaf(h[1], h[2])
      /\ slot[LeafOf(h)][h[3]] = mapped[h]
  BY MappedPath
<1>2. PICK k \in Keys : /\ k = wkey /\ k[1] \in Slots /\ k[2] \in Slots
                        /\ HasNode(k[1]) /\ LeafOf(k) = Leaf(k[1], k[2]) /\ Leaf(k[1], k[2]) # NULL
  BY WriterLeaf
<1>3. h[1] = k[1] /\ h[2] = k[2] => h[3] # k[3]
  BY <1>1, <1>2, KeySlots
<1>4. \A i, j \in Slots : HasNode(i) /\ Leaf(i, j) # NULL /\ ~(i = k[1] /\ j = k[2]) =>
        Leaf(i, j) # Leaf(k[1], k[2]) /\ Leaf(i, j) \in Leaves
  BY <1>2, OtherLeaves DEF TrieInv
<1>5. LeafOf(h) \in Leaves
  <2>1. RootInv /\ LinkInv
    BY DEF TrieInv
  <2>2. Leaf(h[1], h[2]) \in Leaves
    BY <1>1, <2>1, PathFacts
  <2>. QED  BY <1>1, <2>2
<1>. QED  BY <1>1, <1>2, <1>3, <1>4, <1>5 DEF HasLeaf

\* A leaf counts a page about to be mapped.
LEMMA CountKeyInv ==
  ASSUME TypeOK, TrieInv, CountKey
  PROVE  TypeOK' /\ TrieInv'
<1>1. /\ wpc = "m_count" /\ wpc' = "m_store"
      /\ UNCHANGED <<root, slot, released, mapped, readerVars, wkey, wspan>>
  BY DEF CountKey, WriterGoto
<1>2. PICK k \in Keys : /\ k = wkey /\ k[1] \in Slots /\ k[2] \in Slots /\ k[3] \in Slots
                        /\ HasNode(k[1]) /\ HasLeaf(k[1], k[2])
  BY <1>1, WriterLeaf
<1>3. PICK l \in Leaves : /\ l = Leaf(k[1], k[2]) /\ l = LeafOf(wkey) /\ l # NULL
                          /\ l \in Objects /\ l \notin released
  BY <1>1, <1>2, WriterLeaf
<1>4. /\ count' = IF slot[l][k[3]] = NULL THEN [count EXCEPT ![l] = @ + 1] ELSE count
      /\ count[l] \in 0 .. Cardinality(Slots)
  BY <1>2, <1>3 DEF CountKey, TypeOK
<1>5. RootInv /\ LinkInv /\ NodeInv /\ LeafInv
  BY DEF TrieInv
<1>6. count[l] = Cardinality(Used(l)) /\ Used(l) = {i \in Slots : slot'[l][i] # NULL}
  <2>1. count[l] = Cardinality(Used(l))
    BY <1>1, <1>3, WriterLeafCount
  <2>2. Used(l) = {i \in Slots : slot'[l][i] # NULL}
    BY <1>1 DEF Used
  <2>. QED  BY <2>1, <2>2
<1>7. slot[l][k[3]] = NULL => count[l] + 1 \in 0 .. Cardinality(Slots)
  <2>1. PICK S \in SUBSET Slots : S = Used(l)
    BY DEF Used
  <2>2. slot[l][k[3]] = NULL => k[3] \in Slots \ S
    BY <1>2, <2>1 DEF Used
  <2>3. slot[l][k[3]] = NULL => Cardinality(S) + 1 \in 0 .. Cardinality(Slots)
    BY <2>2, SlotCount
  <2>. QED  BY <1>6, <2>1, <2>3
<1>8. TypeOK'
  <2>1. count' \in [Objects -> 0 .. Cardinality(Slots)]
    BY <1>3, <1>4, <1>7 DEF TypeOK
  <2>. QED  BY <1>1, <2>1 DEF TypeOK, WriterLabels, readerVars
<1>9. /\ RootInv' /\ LinkInv' /\ NodeInv' /\ LeafInv'
      /\ \A i \in Slots : HasNode(i)' <=> HasNode(i)
      /\ \A i, j \in Slots : HasNode(i) => Leaf(i, j)' = Leaf(i, j)
  <2>1. count'[l] = IF slot[l][k[3]] = NULL THEN count[l] + 1 ELSE count[l]
    BY <1>3, <1>4 DEF TypeOK
  <2>2. count'[l] = IF wpc' = "m_store" /\ slot'[l][k[3]] = NULL
                      THEN Cardinality({i \in Slots : slot'[l][i] # NULL}) + 1
                      ELSE Cardinality({i \in Slots : slot'[l][i] # NULL})
    BY <1>1, <1>6, <2>1
  <2>3. \A o \in Objects \ {l} : /\ slot'[o] = slot[o] /\ count'[o] = count[o]
                                 /\ o \in released' <=> o \in released
    BY <1>1, <1>4 DEF TypeOK
  <2>4. /\ wpc \notin {"m_clear_node", "u_unlink_node", "u_unlink_leaf"}
        /\ wpc' \notin {"m_clear_node", "u_unlink_node"}
        /\ wpc' = "idle" \/ wkey' = wkey
        /\ wpc \in {"m_clear_leaf", "m_count_leaf"} <=> wpc' \in {"m_clear_leaf", "m_count_leaf"}
        /\ root' = root
        /\ l \in released' <=> wpc' = "u_unlink_leaf"
    BY <1>1, <1>3
  <2>. QED  BY <1>2, <1>3, <1>5, <2>2, <2>3, <2>4, LeafWrite
<1>10. WriterInv'
  <2>1. LeafOf(wkey)' = l /\ NodeOf(wkey)' # NULL
    BY <1>1, <1>2, <1>3, <1>9 DEF NodeOf, LeafOf, Leaf, HasNode
  <2>. QED  BY <1>1, <1>3, <2>1 DEF TrieInv, WriterInv
<1>11. MappedInv' /\ ReaderInv'
  <2>1. \A i, j \in Slots : HasLeaf(i, j) => HasNode(i) /\ HasLeaf(i, j)'
    BY <1>1, <1>9 DEF HasLeaf, LeafInDoubt
  <2>. QED  BY <1>1, <1>9, <2>1, LeavesKept
<1>. QED  BY <1>8, <1>9, <1>10, <1>11 DEF TrieInv

\* A page is mapped: the value is stored and the call returns.
LEMMA StoreKeyInv ==
  ASSUME TypeOK, TrieInv, StoreKey
  PROVE  TypeOK' /\ TrieInv'
<1>1. /\ wpc = "m_store" /\ wpc' = "idle" /\ wkey' = NULL /\ wspan' = NULL
      /\ UNCHANGED <<root, count, released, readerVars>>
  BY DEF StoreKey, WriterReturn
<1>2. PICK k \in Keys : /\ k = wkey /\ k[1] \in Slots /\ k[2] \in Slots /\ k[3] \in Slots
                        /\ HasNode(k[1]) /\ HasLeaf(k[1], k[2]) /\ mapped[k] = NULL
  BY <1>1, WriterLeaf
<1>3. PICK l \in Leaves : /\ l = Leaf(k[1], k[2]) /\ l = LeafOf(wkey) /\ l # NULL
                          /\ l \in Objects /\ l \notin released
  BY <1>1, <1>2, WriterLeaf
<1>4. PICK s \in Spans : s = wspan /\ s # NULL
  BY <1>1 DEF TrieInv, WriterInv, TypeOK
<1>5. slot' = [slot EXCEPT ![l][k[3]] = s] /\ mapped' = [mapped EXCEPT ![k] = s]
  BY <1>2, <1>3, <1>4 DEF StoreKey
<1>6. /\ slot'[l][k[3]] = s /\ \A i \in Slots \ {k[3]} : slot'[l][i] = slot[l][i]
      /\ \A o \in Objects \ {l} : slot'[o] = slot[o]
      /\ mapped'[k] = s /\ \A h \in Keys \ {k} : mapped'[h] = mapped[h]
  BY <1>2, <1>3, <1>5 DEF TypeOK
<1>7. RootInv /\ LinkInv /\ NodeInv /\ LeafInv
  BY DEF TrieInv
<1>8. TypeOK'
  BY <1>1, <1>2, <1>3, <1>5 DEF TypeOK, WriterLabels, readerVars
<1>9. count[l] = Cardinality({i \in Slots : slot'[l][i] # NULL})
  <2>1. PICK S \in SUBSET Slots : S = Used(l)
    BY DEF Used
  <2>2. CASE slot[l][k[3]] = NULL
    <3>1. count[l] = Cardinality(S) + 1
      BY <1>1, <1>2, <1>3, <2>1, <2>2, WriterLeafCount
    <3>2. k[3] \in Slots \ S
      BY <1>2, <2>1, <2>2 DEF Used
    <3>3. {i \in Slots : slot'[l][i] # NULL} = S \cup {k[3]}
      BY ZenonT(60), <1>2, <1>4, <1>6, <2>1 DEF Used
    <3>. QED  BY <3>1, <3>2, <3>3, SlotCount
  <2>3. CASE slot[l][k[3]] # NULL
    <3>1. count[l] = Cardinality(S)
      BY <1>1, <1>2, <1>3, <2>1, <2>3, WriterLeafCount
    <3>2. {i \in Slots : slot'[l][i] # NULL} = S
      BY <1>2, <1>4, <1>6, <2>1, <2>3 DEF Used
    <3>. QED  BY <3>1, <3>2
  <2>. QED  BY <2>2, <2>3
<1>10. /\ RootInv' /\ LinkInv' /\ NodeInv' /\ LeafInv'
       /\ \A i \in Slots : HasNode(i)' <=> HasNode(i)
       /\ \A i, j \in Slots : HasNode(i) => Leaf(i, j)' = Leaf(i, j)
  <2>1. count'[l] = IF wpc' = "m_store" /\ slot'[l][k[3]] = NULL
                      THEN Cardinality({i \in Slots : slot'[l][i] # NULL}) + 1
                      ELSE Cardinality({i \in Slots : slot'[l][i] # NULL})
    BY <1>1, <1>9
  <2>2. \A o \in Objects \ {l} : /\ slot'[o] = slot[o] /\ count'[o] = count[o]
                                 /\ o \in released' <=> o \in released
    BY <1>1, <1>6
  <2>3. /\ wpc \notin {"m_clear_node", "u_unlink_node", "u_unlink_leaf"}
        /\ wpc' \notin {"m_clear_node", "u_unlink_node"}
        /\ wpc' = "idle" \/ wkey' = wkey
        /\ wpc \in {"m_clear_leaf", "m_count_leaf"} <=> wpc' \in {"m_clear_leaf", "m_count_leaf"}
        /\ root' = root
        /\ l \in released' <=> wpc' = "u_unlink_leaf"
    BY <1>1, <1>3
  <2>. QED  BY <1>2, <1>3, <1>7, <2>1, <2>2, <2>3, LeafWrite
<1>11. WriterInv'
  BY <1>1 DEF WriterInv
<1>12. \A i, j \in Slots : HasLeaf(i, j) => HasLeaf(i, j)'
  BY <1>1, <1>10 DEF HasLeaf, LeafInDoubt
<1>13. \A h \in Keys : mapped[h] # NULL =>
         /\ h # k /\ NodeOf(h)' = NodeOf(h) /\ LeafOf(h)' = LeafOf(h)
         /\ slot'[LeafOf(h)][h[3]] = mapped[h] /\ HasLeaf(h[1], h[2])'
  <2>1. ASSUME NEW h \in Keys, mapped[h] # NULL
        PROVE  /\ h # k /\ NodeOf(h)' = NodeOf(h) /\ LeafOf(h)' = LeafOf(h)
               /\ slot'[LeafOf(h)][h[3]] = mapped[h] /\ HasLeaf(h[1], h[2])'
    <3>1. /\ h[1] \in Slots /\ h[2] \in Slots /\ h[3] \in Slots
          /\ HasNode(h[1]) /\ HasLeaf(h[1], h[2]) /\ LeafOf(h) = Leaf(h[1], h[2])
          /\ slot[LeafOf(h)][h[3]] = mapped[h] /\ LeafOf(h) \in Objects
          /\ LeafOf(h) # l \/ (LeafOf(h) = l /\ h[3] # k[3])
      BY <1>1, <1>2, <1>3, <2>1, MappedBeside DEF Objects
    <3>2. Leaf(h[1], h[2])' = Leaf(h[1], h[2])
      BY <1>10, <3>1
    <3>3. NodeOf(h)' = NodeOf(h) /\ LeafOf(h)' = LeafOf(h)
      BY <1>1, <3>1, <3>2 DEF NodeOf, LeafOf, Leaf
    <3>4. slot'[LeafOf(h)][h[3]] = mapped[h]
      BY <1>6, <3>1
    <3>5. HasLeaf(h[1], h[2])'
      BY <1>12, <3>1
    <3>. QED  BY <1>2, <2>1, <3>3, <3>4, <3>5
  <2>. QED  BY <2>1
<1>14. MappedInv'
  <2>1. ASSUME NEW h \in Keys, mapped'[h] # NULL
        PROVE  HasLeaf(h[1], h[2])' /\ slot'[LeafOf(h)'][h[3]] = mapped'[h]
    <3>1. CASE h = k
      <4>1. LeafOf(k)' = l
        BY <1>1, <1>2, <1>3, <1>10 DEF NodeOf, LeafOf, Leaf
      <4>. QED  BY <1>2, <1>6, <1>12, <3>1, <4>1
    <3>2. CASE h # k
      BY <1>6, <1>13, <2>1, <3>2
    <3>. QED  BY <3>1, <3>2
  <2>. QED  BY <2>1 DEF MappedInv, LeafOf, NodeOf
<1>15. ReaderInv'
  <2>1. \A h \in Keys : mapped[h] # NULL /\ ~Unread(h) =>
          mapped'[h] = mapped[h] /\ NodeOf(h)' = NodeOf(h) /\ LeafOf(h)' = LeafOf(h)
    BY <1>6, <1>13
  <2>. QED  BY <1>1, <2>1, ReadersKept DEF TrieInv
<1>. QED  BY <1>8, <1>10, <1>11, <1>14, <1>15 DEF TrieInv

-----------------------------------------------------------------------------
(* cmalloc_unmap                                                           *)

\* A page is unmapped and its leaf no longer counts it.
LEMMA ClearKeyInv ==
  ASSUME TypeOK, TrieInv, ClearKey
  PROVE  TypeOK' /\ TrieInv'
<1>1. /\ wpc = "u_store" /\ wpc' \in {"u_free_leaf", "u_node"}
      /\ UNCHANGED <<root, released, mapped, readerVars, wkey, wspan>>
  BY DEF ClearKey, WriterGoto
<1>2. PICK k \in Keys : /\ k = wkey /\ k[1] \in Slots /\ k[2] \in Slots /\ k[3] \in Slots
                        /\ HasNode(k[1]) /\ HasLeaf(k[1], k[2])
  BY <1>1, WriterLeaf
<1>3. PICK l \in Leaves : /\ l = Leaf(k[1], k[2]) /\ l = LeafOf(wkey) /\ l # NULL
                          /\ l \in Objects /\ l \notin released
  BY <1>1, <1>2, WriterLeaf
<1>4. /\ slot' = [slot EXCEPT ![l][k[3]] = NULL] /\ count' = [count EXCEPT ![l] = @ - 1]
      /\ wpc' = IF count'[l] = 0 THEN "u_free_leaf" ELSE "u_node"
  BY <1>2, <1>3 DEF ClearKey, WriterGoto, Unused
<1>5. /\ slot'[l][k[3]] = NULL /\ \A i \in Slots \ {k[3]} : slot'[l][i] = slot[l][i]
      /\ count'[l] = count[l] - 1
      /\ \A o \in Objects \ {l} : slot'[o] = slot[o] /\ count'[o] = count[o]
  BY <1>2, <1>3, <1>4 DEF TypeOK
<1>6. /\ Cardinality({i \in Slots : slot'[l][i] # NULL}) = count[l] - 1
      /\ count[l] - 1 \in 0 .. Cardinality(Slots)
      /\ count[l] - 1 = 0 <=> {i \in Slots : slot'[l][i] # NULL} = {}
  <2>1. PICK S \in SUBSET Slots : S = Used(l)
    BY DEF Used
  <2>2. count[l] = Cardinality(S)
    BY <1>1, <1>3, <2>1, WriterLeafCount
  <2>3. k[3] \in S
    BY <1>1, <1>2, <1>3, <2>1 DEF Used, TrieInv, WriterInv
  <2>4. PICK T \in SUBSET Slots : T = S \ {k[3]}
    OBVIOUS
  <2>5. {i \in Slots : slot'[l][i] # NULL} = T
    BY <1>2, <1>5, <2>1, <2>4 DEF Used
  <2>6. Cardinality(T) = Cardinality(S) - 1
    BY <2>3, <2>4, SlotCount
  <2>7. Cardinality(T) \in 0 .. Cardinality(Slots) /\ (Cardinality(T) = 0 <=> T = {})
    BY SlotCount
  <2>. QED  BY <2>2, <2>5, <2>6, <2>7
<1>7. TypeOK'
  BY <1>1, <1>2, <1>3, <1>4, <1>6 DEF TypeOK, WriterLabels, readerVars
<1>8. /\ RootInv' /\ LinkInv' /\ NodeInv' /\ LeafInv'
      /\ \A i \in Slots : HasNode(i)' <=> HasNode(i)
      /\ \A i, j \in Slots : HasNode(i) => Leaf(i, j)' = Leaf(i, j)
  <2>1. RootInv /\ LinkInv /\ NodeInv /\ LeafInv
    BY DEF TrieInv
  <2>2. count'[l] = IF wpc' = "m_store" /\ slot'[l][k[3]] = NULL
                      THEN Cardinality({i \in Slots : slot'[l][i] # NULL}) + 1
                      ELSE Cardinality({i \in Slots : slot'[l][i] # NULL})
    BY <1>1, <1>5, <1>6
  <2>3. \A o \in Objects \ {l} : /\ slot'[o] = slot[o] /\ count'[o] = count[o]
                                 /\ o \in released' <=> o \in released
    BY <1>1, <1>5
  <2>4. /\ wpc \notin {"m_clear_node", "u_unlink_node", "u_unlink_leaf"}
        /\ wpc' \notin {"m_clear_node", "u_unlink_node"}
        /\ wpc' = "idle" \/ wkey' = wkey
        /\ wpc \in {"m_clear_leaf", "m_count_leaf"} <=> wpc' \in {"m_clear_leaf", "m_count_leaf"}
        /\ root' = root
        /\ l \in released' <=> wpc' = "u_unlink_leaf"
    BY <1>1, <1>3
  <2>. QED  BY <1>2, <1>3, <2>1, <2>2, <2>3, <2>4, LeafWrite
<1>9. WriterInv'
  <2>1. LeafOf(wkey)' = l /\ NodeOf(wkey)' # NULL
    BY <1>1, <1>2, <1>3, <1>8 DEF NodeOf, LeafOf, Leaf, HasNode
  <2>2. wpc' = "u_free_leaf" => Used(LeafOf(wkey))' = {}
    BY <1>4, <1>5, <1>6, <2>1 DEF Used
  <2>. QED  BY <1>1, <1>3, <2>1, <2>2 DEF TrieInv, WriterInv
<1>10. \A i, j \in Slots : HasLeaf(i, j) => HasLeaf(i, j)'
  BY <1>1, <1>8 DEF HasLeaf, LeafInDoubt
<1>11. MappedInv' /\ ReaderInv'
  <2>1. ASSUME NEW h \in Keys, mapped[h] # NULL
        PROVE  /\ root'[h[1]] = root[h[1]]
               /\ Leaf(h[1], h[2])' = Leaf(h[1], h[2])
               /\ slot'[LeafOf(h)][h[3]] = slot[LeafOf(h)][h[3]]
               /\ HasLeaf(h[1], h[2])'
    <3>1. /\ h[1] \in Slots /\ h[2] \in Slots /\ h[3] \in Slots
          /\ HasNode(h[1]) /\ HasLeaf(h[1], h[2]) /\ LeafOf(h) \in Objects
          /\ LeafOf(h) # l \/ (LeafOf(h) = l /\ h[3] # k[3])
      BY <1>1, <1>2, <1>3, <2>1, MappedBeside DEF Objects
    <3>2. slot'[LeafOf(h)][h[3]] = slot[LeafOf(h)][h[3]]
      BY <1>5, <3>1
    <3>. QED  BY <1>1, <1>8, <1>10, <3>1, <3>2
  <2>. QED  BY <1>1, <2>1, PathsKept
<1>. QED  BY <1>7, <1>8, <1>9, <1>11 DEF TrieInv

\* A leaf with no page left is released while its node links it: no reader can
\* be on it, for no page it held is mapped.
LEMMA FreeLeafInv ==
  ASSUME TypeOK, TrieInv, FreeLeaf
  PROVE  TypeOK' /\ TrieInv'
<1>1. /\ wpc = "u_free_leaf" /\ wpc' = "u_unlink_leaf"
      /\ UNCHANGED <<root, count, mapped, readerVars, wkey, wspan>>
  BY DEF FreeLeaf, WriterGoto
<1>2. PICK k \in Keys : /\ k = wkey /\ k[1] \in Slots /\ k[2] \in Slots /\ k[3] \in Slots
                        /\ HasNode(k[1]) /\ HasLeaf(k[1], k[2])
  BY <1>1, WriterLeaf
<1>3. PICK l \in Leaves : /\ l = Leaf(k[1], k[2]) /\ l = LeafOf(wkey) /\ l # NULL
                          /\ l \in Objects /\ l \notin released
  BY <1>1, <1>2, WriterLeaf
<1>4. PICK rest \in Objects \cup {NULL} :
        slot' = [slot EXCEPT ![l][0] = rest] /\ released' = released \cup {l}
  BY <1>3 DEF FreeLeaf, Release, TypeOK, Objects
<1>5. \A o \in Objects \ {l} : /\ slot'[o] = slot[o] /\ count'[o] = count[o]
                               /\ o \in released' <=> o \in released
  BY <1>1, <1>4 DEF TypeOK
<1>6. TypeOK'
  BY <1>1, <1>3, <1>4 DEF TypeOK, WriterLabels, readerVars
<1>7. ~HasLeaf(k[1], k[2])'
  BY <1>1, <1>2 DEF HasLeaf, LeafInDoubt
<1>8. /\ RootInv' /\ LinkInv' /\ NodeInv' /\ LeafInv'
      /\ \A i \in Slots : HasNode(i)' <=> HasNode(i)
      /\ \A i, j \in Slots : HasNode(i) => Leaf(i, j)' = Leaf(i, j)
  <2>1. RootInv /\ LinkInv /\ NodeInv /\ LeafInv
    BY DEF TrieInv
  <2>2. /\ wpc \notin {"m_clear_node", "u_unlink_node", "u_unlink_leaf"}
        /\ wpc' \notin {"m_clear_node", "u_unlink_node"}
        /\ wpc' = "idle" \/ wkey' = wkey
        /\ wpc \in {"m_clear_leaf", "m_count_leaf"} <=> wpc' \in {"m_clear_leaf", "m_count_leaf"}
        /\ root' = root
        /\ l \in released' <=> wpc' = "u_unlink_leaf"
    BY <1>1, <1>4
  <2>. QED  BY <1>2, <1>3, <1>5, <1>7, <2>1, <2>2, LeafWrite
<1>9. WriterInv'
  <2>1. LeafOf(wkey)' = l /\ NodeOf(wkey)' # NULL
    BY <1>1, <1>2, <1>3, <1>8 DEF NodeOf, LeafOf, Leaf, HasNode
  <2>. QED  BY <1>1, <1>3, <2>1 DEF TrieInv, WriterInv
<1>10. MappedInv' /\ ReaderInv'
  <2>1. ASSUME NEW h \in Keys, mapped[h] # NULL
        PROVE  /\ root'[h[1]] = root[h[1]]
               /\ Leaf(h[1], h[2])' = Leaf(h[1], h[2])
               /\ slot'[LeafOf(h)][h[3]] = slot[LeafOf(h)][h[3]]
               /\ HasLeaf(h[1], h[2])'
    <3>1. /\ h[1] \in Slots /\ h[2] \in Slots /\ h[3] \in Slots
          /\ HasNode(h[1]) /\ HasLeaf(h[1], h[2]) /\ LeafOf(h) = Leaf(h[1], h[2])
          /\ slot[LeafOf(h)][h[3]] = mapped[h] /\ LeafOf(h) \in Objects
      BY <1>1, <2>1, MappedBeside DEF Objects
    <3>2. LeafOf(h) # l
      <4>1. Used(l) = {}
        BY <1>1, <1>3 DEF TrieInv, WriterInv
      <4>. QED  BY <2>1, <3>1, <4>1 DEF Used
    <3>3. slot'[LeafOf(h)][h[3]] = slot[LeafOf(h)][h[3]]
      BY <1>5, <3>1, <3>2
    <3>4. ~(h[1] = k[1] /\ h[2] = k[2])
      BY <1>3, <3>1, <3>2
    <3>5. Leaf(h[1], h[2])' = Leaf(h[1], h[2]) /\ HasNode(h[1])'
      BY <1>8, <3>1
    <3>6. HasLeaf(h[1], h[2])'
      BY <1>1, <1>2, <3>1, <3>4, <3>5 DEF HasLeaf, LeafInDoubt
    <3>. QED  BY <1>1, <3>3, <3>5, <3>6
  <2>. QED  BY <1>1, <2>1, PathsKept
<1>. QED  BY <1>6, <1>8, <1>9, <1>10 DEF TrieInv

-----------------------------------------------------------------------------
(* Steps on the node of the writer's key                                   *)

\* A step that writes the count of that node, or its slot for the leaf of the
\* key, and leaves a leaf that is not in doubt alone.
LEMMA NodeWrite ==
  ASSUME TypeOK, TrieInv, NEW k \in Keys, k = wkey, HasNode(k[1]),
         NEW n \in Nodes, n = root[k[1]],
         wpc \notin {"m_clear_node", "u_unlink_node", "m_store"},
         wpc' \notin {"m_clear_node", "u_unlink_node", "m_store", "u_unlink_leaf"},
         UNCHANGED <<root, mapped, readerVars, wkey>>,
         \A o \in Objects \ {n} : slot'[o] = slot[o] /\ count'[o] = count[o],
         \A j \in Slots \ {k[2]} : slot'[n][j] = slot[n][j],
         HasLeaf(k[1], k[2])' <=> HasLeaf(k[1], k[2]),
         HasLeaf(k[1], k[2]) => slot'[n][k[2]] = slot[n][k[2]],
         released' \subseteq released, \A o \in Nodes : o \in released' <=> o \in released,
         slot'[n][k[2]] # NULL =>
           /\ slot'[n][k[2]] \in Leaves /\ slot'[n][k[2]] \notin released'
           /\ \A a, b \in Slots : HasNode(a) /\ Leaf(a, b) = slot'[n][k[2]] => a = k[1] /\ b = k[2],
         Cardinality({j \in Slots : slot'[n][j] # NULL}) =
           IF wpc' \in {"m_clear_leaf", "m_count_leaf"} THEN count'[n] + 1 ELSE count'[n]
  PROVE  /\ RootInv' /\ LinkInv' /\ NodeInv' /\ LeafInv' /\ MappedInv' /\ ReaderInv'
         /\ HasNode(k[1])'
<1>1. RootInv /\ LinkInv /\ NodeInv /\ LeafInv
  BY DEF TrieInv
<1>2. k[1] \in Slots /\ k[2] \in Slots /\ k[3] \in Slots
  BY KeySlots
<1>3. \A i \in Slots : HasNode(i)' <=> HasNode(i)
  BY DEF HasNode, NodeInDoubt
<1>4. \A i \in Slots \ {k[1]} : HasNode(i) => root[i] # n
  BY <1>1, <1>2 DEF RootInv, HasNode
<1>5. \A i \in Slots \ {k[1]} : HasNode(i) =>
        /\ count'[root'[i]] = count[root[i]] /\ Used(root[i])' = Used(root[i])
        /\ \A j \in Slots : Leaf(i, j)' = Leaf(i, j)
  <2>1. ASSUME NEW i \in Slots, i # k[1], HasNode(i)
        PROVE  /\ count'[root'[i]] = count[root[i]] /\ Used(root[i])' = Used(root[i])
               /\ \A j \in Slots : Leaf(i, j)' = Leaf(i, j)
    <3>1. root[i] # n /\ root'[i] = root[i]
      BY <1>4, <2>1
    <3>2. root[i] \in Objects
      BY <1>1, <2>1, PathFacts
    <3>3. slot'[root[i]] = slot[root[i]] /\ count'[root[i]] = count[root[i]]
      BY <3>1, <3>2
    <3>. QED  BY <3>1, <3>3 DEF Used, Leaf
  <2>. QED  BY <2>1
<1>6. /\ Used(root[k[1]])' = {j \in Slots : slot'[n][j] # NULL}
      /\ \A j \in Slots : Leaf(k[1], j)' = slot'[n][j] /\ Leaf(k[1], j) = slot[n][j]
  BY DEF Used, Leaf
<1>7. \A i, j \in Slots : HasNode(i) /\ ~(i = k[1] /\ j = k[2]) => Leaf(i, j)' = Leaf(i, j)
  <2>1. \A j \in Slots \ {k[2]} : Leaf(k[1], j)' = Leaf(k[1], j)
    BY <1>6
  <2>. QED  BY <1>5, <2>1
<1>8. RootInv'
  BY <1>1 DEF RootInv, TypeOK
<1>9. NodeInv'
  <2>1. ASSUME NEW i \in Slots, HasNode(i)
        PROVE  Cardinality(Used(root[i])') =
                 IF wpc' \in {"m_clear_leaf", "m_count_leaf"} /\ i = wkey'[1]
                   THEN count'[root'[i]] + 1 ELSE count'[root'[i]]
    <3>1. CASE i = k[1]
      BY <1>6, <3>1
    <3>2. CASE i # k[1]
      BY <1>1, <1>5, <2>1, <3>2 DEF NodeInv
    <3>. QED  BY <3>1, <3>2
  <2>. QED  BY <1>3, <2>1 DEF NodeInv
<1>10. LinkInv'
  <2>1. ASSUME NEW i \in Slots, NEW j \in Slots, HasNode(i), Leaf(i, j)' # NULL
        PROVE  /\ Leaf(i, j)' \in Leaves /\ Leaf(i, j)' \notin released'
               /\ \A a, b \in Slots : HasNode(a) /\ Leaf(a, b)' = Leaf(i, j)' => a = i /\ b = j
    <3>1. CASE i = k[1] /\ j = k[2]
      <4>1. Leaf(i, j)' = slot'[n][k[2]]
        BY <1>2, <1>6, <3>1
      <4>2. \A a, b \in Slots : HasNode(a) /\ Leaf(a, b)' = Leaf(i, j)' /\ ~(a = k[1] /\ b = k[2]) => FALSE
        BY <1>7, <2>1, <4>1
      <4>. QED  BY <2>1, <3>1, <4>1, <4>2
    <3>2. CASE ~(i = k[1] /\ j = k[2])
      <4>1. Leaf(i, j)' = Leaf(i, j)
        BY <1>7, <2>1, <3>2
      <4>2. /\ Leaf(i, j) \in Leaves /\ Leaf(i, j) \notin released
            /\ \A a, b \in Slots : HasNode(a) /\ Leaf(a, b) = Leaf(i, j) => a = i /\ b = j
        BY <1>1, <2>1, <3>2, <4>1 DEF LinkInv
      <4>3. \A a, b \in Slots : HasNode(a) /\ Leaf(a, b)' = Leaf(i, j)' => ~(a = k[1] /\ b = k[2])
        <5>1. slot'[n][k[2]] # Leaf(i, j)
          BY <2>1, <3>2, <4>1
        <5>2. Leaf(k[1], k[2])' # Leaf(i, j)'
          BY <1>2, <1>6, <4>1, <5>1
        <5>. QED  BY <5>2
      <4>4. \A a, b \in Slots : HasNode(a) /\ Leaf(a, b)' = Leaf(i, j)' => a = i /\ b = j
        BY <1>7, <4>1, <4>2, <4>3
      <4>. QED  BY <4>1, <4>2, <4>4
    <3>. QED  BY <3>1, <3>2
  <2>. QED  BY <1>3, <2>1 DEF LinkInv
<1>11. \A i, j \in Slots : HasLeaf(i, j)' <=> HasLeaf(i, j)
  BY <1>3, <1>7 DEF HasLeaf, LeafInDoubt
<1>12. \A i, j \in Slots : HasLeaf(i, j) =>
         /\ Leaf(i, j)' = Leaf(i, j) /\ Leaf(i, j) \in Objects \ {n}
         /\ count'[Leaf(i, j)] = count[Leaf(i, j)] /\ slot'[Leaf(i, j)] = slot[Leaf(i, j)]
  <2>1. ASSUME NEW i \in Slots, NEW j \in Slots, HasLeaf(i, j)
        PROVE  /\ Leaf(i, j)' = Leaf(i, j) /\ Leaf(i, j) \in Objects \ {n}
               /\ count'[Leaf(i, j)] = count[Leaf(i, j)] /\ slot'[Leaf(i, j)] = slot[Leaf(i, j)]
    <3>1. Leaf(i, j) \in Objects \ {n} /\ HasNode(i)
      <4>1. Leaf(i, j) \in Objects /\ Leaf(i, j) \notin Nodes /\ HasNode(i)
        BY <1>1, <2>1, PathFacts
      <4>. QED  BY <4>1
    <3>2. CASE i = k[1] /\ j = k[2]
      BY <1>2, <1>6, <2>1, <3>1, <3>2
    <3>3. CASE ~(i = k[1] /\ j = k[2])
      BY <1>7, <3>1, <3>3
    <3>. QED  BY <3>1, <3>2, <3>3
  <2>. QED  BY <2>1
<1>13. LeafInv'
  <2>1. ASSUME NEW i \in Slots, NEW j \in Slots, HasLeaf(i, j)
        PROVE  count'[Leaf(i, j)'] = Cardinality(Used(Leaf(i, j))')
    <3>1. Used(Leaf(i, j))' = Used(Leaf(i, j))
      <4>1. slot'[Leaf(i, j)'] = slot[Leaf(i, j)]
        BY <1>12, <2>1
      <4>. QED  BY <4>1 DEF Used
    <3>2. count[Leaf(i, j)] = Cardinality(Used(Leaf(i, j)))
      BY <1>1, <2>1 DEF LeafInv
    <3>. QED  BY <1>12, <2>1, <3>1, <3>2
  <2>. QED  BY <1>11, <2>1 DEF LeafInv
<1>14. MappedInv' /\ ReaderInv'
  BY <1>11, <1>12, LeavesKept
<1>. QED  BY <1>2, <1>3, <1>8, <1>9, <1>10, <1>13, <1>14

\* The node of the writer's key, where the writer has one, and its count.
LEMMA WriterNode ==
  ASSUME TypeOK, TrieInv, wpc \notin {"idle", "m_node", "m_clear_node", "u_unlink_node"}
  PROVE  /\ wkey \in Keys /\ mapped[wkey] = NULL
         /\ wkey[1] \in Slots /\ wkey[2] \in Slots /\ wkey[3] \in Slots
         /\ NodeOf(wkey) = root[wkey[1]] /\ LeafOf(wkey) = slot[NodeOf(wkey)][wkey[2]]
         /\ HasNode(wkey[1])
         /\ NodeOf(wkey) \in Nodes /\ NodeOf(wkey) # NULL /\ NodeOf(wkey) \in Objects
         /\ NodeOf(wkey) \notin released
         /\ Cardinality(Used(NodeOf(wkey))) =
              IF wpc \in {"m_clear_leaf", "m_count_leaf"}
                THEN count[NodeOf(wkey)] + 1 ELSE count[NodeOf(wkey)]
<1>1. wkey \in Keys /\ mapped[wkey] = NULL
  BY WriterKey
<1>2. wkey[1] \in Slots /\ wkey[2] \in Slots /\ wkey[3] \in Slots
  BY <1>1, KeySlots
<1>3. NodeOf(wkey) = root[wkey[1]] /\ LeafOf(wkey) = slot[NodeOf(wkey)][wkey[2]]
  BY DEF NodeOf, LeafOf
<1>4. NodeOf(wkey) # NULL
  BY DEF TrieInv, WriterInv
<1>5. HasNode(wkey[1]) /\ root[wkey[1]] \in Nodes
  BY <1>2, <1>3, <1>4 DEF HasNode, NodeInDoubt, TypeOK
<1>6. root[wkey[1]] \notin released
  BY <1>2, <1>3, <1>4 DEF TrieInv, RootInv
<1>7. PICK i \in Slots : i = wkey[1] /\ HasNode(i) /\ root[i] = NodeOf(wkey)
  BY <1>2, <1>3, <1>5
<1>8. Cardinality(Used(root[i])) =
        IF wpc \in {"m_clear_leaf", "m_count_leaf"} THEN count[root[i]] + 1 ELSE count[root[i]]
  BY <1>7 DEF TrieInv, NodeInv
<1>. QED  BY <1>1, <1>2, <1>3, <1>4, <1>5, <1>6, <1>7, <1>8 DEF Objects

\* A missing leaf is linked.
LEMMA LinkLeafInv ==
  ASSUME TypeOK, TrieInv, LinkLeaf
  PROVE  TypeOK' /\ TrieInv'
<1>1. /\ wpc = "m_leaf" /\ wpc' \in {"m_clear_leaf", "m_count"}
      /\ UNCHANGED <<root, count, mapped, readerVars, wkey, wspan>>
  BY DEF LinkLeaf, WriterGoto
<1>2. CASE LeafOf(wkey) # NULL
  <2>1. UNCHANGED trieVars /\ wpc' = "m_count"
    BY <1>2 DEF LinkLeaf, WriterGoto, trieVars
  <2>. QED  BY <1>1, <1>2, <2>1, SkipInv
<1>3. CASE LeafOf(wkey) = NULL
  <2>1. PICK k \in Keys : /\ k = wkey /\ k[1] \in Slots /\ k[2] \in Slots /\ k[3] \in Slots
                          /\ HasNode(k[1])
    BY <1>1, WriterNode
  <2>2. PICK n \in Nodes : /\ n = root[k[1]] /\ n = NodeOf(wkey) /\ n # NULL /\ n \in Objects
                           /\ Cardinality(Used(n)) = count[n] /\ slot[n][k[2]] = NULL
    BY <1>1, <1>3, <2>1, WriterNode
  <2>3. PICK l \in Leaves : /\ l \in released /\ released' = released \ {l}
                            /\ slot' = [slot EXCEPT ![n][k[2]] = l]
    BY <1>3, <2>1, <2>2 DEF LinkLeaf, Take
  <2>4. wpc' = "m_clear_leaf"
    BY <1>3 DEF LinkLeaf, WriterGoto
  <2>5. l \in Objects /\ l \notin Nodes /\ l # NULL
    BY DEF Objects
  <2>6. /\ slot'[n][k[2]] = l /\ \A j \in Slots \ {k[2]} : slot'[n][j] = slot[n][j]
        /\ \A o \in Objects \ {n} : slot'[o] = slot[o]
    BY <2>1, <2>2, <2>3 DEF TypeOK
  <2>7. TypeOK'
    BY <1>1, <2>1, <2>2, <2>3, <2>5 DEF TypeOK, WriterLabels, readerVars
  <2>8. Cardinality({j \in Slots : slot'[n][j] # NULL}) = count[n] + 1
    <3>1. PICK S \in SUBSET Slots : S = Used(n)
      BY DEF Used
    <3>2. k[2] \in Slots \ S
      BY <2>1, <2>2, <3>1 DEF Used
    <3>3. {j \in Slots : slot'[n][j] # NULL} = S \cup {k[2]}
      BY <2>1, <2>5, <2>6, <3>1 DEF Used
    <3>. QED  BY <2>2, <3>1, <3>2, <3>3, SlotCount
  <2>9. \A a, b \in Slots : HasNode(a) => Leaf(a, b) # l
    <3>1. \A a, b \in Slots : HasNode(a) /\ Leaf(a, b) # NULL => Leaf(a, b) \notin released
      BY <1>1 DEF TrieInv, LinkInv
    <3>. QED  BY <2>3, <2>5, <3>1
  <2>10. ~HasLeaf(k[1], k[2])' /\ ~HasLeaf(k[1], k[2])
    BY <1>1, <2>1, <2>2, <2>4 DEF HasLeaf, LeafInDoubt, Leaf
  <2>11. /\ RootInv' /\ LinkInv' /\ NodeInv' /\ LeafInv' /\ MappedInv' /\ ReaderInv'
         /\ HasNode(k[1])'
    <3>1. released' \subseteq released /\ \A o \in Nodes : o \in released' <=> o \in released
      BY <2>3, <2>5
    <3>2. slot'[n][k[2]] # NULL =>
           /\ slot'[n][k[2]] \in Leaves /\ slot'[n][k[2]] \notin released'
           /\ \A a, b \in Slots : HasNode(a) /\ Leaf(a, b) = slot'[n][k[2]] => a = k[1] /\ b = k[2]
      BY <2>3, <2>6, <2>9
    <3>3. Cardinality({j \in Slots : slot'[n][j] # NULL}) =
           IF wpc' \in {"m_clear_leaf", "m_count_leaf"} THEN count'[n] + 1 ELSE count'[n]
      BY <1>1, <2>4, <2>8
    <3>4. /\ wpc \notin {"m_clear_node", "u_unlink_node", "m_store"}
          /\ wpc' \notin {"m_clear_node", "u_unlink_node", "m_store", "u_unlink_leaf"}
          /\ UNCHANGED <<root, mapped, readerVars, wkey>>
      BY <1>1
    <3>5. \A o \in Objects \ {n} : slot'[o] = slot[o] /\ count'[o] = count[o]
      BY <1>1, <2>6
    <3>. QED  BY ZenonT(60), <2>1, <2>2, <2>6, <2>10, <3>1, <3>2, <3>3, <3>4, <3>5, NodeWrite
  <2>12. WriterInv'
    <3>1. LeafOf(wkey)' = l /\ NodeOf(wkey)' = n
      BY <1>1, <2>1, <2>2, <2>6 DEF NodeOf, LeafOf
    <3>. QED  BY <1>1, <2>2, <2>4, <2>5, <3>1 DEF TrieInv, WriterInv
  <2>. QED  BY <2>7, <2>11, <2>12 DEF TrieInv
<1>. QED  BY <1>2, <1>3

\* A node counts the leaf just linked.
LEMMA CountLeafInv ==
  ASSUME TypeOK, TrieInv, CountLeaf
  PROVE  TypeOK' /\ TrieInv'
<1>1. /\ wpc = "m_count_leaf" /\ wpc' = "m_count"
      /\ UNCHANGED <<root, slot, released, mapped, readerVars, wkey, wspan>>
  BY DEF CountLeaf, WriterGoto
<1>2. PICK k \in Keys : /\ k = wkey /\ k[1] \in Slots /\ k[2] \in Slots /\ k[3] \in Slots
                        /\ HasNode(k[1]) /\ HasLeaf(k[1], k[2])
  BY <1>1, WriterLeaf
<1>3. PICK n \in Nodes : /\ n = root[k[1]] /\ n = NodeOf(wkey) /\ n # NULL /\ n \in Objects
                         /\ Cardinality(Used(n)) = count[n] + 1
  BY <1>1, <1>2, WriterNode
<1>4. PICK l \in Leaves : /\ l = Leaf(k[1], k[2]) /\ l = LeafOf(wkey) /\ l = slot[n][k[2]]
                          /\ l \notin released /\ l # NULL
  BY <1>1, <1>2, <1>3, WriterLeaf DEF Leaf
<1>5. /\ count' = [count EXCEPT ![n] = @ + 1] /\ count'[n] = count[n] + 1
      /\ \A o \in Objects \ {n} : count'[o] = count[o]
  BY <1>3 DEF CountLeaf, TypeOK
<1>6. TypeOK'
  <2>1. Cardinality(Used(n)) \in 0 .. Cardinality(Slots)
    BY SlotCount DEF Used
  <2>. QED  BY <1>1, <1>3, <1>5, <2>1 DEF TypeOK, WriterLabels, readerVars
<1>7. /\ RootInv' /\ LinkInv' /\ NodeInv' /\ LeafInv' /\ MappedInv' /\ ReaderInv'
      /\ HasNode(k[1])'
  <2>1. HasLeaf(k[1], k[2])' <=> HasLeaf(k[1], k[2])
    BY <1>1, <1>2 DEF HasLeaf, HasNode, NodeInDoubt, LeafInDoubt, Leaf
  <2>2. slot'[n][k[2]] # NULL =>
         /\ slot'[n][k[2]] \in Leaves /\ slot'[n][k[2]] \notin released'
         /\ \A a, b \in Slots : HasNode(a) /\ Leaf(a, b) = slot'[n][k[2]] => a = k[1] /\ b = k[2]
    <3>1. \A a, b \in Slots : HasNode(a) /\ Leaf(a, b) = Leaf(k[1], k[2]) => a = k[1] /\ b = k[2]
      <4>1. Leaf(k[1], k[2]) # NULL
        BY <1>4
      <4>2. \A i, j \in Slots : HasNode(i) /\ Leaf(i, j) # NULL /\ ~(i = k[1] /\ j = k[2]) =>
              Leaf(i, j) # Leaf(k[1], k[2]) /\ Leaf(i, j) \in Leaves
        BY <1>2, <4>1, OtherLeaves DEF TrieInv
      <4>. QED  BY <4>1, <4>2
    <3>. QED  BY <1>1, <1>4, <3>1
  <2>3. Cardinality({j \in Slots : slot'[n][j] # NULL}) =
         IF wpc' \in {"m_clear_leaf", "m_count_leaf"} THEN count'[n] + 1 ELSE count'[n]
    <3>1. {j \in Slots : slot'[n][j] # NULL} = Used(n)
      BY <1>1 DEF Used
    <3>. QED  BY <1>1, <1>3, <1>5, <3>1
  <2>4. /\ wpc \notin {"m_clear_node", "u_unlink_node", "m_store"}
        /\ wpc' \notin {"m_clear_node", "u_unlink_node", "m_store", "u_unlink_leaf"}
        /\ UNCHANGED <<root, mapped, readerVars, wkey>>
        /\ released' \subseteq released /\ \A o \in Nodes : o \in released' <=> o \in released
        /\ HasLeaf(k[1], k[2]) => slot'[n][k[2]] = slot[n][k[2]]
        /\ \A j \in Slots \ {k[2]} : slot'[n][j] = slot[n][j]
    BY <1>1
  <2>5. \A o \in Objects \ {n} : slot'[o] = slot[o] /\ count'[o] = count[o]
    BY <1>1, <1>5
  <2>. QED  BY <1>2, <1>3, <2>1, <2>2, <2>3, <2>4, <2>5, NodeWrite
<1>8. WriterInv'
  <2>1. LeafOf(wkey)' = l /\ NodeOf(wkey)' = n
    BY <1>1, <1>2, <1>3, <1>4 DEF NodeOf, LeafOf
  <2>. QED  BY <1>1, <1>3, <1>4, <2>1 DEF TrieInv, WriterInv
<1>. QED  BY <1>6, <1>7, <1>8 DEF TrieInv

\* A released leaf is unlinked, and its node no longer counts it.
LEMMA UnlinkLeafInv ==
  ASSUME TypeOK, TrieInv, UnlinkLeaf
  PROVE  TypeOK' /\ TrieInv'
<1>1. /\ wpc = "u_unlink_leaf" /\ wpc' = "u_node"
      /\ UNCHANGED <<root, released, mapped, readerVars, wkey, wspan>>
  BY DEF UnlinkLeaf, WriterGoto
<1>2. PICK k \in Keys : /\ k = wkey /\ k[1] \in Slots /\ k[2] \in Slots /\ k[3] \in Slots
                        /\ HasNode(k[1]) /\ ~HasLeaf(k[1], k[2])
  BY <1>1, WriterLeaf DEF HasLeaf, LeafInDoubt
<1>3. PICK n \in Nodes : /\ n = root[k[1]] /\ n = NodeOf(wkey) /\ n # NULL /\ n \in Objects
                         /\ Cardinality(Used(n)) = count[n] /\ slot[n][k[2]] # NULL
  <2>1. LeafOf(wkey) # NULL
    BY <1>1, WriterLeaf
  <2>. QED  BY <1>1, <1>2, <2>1, WriterNode
<1>4. slot' = [slot EXCEPT ![n][k[2]] = NULL] /\ count' = [count EXCEPT ![n] = @ - 1]
  BY <1>2, <1>3 DEF UnlinkLeaf
<1>5. /\ slot'[n][k[2]] = NULL /\ \A j \in Slots \ {k[2]} : slot'[n][j] = slot[n][j]
      /\ count'[n] = count[n] - 1
      /\ \A o \in Objects \ {n} : slot'[o] = slot[o] /\ count'[o] = count[o]
  BY <1>2, <1>3, <1>4 DEF TypeOK
<1>6. /\ Cardinality({j \in Slots : slot'[n][j] # NULL}) = count[n] - 1
      /\ count[n] - 1 \in 0 .. Cardinality(Slots)
  <2>1. PICK S \in SUBSET Slots : S = Used(n)
    BY DEF Used
  <2>2. k[2] \in S
    BY <1>2, <1>3, <2>1 DEF Used
  <2>3. PICK T \in SUBSET Slots : T = S \ {k[2]}
    OBVIOUS
  <2>4. {j \in Slots : slot'[n][j] # NULL} = T
    BY <1>2, <1>5, <2>1, <2>3 DEF Used
  <2>5. Cardinality(T) = Cardinality(S) - 1 /\ Cardinality(T) \in 0 .. Cardinality(Slots)
    BY <2>2, <2>3, SlotCount
  <2>. QED  BY <1>3, <2>1, <2>4, <2>5
<1>7. TypeOK'
  BY <1>1, <1>2, <1>3, <1>4, <1>6 DEF TypeOK, WriterLabels, readerVars
<1>8. /\ RootInv' /\ LinkInv' /\ NodeInv' /\ LeafInv' /\ MappedInv' /\ ReaderInv'
      /\ HasNode(k[1])'
  <2>1. HasLeaf(k[1], k[2])' <=> HasLeaf(k[1], k[2])
    BY <1>1, <1>2, <1>3, <1>5 DEF HasLeaf, Leaf
  <2>2. Cardinality({j \in Slots : slot'[n][j] # NULL}) =
         IF wpc' \in {"m_clear_leaf", "m_count_leaf"} THEN count'[n] + 1 ELSE count'[n]
    BY <1>1, <1>5, <1>6
  <2>3. /\ wpc \notin {"m_clear_node", "u_unlink_node", "m_store"}
        /\ wpc' \notin {"m_clear_node", "u_unlink_node", "m_store", "u_unlink_leaf"}
        /\ UNCHANGED <<root, mapped, readerVars, wkey>>
        /\ released' \subseteq released /\ \A o \in Nodes : o \in released' <=> o \in released
        /\ HasLeaf(k[1], k[2]) => slot'[n][k[2]] = slot[n][k[2]]
        /\ \A j \in Slots \ {k[2]} : slot'[n][j] = slot[n][j]
    BY <1>1, <1>2, <1>5
  <2>4. slot'[n][k[2]] # NULL =>
         /\ slot'[n][k[2]] \in Leaves /\ slot'[n][k[2]] \notin released'
         /\ \A a, b \in Slots : HasNode(a) /\ Leaf(a, b) = slot'[n][k[2]] => a = k[1] /\ b = k[2]
    BY <1>5
  <2>5. \A o \in Objects \ {n} : slot'[o] = slot[o] /\ count'[o] = count[o]
    BY <1>5
  <2>6. k \in Keys /\ k = wkey /\ HasNode(k[1]) /\ n \in Nodes /\ n = root[k[1]]
    BY <1>2, <1>3
  <2>. QED  BY <2>1, <2>2, <2>3, <2>4, <2>5, <2>6, NodeWrite
<1>9. WriterInv'
  <2>1. NodeOf(wkey)' = n
    BY <1>1, <1>2, <1>3 DEF NodeOf
  <2>. QED  BY <1>1, <1>3, <2>1 DEF TrieInv, WriterInv
<1>. QED  BY <1>7, <1>8, <1>9 DEF TrieInv

\* A node with no leaf left is released while the root links it: no reader can
\* be on it.
LEMMA FreeNodeInv ==
  ASSUME TypeOK, TrieInv, FreeNode
  PROVE  TypeOK' /\ TrieInv'
<1>1. wpc = "u_node" /\ UNCHANGED <<root, count, mapped, readerVars>>
  BY DEF FreeNode
<1>2. CASE ~Unused(count[NodeOf(wkey)])
  <2>1. UNCHANGED trieVars /\ wpc' = "idle" /\ wkey' = NULL /\ wspan' = NULL
    BY <1>2 DEF FreeNode, WriterReturn, trieVars
  <2>. QED  BY <1>1, <2>1, SkipInv
<1>3. CASE Unused(count[NodeOf(wkey)])
  <2>1. wpc' = "u_unlink_node" /\ UNCHANGED <<wkey, wspan>>
    BY <1>3 DEF FreeNode, WriterGoto
  <2>2. PICK k \in Keys : /\ k = wkey /\ k[1] \in Slots /\ k[2] \in Slots /\ k[3] \in Slots
                          /\ HasNode(k[1])
    BY <1>1, WriterNode
  <2>3. PICK n \in Nodes : /\ n = root[k[1]] /\ n = NodeOf(wkey) /\ n # NULL /\ n \in Objects
                           /\ n \notin released /\ Cardinality(Used(n)) = 0
    BY <1>1, <1>3, <2>2, WriterNode DEF Unused
  <2>4. PICK rest \in Objects \cup {NULL} :
          slot' = [slot EXCEPT ![n][0] = rest] /\ released' = released \cup {n}
    BY <1>3, <2>3 DEF FreeNode, Release, TypeOK, Objects
  <2>5. \A o \in Objects \ {n} : /\ slot'[o] = slot[o] /\ count'[o] = count[o]
                                 /\ o \in released' <=> o \in released
    BY <1>1, <2>4 DEF TypeOK
  <2>6. TypeOK'
    BY <1>1, <2>1, <2>3, <2>4 DEF TypeOK, WriterLabels, readerVars
  <2>7. RootInv /\ LinkInv /\ NodeInv /\ LeafInv
    BY DEF TrieInv
  <2>8. \A i \in Slots : HasNode(i)' <=> HasNode(i) /\ i # k[1]
    BY <1>1, <2>1, <2>2 DEF HasNode, NodeInDoubt
  <2>9. \A i \in Slots : root[i] = n => i = k[1]
    BY <2>2, <2>3, <2>7 DEF RootInv
  <2>10. \A i \in Slots : HasNode(i) /\ i # k[1] =>
           /\ root[i] \in Objects /\ slot'[root[i]] = slot[root[i]]
           /\ Used(root[i])' = Used(root[i])
           /\ \A j \in Slots : Leaf(i, j)' = Leaf(i, j)
    <3>1. ASSUME NEW i \in Slots, HasNode(i), i # k[1]
          PROVE  /\ root[i] \in Objects /\ slot'[root[i]] = slot[root[i]]
                 /\ Used(root[i])' = Used(root[i])
                 /\ \A j \in Slots : Leaf(i, j)' = Leaf(i, j)
      <4>1. root[i] \in Objects /\ root[i] # n
        BY <2>7, <2>9, <3>1, PathFacts
      <4>2. slot'[root[i]] = slot[root[i]] /\ root'[i] = root[i]
        BY <1>1, <2>5, <4>1
      <4>. QED  BY <4>1, <4>2 DEF Used, Leaf
    <3>. QED  BY <3>1
  <2>11. \A j \in Slots : Leaf(k[1], j) = NULL
    <3>1. PICK S \in SUBSET Slots : S = Used(n)
      BY DEF Used
    <3>2. S = {}
      BY <2>3, <3>1, SlotCount
    <3>. QED  BY <2>3, <3>1, <3>2 DEF Used, Leaf
  <2>12. \A i, j \in Slots : /\ HasLeaf(i, j)' <=> HasLeaf(i, j)
                             /\ HasLeaf(i, j) => HasNode(i) /\ i # k[1]
    BY <1>1, <2>1, <2>8, <2>10, <2>11 DEF HasLeaf, LeafInDoubt
  <2>13. \A i, j \in Slots : HasLeaf(i, j) =>
           /\ Leaf(i, j)' = Leaf(i, j) /\ slot'[Leaf(i, j)] = slot[Leaf(i, j)]
           /\ Used(Leaf(i, j))' = Used(Leaf(i, j))
    <3>1. ASSUME NEW i \in Slots, NEW j \in Slots, HasLeaf(i, j)
          PROVE  /\ Leaf(i, j)' = Leaf(i, j) /\ slot'[Leaf(i, j)] = slot[Leaf(i, j)]
                 /\ Used(Leaf(i, j))' = Used(Leaf(i, j))
      <4>1. Leaf(i, j) \in Objects /\ Leaf(i, j) \notin Nodes
        BY <2>7, <3>1, PathFacts
      <4>2. slot'[Leaf(i, j)] = slot[Leaf(i, j)]
        BY <2>5, <4>1
      <4>3. Leaf(i, j)' = Leaf(i, j)
        BY <2>10, <2>12, <3>1
      <4>4. slot'[Leaf(i, j)'] = slot[Leaf(i, j)]
        BY <4>2, <4>3
      <4>5. Used(Leaf(i, j))' = Used(Leaf(i, j))
        BY <4>4 DEF Used
      <4>. QED  BY <4>2, <4>3, <4>5
    <3>. QED  BY <3>1
  <2>14. RootInv'
    BY <1>1, <2>1, <2>2, <2>3, <2>4, <2>7, <2>9 DEF RootInv
  <2>15. LinkInv'
    <3>1. ASSUME NEW i \in Slots, NEW j \in Slots, HasNode(i), i # k[1], Leaf(i, j) # NULL
          PROVE  /\ Leaf(i, j) \in Leaves /\ Leaf(i, j) \notin released'
                 /\ \A a, b \in Slots : HasNode(a) /\ Leaf(a, b) = Leaf(i, j) => a = i /\ b = j
      <4>1. /\ Leaf(i, j) \in Leaves /\ Leaf(i, j) \notin released
            /\ \A a, b \in Slots : HasNode(a) /\ Leaf(a, b) = Leaf(i, j) => a = i /\ b = j
        BY <1>1, <2>7, <3>1 DEF LinkInv
      <4>. QED  BY <2>4, <4>1
    <3>. QED  BY <2>1, <2>8, <2>10, <3>1 DEF LinkInv
  <2>16. NodeInv'
    BY <1>1, <2>1, <2>7, <2>8, <2>10 DEF NodeInv
  <2>17. LeafInv'
    <3>1. ASSUME NEW i \in Slots, NEW j \in Slots, HasLeaf(i, j)
          PROVE  count'[Leaf(i, j)'] = Cardinality(Used(Leaf(i, j))')
      <4>1. count[Leaf(i, j)] = Cardinality(Used(Leaf(i, j)))
        BY <1>1, <2>7, <3>1 DEF LeafInv
      <4>. QED  BY <1>1, <2>13, <3>1, <4>1
    <3>. QED  BY <2>1, <2>12, <3>1 DEF LeafInv
  <2>18. WriterInv'
    BY <1>1, <2>1, <2>3 DEF TrieInv, WriterInv, NodeOf
  <2>19. MappedInv' /\ ReaderInv'
    BY <1>1, <2>12, <2>13, LeavesKept
  <2>. QED  BY <2>6, <2>14, <2>15, <2>16, <2>17, <2>18, <2>19 DEF TrieInv
<1>. QED  BY <1>2, <1>3

\* A released node is unlinked and the call returns.
LEMMA UnlinkNodeInv ==
  ASSUME TypeOK, TrieInv, UnlinkNode
  PROVE  TypeOK' /\ TrieInv'
<1>1. /\ wpc = "u_unlink_node" /\ wpc' = "idle" /\ wkey' = NULL /\ wspan' = NULL
      /\ UNCHANGED <<slot, count, released, mapped, readerVars>>
  BY DEF UnlinkNode, WriterReturn
<1>2. PICK k \in Keys : k = wkey /\ k[1] \in Slots
  BY <1>1, WriterKey, KeySlots
<1>3. /\ root' = [root EXCEPT ![k[1]] = NULL] /\ root'[k[1]] = NULL
      /\ \A i \in Slots \ {k[1]} : root'[i] = root[i]
  BY <1>2 DEF UnlinkNode, TypeOK
<1>4. TypeOK'
  BY <1>1, <1>3 DEF TypeOK, WriterLabels, readerVars
<1>5. \A i \in Slots : HasNode(i)' <=> HasNode(i)
  BY <1>1, <1>2, <1>3 DEF HasNode, NodeInDoubt
<1>6. \A i \in Slots : HasNode(i) =>
        /\ i # k[1] /\ root'[i] = root[i] /\ Used(root[i])' = Used(root[i])
        /\ \A j \in Slots : Leaf(i, j)' = Leaf(i, j) /\ Used(Leaf(i, j))' = Used(Leaf(i, j))
  <2>1. \A i \in Slots : HasNode(i) => i # k[1] /\ root'[i] = root[i]
    BY <1>1, <1>2, <1>3 DEF HasNode, NodeInDoubt
  <2>. QED  BY <1>1, <2>1 DEF Used, Leaf
<1>7. \A i, j \in Slots : /\ HasLeaf(i, j)' <=> HasLeaf(i, j)
                          /\ HasLeaf(i, j) => HasNode(i)
  BY <1>1, <1>5, <1>6 DEF HasLeaf, LeafInDoubt
<1>8. RootInv'
  BY <1>1, <1>2, <1>3 DEF TrieInv, RootInv
<1>9. LinkInv'
  BY <1>1, <1>5, <1>6 DEF TrieInv, LinkInv
<1>10. NodeInv'
  BY <1>1, <1>5, <1>6 DEF TrieInv, NodeInv
<1>11. LeafInv'
  BY <1>1, <1>6, <1>7 DEF TrieInv, LeafInv
<1>12. WriterInv'
  BY <1>1 DEF WriterInv
<1>13. MappedInv' /\ ReaderInv'
  BY <1>1, <1>6, <1>7, LeavesKept
<1>. QED  BY <1>4, <1>8, <1>9, <1>10, <1>11, <1>12, <1>13 DEF TrieInv

-----------------------------------------------------------------------------
(* Theorems                                                                *)

\* An empty page_map, with every node and leaf still to be carved.
LEMMA InitTrieInv ==
  ASSUME Init
  PROVE  TypeOK /\ TrieInv
<1>1. TypeOK
  <2>1. 0 \in 0 .. Cardinality(Slots)
    BY FS_CardinalityType
  <2>. QED  BY <2>1 DEF Init, TypeOK, WriterLabels
<1>2. \A i \in Slots : ~HasNode(i)
  BY DEF Init, HasNode
<1>3. RootInv /\ LinkInv /\ NodeInv /\ LeafInv
  BY <1>2 DEF Init, RootInv, LinkInv, NodeInv, LeafInv, HasLeaf
<1>4. WriterInv /\ MappedInv /\ ReaderInv
  BY DEF Init, WriterInv, MappedInv, ReaderInv
<1>. QED  BY <1>1, <1>3, <1>4 DEF TrieInv

\* Every step of the writer and of a reader keeps the invariant.
LEMMA NextTrieInv ==
  ASSUME TypeOK, TrieInv, [Next]_vars
  PROVE  TypeOK' /\ TrieInv'
<1>1. CASE Writer
  <2>1. ASSUME NEW k \in Keys, Unmap(k) \/ \E s \in Spans \ {mapped[k]} : Map(k, s)
        PROVE  TypeOK' /\ TrieInv'
    BY <2>1, BeginInv
  <2>. QED  BY <1>1, <2>1, LinkNodeInv, ClearNodeInv, LinkLeafInv, ClearLeafInv, CountLeafInv,
               CountKeyInv, StoreKeyInv, ClearKeyInv, FreeLeafInv, UnlinkLeafInv, FreeNodeInv,
               UnlinkNodeInv DEF Writer
<1>2. CASE \E r \in Readers : Reader(r)
  BY <1>2, ReaderSteps
<1>3. CASE UNCHANGED vars
  <2>1. UNCHANGED trieVars /\ UNCHANGED writerVars /\ UNCHANGED readerVars
    BY <1>3 DEF vars
  <2>2. TypeOK'
    BY <2>1 DEF TypeOK, trieVars, writerVars, readerVars
  <2>3. TrieInv'
    <3>1. RootInv' /\ LinkInv'
      <4>1. RootInv'
        BY <2>1 DEF TrieInv, RootInv, trieVars, writerVars
      <4>2. \A i \in Slots : HasNode(i)' <=> HasNode(i)
        BY <2>1 DEF HasNode, NodeInDoubt, trieVars, writerVars
      <4>3. \A i, j \in Slots : Leaf(i, j)' = Leaf(i, j)
        BY <2>1, UsedKept
      <4>4. UNCHANGED <<released, wpc, wkey>>
        BY <2>1 DEF trieVars, writerVars
      <4>5. LinkInv'
        BY <4>2, <4>3, <4>4, LinkKept DEF TrieInv
      <4>. QED  BY <4>1, <4>5
    <3>2. NodeInv' /\ LeafInv'
      BY <2>1 DEF TrieInv, NodeInv, LeafInv, HasNode, HasLeaf, NodeInDoubt, LeafInDoubt,
                  Leaf, Used, trieVars, writerVars
    <3>3. WriterInv' /\ MappedInv' /\ ReaderInv'
      BY <2>1 DEF TrieInv, WriterInv, MappedInv, ReaderInv, HasNode, HasLeaf, NodeInDoubt,
                  LeafInDoubt, Leaf, Used, NodeOf, LeafOf, trieVars, writerVars, readerVars
    <3>. QED  BY <3>1, <3>2, <3>3 DEF TrieInv
  <2>. QED  BY <2>2, <2>3
<1>. QED  BY <1>1, <1>2, <1>3 DEF Next

\* The counts stay within the slots they count, and every slot keeps the type the
\* walk of cmalloc_get relies on (range_map.c:119-127).
THEOREM SpecTypeOK == Spec => []TypeOK
<1>1. Init => TypeOK /\ TrieInv
  BY InitTrieInv
<1>2. (TypeOK /\ TrieInv) /\ [Next]_vars => (TypeOK /\ TrieInv)'
  BY NextTrieInv
<1>. QED  BY <1>1, <1>2, PTL DEF Spec

\* The inductive invariant: between any two accesses of the writer the trie is a
\* tree but for the one object the writer has in doubt, every count that is read
\* to decide a release is that of the slots in use (range_map.c:31-117), and each
\* mapped page has its path outside the object in doubt.
THEOREM SpecTrieInv == Spec => []TrieInv
<1>1. Init => TypeOK /\ TrieInv
  BY InitTrieInv
<1>2. (TypeOK /\ TrieInv) /\ [Next]_vars => (TypeOK /\ TrieInv)'
  BY NextTrieInv
<1>. QED  BY <1>1, <1>2, PTL DEF Spec

\* A lookup without the lock returns the span its page is mapped to, whatever the
\* thread with the lock does meanwhile to the trie, and whichever of the two loads
\* the compiler keeps (range_map.c:119-127, span.c:242-244).
THEOREM SpecLookupExact == Spec => []LookupExact
<1>1. TrieInv => LookupExact
  BY DEF TrieInv, ReaderInv, LookupExact
<1>. QED  BY <1>1, SpecTrieInv, PTL

\* The node or the leaf a reader has loaded is the live object of its path: it is
\* not released, recycled or replaced while the lookup is under way.
THEOREM SpecReadersOnLiveObjects == Spec => []ReadersOnLiveObjects
<1>1. TypeOK /\ TrieInv => ReadersOnLiveObjects
  <2>. SUFFICES ASSUME TypeOK, TrieInv, NEW r \in Readers, rpc[r] \in {"load_leaf", "load_span"}
                PROVE  /\ rpc[r] = "load_leaf" => at[r] = NodeOf(rkey[r])
                       /\ rpc[r] = "load_span" => at[r] = LeafOf(rkey[r])
                       /\ at[r] \in Objects \ released
    BY DEF ReadersOnLiveObjects
  <2>1. /\ rpc[r] = "load_leaf" => at[r] = NodeOf(rkey[r])
        /\ rpc[r] = "load_span" => at[r] = LeafOf(rkey[r])
    BY DEF TrieInv, ReaderInv
  <2>2. PICK k \in Keys : k = rkey[r] /\ mapped[k] # NULL
    BY DEF TypeOK, TrieInv, ReaderInv
  <2>3. /\ k[1] \in Slots /\ k[2] \in Slots /\ HasNode(k[1]) /\ HasLeaf(k[1], k[2])
        /\ NodeOf(k) = root[k[1]] /\ LeafOf(k) = Leaf(k[1], k[2])
    BY <2>2, MappedPath
  <2>4. Leaf(k[1], k[2]) \in Objects \ released
    BY <2>3, PathFacts DEF TrieInv
  <2>5. root[k[1]] \in Objects \ released
    <3>1. root[k[1]] # NULL /\ ~(wpc = "u_unlink_node" /\ k[1] = wkey[1])
      BY <2>3 DEF HasNode, NodeInDoubt
    <3>2. root[k[1]] \in released <=> wpc = "u_unlink_node" /\ k[1] = wkey[1]
      BY <2>3, <3>1 DEF TrieInv, RootInv
    <3>. QED  BY <2>3, <3>1, <3>2 DEF TypeOK, Objects
  <2>. QED  BY <2>1, <2>2, <2>3, <2>4, <2>5
<1>. QED  BY <1>1, SpecTypeOK, SpecTrieInv, PTL

================================================================================
