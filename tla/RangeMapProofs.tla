----------------------------- MODULE RangeMapProofs -----------------------------
(***************************************************************************)
(* Proofs about RangeMap, for every shape of the trie and every size of    *)
(* the chunks: a lookup returns the span its page was mapped to, counts    *)
(* are exact, each object of the arena is one thing and none overlap, and  *)
(* giving memory back takes none once the free lists have their leaves.    *)
(*                                                                         *)
(* The proofs follow the layers of the code.  Memory is divided into       *)
(* objects, each with a size and a use.  The arena's invariant speaks of   *)
(* the trie of free lists and of what is on the lists; it leaves the words *)
(* of all other objects, the users', alone.  The page map's invariant      *)
(* speaks of the users' objects.                                           *)
(***************************************************************************)
EXTENDS RangeMap, FiniteSetTheorems, WellFoundedInduction, TLAPS

-----------------------------------------------------------------------------
(* Numbers                                                                 *)

\* The constants, without the arithmetic of alignment.
LEMMA Constants ==
  /\ L1_SIZE \in Nat \ {0} /\ L2_SIZE \in Nat \ {0} /\ L3_SIZE \in Nat \ {0}
  /\ ALIGNMENT \in Nat \ {0} /\ META_CHUNK_SIZE \in Nat \ {0}
  /\ MaxChunks \in Nat /\ MaxCount \in Nat /\ MaxSpans \in Nat
  /\ SpanSize = 1 /\ DataChunkSize = 2 /\ RootSize = L1_SIZE
  /\ NodeSize = L2_SIZE + 1 /\ LeafNodeSize = L3_SIZE + 1
  /\ SpanSize # LeafNodeSize /\ SpanSize # NodeSize /\ LeafNodeSize # NodeSize
  /\ SpanSize \in Keys /\ DataChunkSize \in Keys /\ LeafNodeSize \in Keys
  /\ NodeSize \in Keys
  /\ NULL = 0
BY RangeMapAssumption
   DEF SpanSize, DataChunkSize, RootSize, NodeSize, LeafNodeSize, NULL

LEMMA KeyRange == Keys \subseteq Nat
BY DEF Keys

\* Quotient and remainder of a division.
LEMMA DivMod ==
  ASSUME NEW a \in Nat, NEW m \in Nat \ {0}
  PROVE  a \div m \in Nat /\ a % m \in 0 .. m - 1 /\ a = m * (a \div m) + (a % m)
<1>1. a \div m \in Int /\ a % m \in 0 .. m - 1
  OBVIOUS
<1>2. a = m * (a \div m) + (a % m)
  OBVIOUS
<1>3. a \div m >= 0
  <2>1. PICK q \in Int : q = a \div m
    BY <1>1
  <2>2. PICK r \in 0 .. m - 1 : r = a % m
    BY <1>1
  <2>3. a = m * q + r
    BY <1>2, <2>1, <2>2
  <2>4. q >= 0
    <3>1. CASE q <= -1
      <4>1. m * q <= m * (-1)
        BY <3>1, <2>1
      <4>2. m * (-1) = -m
        OBVIOUS
      <4>. QED  BY <2>2, <2>3, <4>1, <4>2, <3>1
    <3>. QED  BY <3>1, <2>1
  <2>. QED  BY <2>1, <2>4
<1>. QED  BY <1>1, <1>2, <1>3

\* A multiple of m plus an offset below m has only one such form.
LEMMA SameDigits ==
  ASSUME NEW m \in Nat \ {0}, NEW q \in Nat, NEW r \in 0 .. m - 1,
         NEW q1 \in Nat, NEW r1 \in 0 .. m - 1, m * q + r = m * q1 + r1
  PROVE  q = q1 /\ r = r1
<1>1. CASE q < q1
  <2>1. m * (q + 1) <= m * q1
    BY <1>1
  <2>2. m * (q + 1) = m * q + m
    OBVIOUS
  <2>3. m * q \in Nat /\ m * q1 \in Nat
    OBVIOUS
  <2>. QED  BY <2>1, <2>2, <2>3
<1>2. CASE q1 < q
  <2>1. m * (q1 + 1) <= m * q
    BY <1>2
  <2>2. m * (q1 + 1) = m * q1 + m
    OBVIOUS
  <2>3. m * q \in Nat /\ m * q1 \in Nat
    OBVIOUS
  <2>. QED  BY <2>1, <2>2, <2>3
<1>3. CASE q = q1
  <2>1. m * q \in Nat
    OBVIOUS
  <2>. QED  BY <1>3, <2>1
<1>. QED  BY <1>1, <1>2, <1>3

\* The indices of a key are slots of the nodes.
LEMMA IndexRange ==
  ASSUME NEW key \in Nat
  PROVE  /\ L1Index(key) \in 0 .. L1_SIZE - 1
         /\ L2Index(key) \in 0 .. L2_SIZE - 1
         /\ L3Index(key) \in 0 .. L3_SIZE - 1
<1>1. L2_SIZE * L3_SIZE \in Nat \ {0}
  BY Constants
<1>2. key \div (L2_SIZE * L3_SIZE) \in Nat /\ key \div L3_SIZE \in Nat
  BY <1>1, DivMod, Constants
<1>3. PICK a \in Nat : a = key \div (L2_SIZE * L3_SIZE)
  BY <1>2
<1>4. PICK b \in Nat : b = key \div L3_SIZE
  BY <1>2
<1>5. a % L1_SIZE \in 0 .. L1_SIZE - 1 /\ b % L2_SIZE \in 0 .. L2_SIZE - 1
  BY Constants, DivMod
<1>6. key % L3_SIZE \in 0 .. L3_SIZE - 1
  BY Constants, DivMod
<1>. QED  BY <1>3, <1>4, <1>5, <1>6 DEF L1Index, L2Index, L3Index

\* A key is what its three indices say.
LEMMA KeyDigits ==
  ASSUME NEW key \in Keys
  PROVE  key = L3_SIZE * (L2_SIZE * L1Index(key) + L2Index(key)) + L3Index(key)
<1>. DEFINE q == key \div L3_SIZE
            t == q \div L2_SIZE
<1>1. key \in Nat /\ q \in Nat /\ L3Index(key) \in 0 .. L3_SIZE - 1
      /\ key = L3_SIZE * q + L3Index(key)
  BY KeyRange, DivMod, Constants DEF L3Index
<1>2. t \in Nat /\ L2Index(key) \in 0 .. L2_SIZE - 1 /\ q = L2_SIZE * t + L2Index(key)
  <2>1. PICK x \in Nat : x = q
    BY <1>1
  <2>2. x \div L2_SIZE \in Nat /\ x % L2_SIZE \in 0 .. L2_SIZE - 1
        /\ x = L2_SIZE * (x \div L2_SIZE) + (x % L2_SIZE)
    BY <2>1, DivMod, Constants
  <2>. QED  BY <2>1, <2>2 DEF L2Index
<1>3. t = key \div (L2_SIZE * L3_SIZE)
  <2>. HIDE DEF q, t
  <2>1. L2_SIZE * L3_SIZE \in Nat \ {0}
    BY Constants
  <2>2. PICK d \in Nat, e \in 0 .. (L2_SIZE * L3_SIZE) - 1 :
          d = key \div (L2_SIZE * L3_SIZE) /\ key = (L2_SIZE * L3_SIZE) * d + e
    BY <1>1, <2>1, DivMod
  <2>3. PICK i \in 0 .. L2_SIZE - 1, j \in 0 .. L3_SIZE - 1 :
          i = L2Index(key) /\ j = L3Index(key)
    BY <1>1, <1>2
  <2>4. key = (L2_SIZE * L3_SIZE) * t + (L3_SIZE * i + j)
    <3>1. key = L3_SIZE * (L2_SIZE * t + i) + j
      BY <1>1, <1>2, <2>3
    <3>2. L3_SIZE * (L2_SIZE * t + i) = (L2_SIZE * L3_SIZE) * t + L3_SIZE * i
      BY <1>2, <2>3, Constants
    <3>3. L3_SIZE * i \in Nat /\ (L2_SIZE * L3_SIZE) * t \in Nat
      BY <1>2, <2>1, <2>3, Constants
    <3>. QED  BY <3>1, <3>2, <3>3, <2>3
  <2>5. L3_SIZE * i + j \in 0 .. (L2_SIZE * L3_SIZE) - 1
    <3>1. L3_SIZE * i <= L3_SIZE * (L2_SIZE - 1)
      BY <2>3, Constants
    <3>2. L3_SIZE * (L2_SIZE - 1) = L2_SIZE * L3_SIZE - L3_SIZE
      BY Constants
    <3>3. L3_SIZE * i \in Nat
      BY <2>3, Constants
    <3>. QED  BY <3>1, <3>2, <3>3, <2>1, <2>3, Constants
  <2>6. PICK w \in Nat \ {0} : w = L2_SIZE * L3_SIZE
    BY <2>1
  <2>7. PICK v \in 0 .. w - 1 : v = L3_SIZE * i + j
    BY <2>5, <2>6
  <2>8. w * d + e = w * t + v /\ e \in 0 .. w - 1
    BY <2>2, <2>4, <2>6, <2>7
  <2>9. d = t
    BY <2>8, <1>2, SameDigits
  <2>. QED  BY <2>2, <2>9
<1>4. t % L1_SIZE = t
  <2>. HIDE DEF q, t
  <2>1. t < L1_SIZE
    <3>1. CASE t >= L1_SIZE
      <4>1. L2_SIZE * L3_SIZE \in Nat
        BY Constants
      <4>2. PICK w \in Nat : w = L2_SIZE * L3_SIZE
        BY <4>1
      <4>3. w * L1_SIZE <= w * t
        BY <3>1, <1>2, Constants
      <4>4. PICK e \in Nat : key = w * t + e
        <5>1. w # 0
          BY <4>2, Constants
        <5>2. key \div w \in Nat /\ key % w \in 0 .. w - 1 /\ key = w * (key \div w) + (key % w)
          BY <1>1, <4>2, <5>1, DivMod
        <5>. QED  BY <5>2, <1>3, <4>2
      <4>5. w * L1_SIZE \in Nat /\ w * t \in Nat /\ key >= w * L1_SIZE
        BY <4>3, <4>4, <1>2, Constants
      <4>6. w * L1_SIZE = L1_SIZE * L2_SIZE * L3_SIZE
        BY <4>2, Constants
      <4>7. key <= L1_SIZE * L2_SIZE * L3_SIZE - 1
        BY DEF Keys
      <4>. QED  BY <4>5, <4>6, <4>7, <1>1
    <3>. QED  BY <3>1, <1>2, Constants
  <2>6. t \div L1_SIZE \in Nat /\ t % L1_SIZE \in 0 .. L1_SIZE - 1
        /\ t = L1_SIZE * (t \div L1_SIZE) + (t % L1_SIZE)
    BY <1>2, DivMod, Constants
  <2>7. PICK x \in Nat : x = t \div L1_SIZE
    BY <2>6
  <2>8. PICK u \in 0 .. L1_SIZE - 1 : u = t % L1_SIZE
    BY <2>6
  <2>2. u \in Nat /\ x \in Nat /\ u = t % L1_SIZE /\ u < L1_SIZE /\ t = L1_SIZE * x + u
    BY <2>6, <2>7, <2>8, Constants
  <2>3. L1_SIZE * x + u = L1_SIZE * 0 + t
    BY <2>2, <1>2, Constants
  <2>4. t \in 0 .. L1_SIZE - 1 /\ u \in 0 .. L1_SIZE - 1
    BY <2>1, <2>2, <1>2, Constants
  <2>5. u = t
    BY <2>3, <2>4, SameDigits, Constants
  <2>. QED  BY <2>2, <2>5
<1>5. L1Index(key) = t
  BY <1>3, <1>4 DEF L1Index
<1>. QED  BY <1>1, <1>2, <1>5

\* Two keys with the same indices are the same.
LEMMA SameKey ==
  ASSUME NEW key \in Keys, NEW other \in Keys,
         L1Index(other) = L1Index(key), L2Index(other) = L2Index(key),
         L3Index(other) = L3Index(key)
  PROVE  other = key
BY KeyDigits

-----------------------------------------------------------------------------
(* Objects and tries                                                       *)

\* The objects: sz is their sizes, us what they are used for.
Words(sz, p) == p .. p + sz[p] - 1
Of(us, u)    == {p \in DOMAIN us : us[p] = u}

\* They lie apart.
Layout(sz, us) ==
  /\ DOMAIN us = DOMAIN sz
  /\ \A p \in DOMAIN sz : p \in Nat \ {0} /\ sz[p] \in Nat \ {0}
  /\ \A p, q \in DOMAIN sz : p # q => p + sz[p] <= q \/ q + sz[q] <= p

LEMMA OneOwner ==
  ASSUME NEW sz, NEW us, Layout(sz, us), NEW p \in DOMAIN sz, NEW q \in DOMAIN sz,
         NEW a \in Words(sz, p), a \in Words(sz, q)
  PROVE  p = q
BY DEF Layout, Words

\* The slots link the targets, each from one slot.
Links(m, slots, targets) ==
  /\ \A a \in slots : m[a] # 0 => m[a] \in targets
  /\ \A a, b \in slots : m[a] = m[b] /\ m[a] # 0 => a = b
  /\ \A p \in targets : \E a \in slots : m[a] = p

LEMMA LinksSame ==
  ASSUME NEW m, NEW m2, NEW slots, NEW targets, Links(m, slots, targets),
         \A a \in slots : m2[a] = m[a]
  PROVE  Links(m2, slots, targets)
BY DEF Links

LEMMA LinksAdd ==
  ASSUME NEW m, NEW m2, NEW slots, NEW targets, Links(m, slots, targets),
         NEW s \in slots, m[s] = 0, NEW p, p # 0, p \notin targets, m2[s] = p,
         \A a \in slots : a # s => m2[a] = m[a], 0 \notin targets
  PROVE  Links(m2, slots, targets \cup {p})
BY DEF Links

LEMMA LinksDrop ==
  ASSUME NEW m, NEW m2, NEW slots, NEW targets, Links(m, slots, targets),
         NEW s \in slots, m[s] # 0, m2[s] = 0,
         \A a \in slots : a # s => m2[a] = m[a]
  PROVE  Links(m2, slots, targets \ {m[s]})
BY DEF Links

\* Slots that are NULL do not matter.
LEMMA LinksMore ==
  ASSUME NEW m, NEW slots, NEW more, NEW targets, 0 \notin targets,
         \A a \in more : m[a] = 0
  PROVE  Links(m, slots, targets) <=> Links(m, slots \cup more, targets)
BY DEF Links

\* The uses of the objects of each trie.
PageUse == [root |-> "page_root", node |-> "page_node", leaf |-> "page_leaf"]
FreeUse == [root |-> "free_root", node |-> "free_node", leaf |-> "free_leaf"]

Uses(k) == {k.root, k.node, k.leaf}

LEMMA UseNames ==
  ASSUME NEW k \in {PageUse, FreeUse}
  PROVE  k.root # k.node /\ k.root # k.leaf /\ k.node # k.leaf
<1>1. CASE k = PageUse
  BY <1>1 DEF PageUse
<1>2. CASE k = FreeUse
  BY <1>2 DEF FreeUse
<1>. QED  BY <1>1, <1>2

Slots(p, n) == p .. p + n - 1
NodeSlotsIn(us, k) == UNION {Slots(p, L2_SIZE) : p \in Of(us, k.node)}

\* The trie below the root r: every node and leaf node is linked once.
Trie(m, sz, us, r, k) ==
  /\ Of(us, k.root) = {r} /\ sz[r] = RootSize
  /\ \A p \in Of(us, k.node) : sz[p] = NodeSize
  /\ \A p \in Of(us, k.leaf) : sz[p] = LeafNodeSize
  /\ Links(m, Slots(r, L1_SIZE), Of(us, k.node))
  /\ Links(m, NodeSlotsIn(us, k), Of(us, k.leaf))

\* Where the slots of a trie lie.
LEMMA TrieWords ==
  ASSUME NEW m, NEW sz, NEW us, NEW r, NEW k, Layout(sz, us), Trie(m, sz, us, r, k)
  PROVE  /\ r \in Of(us, k.root) /\ r \in Nat \ {0} /\ r \in DOMAIN sz
         /\ Slots(r, L1_SIZE) = Words(sz, r)
         /\ \A p \in Of(us, k.node) :
              /\ p \in Nat \ {0} /\ p \in DOMAIN sz
              /\ Slots(p, L2_SIZE) \subseteq Words(sz, p)
              /\ Slots(p, L2_SIZE) \subseteq NodeSlotsIn(us, k)
              /\ p + L2_SIZE \in Words(sz, p) /\ p + L2_SIZE \notin Slots(p, L2_SIZE)
         /\ \A p \in Of(us, k.leaf) :
              /\ p \in Nat \ {0} /\ p \in DOMAIN sz
              /\ Slots(p, L3_SIZE) \subseteq Words(sz, p)
              /\ p + L3_SIZE \in Words(sz, p) /\ p + L3_SIZE \notin Slots(p, L3_SIZE)
         /\ 0 \notin Of(us, k.node) /\ 0 \notin Of(us, k.leaf)
         /\ \A a \in NodeSlotsIn(us, k) :
              \E p \in Of(us, k.node) : a \in Slots(p, L2_SIZE) /\ a \in Words(sz, p)
<1>1. \A u : \A p \in Of(us, u) : p \in Nat \ {0} /\ p \in DOMAIN sz
  BY DEF Of, Layout
<1>2. r \in Of(us, k.root) /\ Slots(r, L1_SIZE) = Words(sz, r)
  BY Constants DEF Trie, Slots, Words
<1>3. ASSUME NEW p \in Of(us, k.node)
      PROVE  /\ Slots(p, L2_SIZE) \subseteq Words(sz, p)
             /\ Slots(p, L2_SIZE) \subseteq NodeSlotsIn(us, k)
             /\ p + L2_SIZE \in Words(sz, p) /\ p + L2_SIZE \notin Slots(p, L2_SIZE)
  <2>1. Slots(p, L2_SIZE) \subseteq NodeSlotsIn(us, k)
    BY DEF NodeSlotsIn
  <2>2. sz[p] = L2_SIZE + 1 /\ p \in Nat /\ L2_SIZE \in Nat
    BY <1>1, Constants DEF Trie
  <2>. QED  BY <2>1, <2>2 DEF Slots, Words
<1>4. ASSUME NEW p \in Of(us, k.leaf)
      PROVE  /\ Slots(p, L3_SIZE) \subseteq Words(sz, p)
             /\ p + L3_SIZE \in Words(sz, p) /\ p + L3_SIZE \notin Slots(p, L3_SIZE)
  <2>1. sz[p] = L3_SIZE + 1 /\ p \in Nat /\ L3_SIZE \in Nat
    BY <1>1, Constants DEF Trie
  <2>. QED  BY <2>1 DEF Slots, Words
<1>5. ASSUME NEW a \in NodeSlotsIn(us, k)
      PROVE  \E p \in Of(us, k.node) : a \in Slots(p, L2_SIZE) /\ a \in Words(sz, p)
  BY <1>3 DEF NodeSlotsIn
<1>. QED  BY <1>1, <1>2, <1>3, <1>4, <1>5

\* The slots on the path of a key, and what they hold.
LEMMA TriePath ==
  ASSUME NEW m, NEW sz, NEW us, NEW r, NEW k, Layout(sz, us), Trie(m, sz, us, r, k),
         NEW key \in Nat
  PROVE  /\ r + L1Index(key) \in Slots(r, L1_SIZE)
         /\ m[r + L1Index(key)] # 0 => m[r + L1Index(key)] \in Of(us, k.node)
         /\ \A p \in Of(us, k.node) :
              p + L2Index(key) \in Slots(p, L2_SIZE) /\ p + L2Index(key) \in NodeSlotsIn(us, k)
         /\ \A p \in Of(us, k.leaf) : p + L3Index(key) \in Slots(p, L3_SIZE)
         /\ LeavesOf(m, r, key) # 0 =>
              /\ m[r + L1Index(key)] \in Of(us, k.node)
              /\ LeavesOf(m, r, key) \in Of(us, k.leaf)
              /\ LeavesOf(m, r, key) = m[m[r + L1Index(key)] + L2Index(key)]
<1>1. r \in Nat /\ \A p \in Of(us, k.node) \cup Of(us, k.leaf) : p \in Nat
  BY TrieWords
<1>i. PICK i \in 0 .. L1_SIZE - 1, j \in 0 .. L2_SIZE - 1, l \in 0 .. L3_SIZE - 1 :
        i = L1Index(key) /\ j = L2Index(key) /\ l = L3Index(key)
  BY IndexRange
<1>2. r + L1Index(key) \in Slots(r, L1_SIZE)
  BY <1>1, <1>i, Constants DEF Slots
<1>3. \A p \in Of(us, k.node) :
        p + L2Index(key) \in Slots(p, L2_SIZE) /\ p + L2Index(key) \in NodeSlotsIn(us, k)
  <2>1. ASSUME NEW p \in Of(us, k.node)
        PROVE  p + L2Index(key) \in Slots(p, L2_SIZE)
    <3>1. p \in Nat
      BY <1>1
    <3>. QED  BY <3>1, <1>i, Constants DEF Slots
  <2>. QED  BY <2>1, TrieWords
<1>4. ASSUME NEW p \in Of(us, k.leaf)
      PROVE  p + L3Index(key) \in Slots(p, L3_SIZE)
  <2>1. p \in Nat
    BY <1>1
  <2>. QED  BY <2>1, <1>i, Constants DEF Slots
<1>5. m[r + L1Index(key)] # 0 => m[r + L1Index(key)] \in Of(us, k.node)
  BY <1>2 DEF Trie, Links
<1>6. ASSUME LeavesOf(m, r, key) # 0
      PROVE  /\ m[r + L1Index(key)] \in Of(us, k.node)
             /\ LeavesOf(m, r, key) \in Of(us, k.leaf)
             /\ LeavesOf(m, r, key) = m[m[r + L1Index(key)] + L2Index(key)]
  <2>1. m[r + L1Index(key)] # 0 /\ LeavesOf(m, r, key) = m[m[r + L1Index(key)] + L2Index(key)]
    BY <1>6 DEF LeavesOf, NULL
  <2>2. m[r + L1Index(key)] + L2Index(key) \in NodeSlotsIn(us, k)
    BY <2>1, <1>5, <1>3
  <2>. QED  BY <2>1, <2>2, <1>5, <1>6 DEF Trie, Links
<1>. QED  BY <1>2, <1>3, <1>4, <1>5, <1>6

\* Only the path of a key decides what is found for it.
LEMMA SamePath ==
  ASSUME NEW m, NEW m2, NEW r, NEW key,
         m2[r + L1Index(key)] = m[r + L1Index(key)],
         m[r + L1Index(key)] # 0 =>
           m2[m[r + L1Index(key)] + L2Index(key)] = m[m[r + L1Index(key)] + L2Index(key)],
         LeavesOf(m, r, key) # 0 =>
           m2[LeavesOf(m, r, key) + L3Index(key)] = m[LeavesOf(m, r, key) + L3Index(key)]
  PROVE  LeavesOf(m2, r, key) = LeavesOf(m, r, key) /\ Get(m2, r, key) = Get(m, r, key)
BY DEF LeavesOf, Get, NULL

\* The trie has the same objects, and their words are the same but for those
\* in X.
SameTrie(m, sz, us, m2, sz2, us2, k, X) ==
  \A u \in Uses(k) :
    /\ Of(us2, u) = Of(us, u)
    /\ \A p \in Of(us, u) :
         sz2[p] = sz[p] /\ \A a \in Words(sz, p) : a \notin X => m2[a] = m[a]

LEMMA TrieSame ==
  ASSUME NEW m, NEW sz, NEW us, NEW m2, NEW sz2, NEW us2, NEW r, NEW k,
         Layout(sz, us), Trie(m, sz, us, r, k),
         SameTrie(m, sz, us, m2, sz2, us2, k, {})
  PROVE  /\ Trie(m2, sz2, us2, r, k)
         /\ \A key \in Nat : /\ LeavesOf(m2, r, key) = LeavesOf(m, r, key)
                             /\ Get(m2, r, key) = Get(m, r, key)
<1>1. /\ \A p \in Of(us, k.root) : \A a \in Words(sz, p) : m2[a] = m[a]
      /\ \A p \in Of(us, k.node) : \A a \in Words(sz, p) : m2[a] = m[a]
      /\ \A p \in Of(us, k.leaf) : \A a \in Words(sz, p) : m2[a] = m[a]
  BY DEF SameTrie, Uses
<1>2. /\ Of(us2, k.root) = Of(us, k.root) /\ Of(us2, k.node) = Of(us, k.node)
      /\ Of(us2, k.leaf) = Of(us, k.leaf)
      /\ \A p \in Of(us, k.root) \cup Of(us, k.node) \cup Of(us, k.leaf) : sz2[p] = sz[p]
  BY DEF SameTrie, Uses
<1>3. NodeSlotsIn(us2, k) = NodeSlotsIn(us, k)
  BY <1>2 DEF NodeSlotsIn
<1>4. \A a \in Slots(r, L1_SIZE) : m2[a] = m[a]
  BY <1>1, TrieWords
<1>5. \A a \in NodeSlotsIn(us, k) : m2[a] = m[a]
  BY <1>1, TrieWords
<1>6. Trie(m2, sz2, us2, r, k)
  <2>1. Links(m2, Slots(r, L1_SIZE), Of(us, k.node))
    BY <1>4, LinksSame DEF Trie
  <2>2. Links(m2, NodeSlotsIn(us, k), Of(us, k.leaf))
    BY <1>5, LinksSame DEF Trie
  <2>. QED  BY <1>2, <1>3, <2>1, <2>2, TrieWords DEF Trie
<1>7. ASSUME NEW key \in Nat
      PROVE  LeavesOf(m2, r, key) = LeavesOf(m, r, key) /\ Get(m2, r, key) = Get(m, r, key)
  <2>1. m2[r + L1Index(key)] = m[r + L1Index(key)]
    BY <1>4, TriePath
  <2>2. m[r + L1Index(key)] # 0 =>
          m2[m[r + L1Index(key)] + L2Index(key)] = m[m[r + L1Index(key)] + L2Index(key)]
    BY <1>5, TriePath
  <2>3. LeavesOf(m, r, key) # 0 =>
          m2[LeavesOf(m, r, key) + L3Index(key)] = m[LeavesOf(m, r, key) + L3Index(key)]
    BY <1>1, TriePath, TrieWords
  <2>. QED  BY <2>1, <2>2, <2>3, SamePath
<1>. QED  BY <1>6, <1>7

\* A cleared node is linked from the root.
LEMMA LinkNode ==
  ASSUME NEW m, NEW sz, NEW us, NEW m2, NEW sz2, NEW us2, NEW r,
         NEW k \in {PageUse, FreeUse},
         Layout(sz, us), Layout(sz2, us2), Trie(m, sz, us, r, k),
         NEW slot \in Slots(r, L1_SIZE), m[slot] = 0,
         NEW n, n \notin Of(us, k.node), sz2[n] = NodeSize,
         Of(us2, k.root) = Of(us, k.root), Of(us2, k.leaf) = Of(us, k.leaf),
         Of(us2, k.node) = Of(us, k.node) \cup {n},
         m2[slot] = n, \A a \in Words(sz2, n) : m2[a] = 0,
         \A u \in Uses(k) : \A p \in Of(us, u) :
           sz2[p] = sz[p] /\ \A a \in Words(sz, p) : a # slot => m2[a] = m[a]
  PROVE  /\ Trie(m2, sz2, us2, r, k)
         /\ \A key \in Nat : /\ LeavesOf(m2, r, key) = LeavesOf(m, r, key)
                             /\ Get(m2, r, key) = Get(m, r, key)
<1>1. n \in Of(us2, k.node) /\ n \in DOMAIN sz2 /\ n \in Nat \ {0}
  BY DEF Of, Layout
<1>2. /\ slot \in Words(sz, r) /\ r \in DOMAIN us
      /\ \A p \in Of(us, k.node) : p # r /\ p \in DOMAIN us
      /\ \A p \in Of(us, k.leaf) : p # r /\ p \in DOMAIN us
  BY TrieWords, UseNames DEF Of
<1>3. /\ \A a \in Slots(r, L1_SIZE) : a # slot => m2[a] = m[a]
      /\ \A p \in Of(us, k.node) : \A a \in Words(sz, p) : m2[a] = m[a]
      /\ \A p \in Of(us, k.leaf) : \A a \in Words(sz, p) : m2[a] = m[a]
  <2>1. ASSUME NEW u \in Uses(k), NEW p \in Of(us, u), p # r, NEW a \in Words(sz, p)
        PROVE  m2[a] = m[a]
    <3>1. a # slot
      BY <1>2, <2>1, OneOwner DEF Of, Layout
    <3>. QED  BY <3>1
  <2>2. k.root \in Uses(k) /\ k.node \in Uses(k) /\ k.leaf \in Uses(k)
    BY DEF Uses
  <2>. QED  BY <1>2, <2>1, <2>2, TrieWords
<1>4. NodeSlotsIn(us2, k) = NodeSlotsIn(us, k) \cup Slots(n, L2_SIZE)
  BY DEF NodeSlotsIn
<1>5. \A a \in NodeSlotsIn(us, k) : m2[a] = m[a]
  BY <1>3, TrieWords
<1>6. \A a \in Slots(n, L2_SIZE) : m2[a] = 0
  <2>1. sz2[n] = L2_SIZE + 1 /\ n \in Nat /\ L2_SIZE \in Nat
    BY <1>1, Constants
  <2>. QED  BY <2>1 DEF Slots, Words
<1>7. Trie(m2, sz2, us2, r, k)
  <2>1. Links(m2, Slots(r, L1_SIZE), Of(us2, k.node))
    <3>1. 0 \notin Of(us, k.node) /\ Links(m, Slots(r, L1_SIZE), Of(us, k.node))
      BY TrieWords DEF Trie
    <3>. QED  BY <1>1, <1>3, <3>1, LinksAdd
  <2>2. Links(m2, NodeSlotsIn(us2, k), Of(us2, k.leaf))
    <3>1. Links(m2, NodeSlotsIn(us, k), Of(us, k.leaf))
      BY <1>5, LinksSame DEF Trie
    <3>2. 0 \notin Of(us, k.leaf)
      BY TrieWords
    <3>3. Links(m2, NodeSlotsIn(us, k) \cup Slots(n, L2_SIZE), Of(us, k.leaf))
      BY <1>6, <3>1, <3>2, LinksMore
    <3>. QED  BY <1>4, <3>3
  <2>3. /\ sz2[r] = RootSize /\ \A p \in Of(us2, k.node) : sz2[p] = NodeSize
        /\ \A p \in Of(us2, k.leaf) : sz2[p] = LeafNodeSize
    BY TrieWords DEF Trie, Uses
  <2>. QED  BY <2>1, <2>2, <2>3 DEF Trie
<1>8. ASSUME NEW key \in Nat
      PROVE  LeavesOf(m2, r, key) = LeavesOf(m, r, key) /\ Get(m2, r, key) = Get(m, r, key)
  <2>1. CASE r + L1Index(key) = slot
    <3>1. m2[r + L1Index(key)] = n /\ n # 0 /\ m2[n + L2Index(key)] = 0
      BY <1>1, <1>6, <2>1, TriePath, <1>7
    <3>2. LeavesOf(m2, r, key) = 0 /\ LeavesOf(m, r, key) = 0
      BY <2>1, <3>1 DEF LeavesOf, NULL
    <3>. QED  BY <3>2 DEF Get, NULL
  <2>2. CASE r + L1Index(key) # slot
    <3>1. m2[r + L1Index(key)] = m[r + L1Index(key)]
      BY <1>3, <2>2, TriePath
    <3>2. m[r + L1Index(key)] # 0 =>
            m2[m[r + L1Index(key)] + L2Index(key)] = m[m[r + L1Index(key)] + L2Index(key)]
      BY <1>5, TriePath
    <3>3. LeavesOf(m, r, key) # 0 =>
            m2[LeavesOf(m, r, key) + L3Index(key)] = m[LeavesOf(m, r, key) + L3Index(key)]
      BY <1>3, TriePath, TrieWords
    <3>. QED  BY <3>1, <3>2, <3>3, SamePath
  <2>. QED  BY <2>1, <2>2
<1>. QED  BY <1>7, <1>8

\* A cleared leaf node is linked from a node.
LEMMA LinkLeafNode ==
  ASSUME NEW m, NEW sz, NEW us, NEW m2, NEW sz2, NEW us2, NEW r,
         NEW k \in {PageUse, FreeUse},
         Layout(sz, us), Layout(sz2, us2), Trie(m, sz, us, r, k),
         NEW node \in Of(us, k.node), NEW slot \in Slots(node, L2_SIZE), m[slot] = 0,
         NEW l, l \notin Of(us, k.leaf), sz2[l] = LeafNodeSize,
         Of(us2, k.root) = Of(us, k.root), Of(us2, k.node) = Of(us, k.node),
         Of(us2, k.leaf) = Of(us, k.leaf) \cup {l},
         m2[slot] = l, \A a \in Words(sz2, l) : m2[a] = 0,
         \A u \in Uses(k) : \A p \in Of(us, u) :
           sz2[p] = sz[p] /\ \A a \in Words(sz, p) :
             a \notin {slot, node + L2_SIZE} => m2[a] = m[a]
  PROVE  /\ Trie(m2, sz2, us2, r, k)
         /\ \A key \in Nat :
              /\ LeavesOf(m, r, key) # 0 => LeavesOf(m2, r, key) = LeavesOf(m, r, key)
              /\ Get(m2, r, key) = Get(m, r, key)
<1>1. l \in Of(us2, k.leaf) /\ l \in DOMAIN sz2 /\ l \in Nat \ {0}
  BY DEF Of, Layout
<1>2. /\ slot \in Words(sz, node) /\ node + L2_SIZE \in Words(sz, node)
      /\ node \in DOMAIN sz /\ r \in DOMAIN sz /\ r # node /\ r \in Of(us, k.root)
      /\ \A p \in Of(us, k.leaf) : p # node /\ p \in DOMAIN sz
  BY TrieWords, UseNames DEF Of, Layout
<1>3. /\ \A a \in Slots(r, L1_SIZE) : m2[a] = m[a]
      /\ \A p \in Of(us, k.leaf) : \A a \in Words(sz, p) : m2[a] = m[a]
      /\ \A a \in NodeSlotsIn(us, k) : a # slot => m2[a] = m[a]
  <2>1. ASSUME NEW u \in Uses(k), NEW p \in Of(us, u), p # node, NEW a \in Words(sz, p)
        PROVE  m2[a] = m[a]
    <3>1. a \notin {slot, node + L2_SIZE}
      BY <1>2, <2>1, OneOwner DEF Of, Layout
    <3>. QED  BY <3>1
  <2>2. k.root \in Uses(k) /\ k.node \in Uses(k) /\ k.leaf \in Uses(k)
    BY DEF Uses
  <2>3. ASSUME NEW a \in NodeSlotsIn(us, k), a # slot PROVE m2[a] = m[a]
    <3>1. PICK p \in Of(us, k.node) : a \in Slots(p, L2_SIZE) /\ a \in Words(sz, p)
      BY TrieWords
    <3>2. CASE p # node
      BY <2>1, <2>2, <3>1, <3>2
    <3>3. CASE p = node
      <4>1. a # node + L2_SIZE
        BY <3>1, <3>3, TrieWords
      <4>. QED  BY <2>2, <2>3, <3>1, <4>1
    <3>. QED  BY <3>2, <3>3
  <2>. QED  BY <1>2, <2>1, <2>2, <2>3, TrieWords
<1>4. NodeSlotsIn(us2, k) = NodeSlotsIn(us, k) /\ slot \in NodeSlotsIn(us, k)
  BY DEF NodeSlotsIn
<1>7. Trie(m2, sz2, us2, r, k)
  <2>1. Links(m2, Slots(r, L1_SIZE), Of(us, k.node))
    BY <1>3, LinksSame DEF Trie
  <2>2. Links(m2, NodeSlotsIn(us, k), Of(us2, k.leaf))
    <3>1. 0 \notin Of(us, k.leaf) /\ Links(m, NodeSlotsIn(us, k), Of(us, k.leaf))
      BY TrieWords DEF Trie
    <3>. QED  BY <1>1, <1>3, <1>4, <3>1, LinksAdd
  <2>3. /\ sz2[r] = RootSize /\ \A p \in Of(us, k.node) : sz2[p] = NodeSize
        /\ \A p \in Of(us2, k.leaf) : sz2[p] = LeafNodeSize
    BY TrieWords DEF Trie, Uses
  <2>. QED  BY <1>4, <2>1, <2>2, <2>3 DEF Trie
<1>6. \A a \in Slots(l, L3_SIZE) : m2[a] = 0
  <2>1. sz2[l] = L3_SIZE + 1 /\ l \in Nat /\ L3_SIZE \in Nat
    BY <1>1, Constants
  <2>. QED  BY <2>1 DEF Slots, Words
<1>8. ASSUME NEW key \in Nat
      PROVE  /\ LeavesOf(m, r, key) # 0 => LeavesOf(m2, r, key) = LeavesOf(m, r, key)
             /\ Get(m2, r, key) = Get(m, r, key)
  <2>. DEFINE n == m[r + L1Index(key)]
  <2>0. m2[r + L1Index(key)] = n
    BY <1>3, TriePath
  <2>1. CASE n # 0 /\ n + L2Index(key) = slot
    <3>1. LeavesOf(m, r, key) = 0 /\ LeavesOf(m2, r, key) = l
      BY <2>0, <2>1 DEF LeavesOf, NULL
    <3>2. m2[l + L3Index(key)] = 0
      BY <1>1, <1>6, <1>7, TriePath
    <3>. QED  BY <1>1, <3>1, <3>2 DEF Get, NULL
  <2>2. CASE ~(n # 0 /\ n + L2Index(key) = slot)
    <3>2. n # 0 => m2[n + L2Index(key)] = m[n + L2Index(key)]
      BY <1>3, <2>2, TriePath
    <3>3. LeavesOf(m, r, key) # 0 =>
            m2[LeavesOf(m, r, key) + L3Index(key)] = m[LeavesOf(m, r, key) + L3Index(key)]
      BY <1>3, TriePath, TrieWords
    <3>. QED  BY <2>0, <3>2, <3>3, SamePath
  <2>. QED  BY <2>1, <2>2
<1>. QED  BY <1>7, <1>8

\* Keys that share a leaf node share the slots that lead to it.
LEMMA OnePath ==
  ASSUME NEW m, NEW sz, NEW us, NEW r, NEW k, Layout(sz, us), Trie(m, sz, us, r, k),
         NEW key \in Nat, NEW other \in Nat, LeavesOf(m, r, key) # 0,
         LeavesOf(m, r, other) = LeavesOf(m, r, key)
  PROVE  L1Index(other) = L1Index(key) /\ L2Index(other) = L2Index(key)
<1>1. PICK a, b : a = r + L1Index(key) /\ b = r + L1Index(other)
  OBVIOUS
<1>2. PICK n, n1 : n = m[a] /\ n1 = m[b]
  OBVIOUS
<1>3. PICK i, j : i = L2Index(key) /\ j = L2Index(other)
  OBVIOUS
<1>4. /\ a \in Slots(r, L1_SIZE) /\ b \in Slots(r, L1_SIZE)
      /\ n \in Of(us, k.node) /\ n1 \in Of(us, k.node)
      /\ m[n + i] = LeavesOf(m, r, key) /\ m[n1 + j] = LeavesOf(m, r, key)
  BY <1>1, <1>2, <1>3, TriePath
<1>5. /\ n + i \in Slots(n, L2_SIZE) /\ n1 + j \in Slots(n1, L2_SIZE)
      /\ n + i \in NodeSlotsIn(us, k) /\ n1 + j \in NodeSlotsIn(us, k)
  BY <1>3, <1>4, TriePath
<1>6. n + i = n1 + j
  BY <1>4, <1>5 DEF Trie, Links
<1>7. /\ n \in DOMAIN sz /\ n1 \in DOMAIN sz /\ n \in Nat \ {0}
      /\ n + i \in Words(sz, n) /\ n1 + j \in Words(sz, n1)
  BY <1>4, <1>5, TrieWords
<1>8. n = n1
  BY <1>6, <1>7, OneOwner
<1>9. a = b
  BY <1>2, <1>4, <1>7, <1>8 DEF Trie, Links
<1>10. /\ L1Index(key) \in Nat /\ L1Index(other) \in Nat /\ r \in Nat /\ i \in Nat /\ j \in Nat
  BY <1>3, IndexRange, TrieWords, Constants
<1>. QED  BY <1>1, <1>3, <1>6, <1>7, <1>8, <1>9, <1>10

\* The slot of a key is written, in its leaf node, and perhaps the count.
IsLeaf(m, r, key, l) == l = LeavesOf(m, r, key) /\ l # 0

LeafPut(m, m2, sz2, us2, r, k, key, l) ==
  /\ Trie(m2, sz2, us2, r, k)
  /\ \A other \in Nat : LeavesOf(m2, r, other) = LeavesOf(m, r, other)
  /\ \A other \in Keys :
       Get(m2, r, other) = IF other = key THEN m2[l + L3Index(key)] ELSE Get(m, r, other)

LEMMA PutLeaf ==
  ASSUME NEW m, NEW sz, NEW us, NEW m2, NEW sz2, NEW us2, NEW r,
         NEW k \in {PageUse, FreeUse},
         Layout(sz, us), Trie(m, sz, us, r, k),
         NEW key \in Keys, NEW l, IsLeaf(m, r, key, l),
         NEW X, \A a \in X : a = l + L3Index(key) \/ a = l + L3_SIZE,
         SameTrie(m, sz, us, m2, sz2, us2, k, X)
  PROVE  LeafPut(m, m2, sz2, us2, r, k, key, l)
<1>l. l = LeavesOf(m, r, key) /\ l # 0
  BY DEF IsLeaf
<1>0. key \in Nat
  BY KeyRange
<1>1. /\ l \in Of(us, k.leaf) /\ l \in DOMAIN sz /\ X \subseteq Words(sz, l)
      /\ l + L3Index(key) \in Slots(l, L3_SIZE) /\ l + L3_SIZE \notin Slots(l, L3_SIZE)
  BY <1>l, <1>0, TriePath, TrieWords
<1>2. /\ Of(us2, k.root) = Of(us, k.root) /\ Of(us2, k.node) = Of(us, k.node)
      /\ Of(us2, k.leaf) = Of(us, k.leaf)
      /\ \A p \in Of(us, k.root) \cup Of(us, k.node) \cup Of(us, k.leaf) :
           sz2[p] = sz[p] /\ \A a \in Words(sz, p) : a \notin X => m2[a] = m[a]
  BY DEF SameTrie, Uses
<1>3. /\ r # l /\ \A p \in Of(us, k.node) : p # l
  BY <1>1, TrieWords, UseNames DEF Of
<1>4. /\ \A a \in Words(sz, r) : a \notin X
      /\ \A p \in Of(us, k.node) : \A a \in Words(sz, p) : a \notin X
      /\ \A p \in Of(us, k.leaf) : p # l => \A a \in Words(sz, p) : a \notin X
  <2>1. ASSUME NEW p \in DOMAIN sz, p # l, NEW a \in Words(sz, p) PROVE a \notin X
    <3>. QED  BY <1>1, <2>1, OneOwner
  <2>. QED  BY <1>3, <2>1, TrieWords
<1>5. \A a \in Slots(r, L1_SIZE) : m2[a] = m[a]
  BY <1>2, <1>4, TrieWords
<1>6. \A a \in NodeSlotsIn(us, k) : m2[a] = m[a]
  BY <1>2, <1>4, TrieWords
<1>7. Trie(m2, sz2, us2, r, k)
  <2>1. Links(m2, Slots(r, L1_SIZE), Of(us, k.node))
    BY <1>5, LinksSame DEF Trie
  <2>2. Links(m2, NodeSlotsIn(us, k), Of(us, k.leaf))
    BY <1>6, LinksSame DEF Trie
  <2>3. NodeSlotsIn(us2, k) = NodeSlotsIn(us, k)
    BY <1>2 DEF NodeSlotsIn
  <2>. QED  BY <1>2, <2>1, <2>2, <2>3, TrieWords DEF Trie
<1>8. ASSUME NEW other \in Nat
      PROVE  /\ LeavesOf(m2, r, other) = LeavesOf(m, r, other)
             /\ m2[r + L1Index(other)] = m[r + L1Index(other)]
             /\ m[r + L1Index(other)] # 0 =>
                  m2[m[r + L1Index(other)] + L2Index(other)]
                    = m[m[r + L1Index(other)] + L2Index(other)]
  BY <1>5, <1>6, TriePath DEF LeavesOf, NULL
<1>9. ASSUME NEW other \in Keys, other # key PROVE Get(m2, r, other) = Get(m, r, other)
  <2>0. other \in Nat
    BY KeyRange
  <2>1. CASE LeavesOf(m, r, other) = 0
    BY <1>8, <2>0, <2>1 DEF Get, NULL
  <2>2. CASE LeavesOf(m, r, other) # 0 /\ LeavesOf(m, r, other) # l
    <3>1. LeavesOf(m, r, other) \in Of(us, k.leaf)
          /\ LeavesOf(m, r, other) + L3Index(other) \in Words(sz, LeavesOf(m, r, other))
      BY <2>0, <2>2, TriePath, TrieWords
    <3>2. m2[LeavesOf(m, r, other) + L3Index(other)] = m[LeavesOf(m, r, other) + L3Index(other)]
      BY <1>2, <1>4, <2>2, <3>1
    <3>. QED  BY <1>8, <2>0, <2>2, <3>2 DEF Get, NULL
  <2>3. CASE LeavesOf(m, r, other) = l
    <3>4. L1Index(key) = L1Index(other) /\ L2Index(key) = L2Index(other)
      BY <1>l, <1>0, <2>0, <2>3, OnePath
    <3>6. L3Index(other) # L3Index(key)
      BY <1>9, <3>4, SameKey
    <3>7. l + L3Index(other) \notin X
      <4>1. L3Index(key) \in 0 .. L3_SIZE - 1 /\ L3Index(other) \in 0 .. L3_SIZE - 1 /\ l \in Nat
        BY <1>0, <1>1, <2>0, IndexRange, TrieWords
      <4>. QED  BY <3>6, <4>1, Constants
    <3>8. l + L3Index(other) \in Words(sz, l)
      BY <1>1, <2>0, TriePath, TrieWords
    <3>9. m2[l + L3Index(other)] = m[l + L3Index(other)]
      BY <1>1, <1>2, <3>7, <3>8
    <3>. QED  BY <1>8, <2>0, <2>3, <3>9 DEF Get, NULL
  <2>. QED  BY <2>1, <2>2, <2>3
<1>10. Get(m2, r, key) = m2[l + L3Index(key)]
  BY <1>l, <1>0, <1>8 DEF Get, NULL
<1>. QED  BY <1>7, <1>8, <1>9, <1>10 DEF LeafPut

LEMMA WriteLeaf ==
  ASSUME NEW m, NEW sz, NEW us, NEW m2, NEW sz2, NEW us2, NEW r,
         NEW k \in {PageUse, FreeUse},
         Layout(sz, us), Trie(m, sz, us, r, k),
         NEW key \in Keys, NEW l, l = LeavesOf(m, r, key), l # 0,
         SameTrie(m, sz, us, m2, sz2, us2, k, {l + L3Index(key), l + L3_SIZE})
  PROVE  /\ Trie(m2, sz2, us2, r, k)
         /\ \A other \in Nat : LeavesOf(m2, r, other) = LeavesOf(m, r, other)
         /\ \A other \in Keys :
              Get(m2, r, other) = IF other = key THEN m2[l + L3Index(key)] ELSE Get(m, r, other)
<1>1. PICK X : X = {l + L3Index(key), l + L3_SIZE}
  OBVIOUS
<1>2. SameTrie(m, sz, us, m2, sz2, us2, k, X) /\ \A a \in X : a = l + L3Index(key) \/ a = l + L3_SIZE
  BY <1>1
<1>3. IsLeaf(m, r, key, l)
  BY DEF IsLeaf
<1>4. LeafPut(m, m2, sz2, us2, r, k, key, l)
  BY <1>2, <1>3, PutLeaf
<1>. QED  BY <1>4 DEF LeafPut
\* The trie without an object: every lookup finds what it found.
Unlinked(m, m2, sz2, us2, r, k) ==
  Trie(m2, sz2, us2, r, k) /\ \A key \in Nat : Get(m2, r, key) = Get(m, r, key)

Holds(m, a, p) == p = m[a] /\ p # 0

\* An empty leaf node is unlinked; its own words may be anything.
LessLeaf(m, sz, us, m2, sz2, us2, k, node, slot, l) ==
  /\ node \in Of(us, k.node) /\ slot \in Slots(node, L2_SIZE) /\ Holds(m, slot, l)
  /\ \A a \in Slots(l, L3_SIZE) : m[a] = 0
  /\ Of(us2, k.root) = Of(us, k.root) /\ Of(us2, k.node) = Of(us, k.node)
  /\ \A p : p \in Of(us2, k.leaf) <=> p \in Of(us, k.leaf) /\ p # l
  /\ m2[slot] = 0
  /\ \A u \in Uses(k) : \A p \in Of(us, u) : p # l =>
       sz2[p] = sz[p] /\ \A a \in Words(sz, p) :
         a # slot /\ a # node + L2_SIZE => m2[a] = m[a]

LEMMA UnlinkLeafNode ==
  ASSUME NEW m, NEW sz, NEW us, NEW m2, NEW sz2, NEW us2, NEW r,
         NEW k \in {PageUse, FreeUse},
         Layout(sz, us), Trie(m, sz, us, r, k),
         NEW node, NEW slot, NEW l, LessLeaf(m, sz, us, m2, sz2, us2, k, node, slot, l)
  PROVE  Unlinked(m, m2, sz2, us2, r, k)
<1>. USE DEF LessLeaf
<1>0. l = m[slot] /\ l # 0 /\ Of(us2, k.leaf) = Of(us, k.leaf) \ {l}
  <2>1. \A p : p \in Of(us2, k.leaf) <=> p \in Of(us, k.leaf) \ {l}
    OBVIOUS
  <2>. QED  BY <2>1 DEF Holds
<1>2. /\ slot \in Words(sz, node) /\ node + L2_SIZE \in Words(sz, node)
      /\ slot \in NodeSlotsIn(us, k) /\ l \in Of(us, k.leaf)
      /\ node \in DOMAIN sz /\ r \in DOMAIN sz /\ r # node /\ r # l /\ node # l
      /\ \A p \in Of(us, k.node) : p # l
      /\ \A p \in Of(us, k.leaf) : p # node /\ p \in DOMAIN sz
  <2>1. slot \in NodeSlotsIn(us, k) /\ slot \in Words(sz, node)
    BY TrieWords
  <2>2. l \in Of(us, k.leaf)
    BY <1>0, <2>1 DEF Trie, Links
  <2>. QED  BY <2>1, <2>2, TrieWords, UseNames DEF Of, Layout
<1>3. /\ \A a \in Slots(r, L1_SIZE) : m2[a] = m[a]
      /\ \A p \in Of(us, k.leaf) : p # l => \A a \in Words(sz, p) : m2[a] = m[a]
      /\ \A a \in NodeSlotsIn(us, k) : a # slot => m2[a] = m[a]
  <2>1. ASSUME NEW u \in Uses(k), NEW p \in Of(us, u), p # node, p # l, NEW a \in Words(sz, p)
        PROVE  m2[a] = m[a]
    <3>1. a \notin {slot, node + L2_SIZE}
      BY <1>2, <2>1, OneOwner DEF Of, Layout
    <3>. QED  BY <2>1, <3>1
  <2>2. k.root \in Uses(k) /\ k.node \in Uses(k) /\ k.leaf \in Uses(k)
    BY DEF Uses
  <2>3. ASSUME NEW a \in NodeSlotsIn(us, k), a # slot PROVE m2[a] = m[a]
    <3>1. PICK p \in Of(us, k.node) : a \in Slots(p, L2_SIZE) /\ a \in Words(sz, p)
      BY TrieWords
    <3>2. CASE p # node
      BY <1>2, <2>1, <2>2, <3>1, <3>2
    <3>3. CASE p = node
      <4>1. a # node + L2_SIZE
        BY <3>1, <3>3, TrieWords
      <4>. QED  BY <1>2, <2>2, <2>3, <3>1, <3>3, <4>1
    <3>. QED  BY <3>2, <3>3
  <2>. QED  BY <1>2, <2>1, <2>2, <2>3, TrieWords
<1>4. NodeSlotsIn(us2, k) = NodeSlotsIn(us, k)
  BY DEF NodeSlotsIn
<1>7. Trie(m2, sz2, us2, r, k)
  <2>1. Links(m2, Slots(r, L1_SIZE), Of(us, k.node))
    BY <1>3, LinksSame DEF Trie
  <2>2. Links(m2, NodeSlotsIn(us, k), Of(us2, k.leaf))
    <3>1. Links(m, NodeSlotsIn(us, k), Of(us, k.leaf))
      BY DEF Trie
    <3>2. Links(m2, NodeSlotsIn(us, k), Of(us, k.leaf) \ {m[slot]})
      BY <1>0, <1>2, <1>3, <3>1, LinksDrop
    <3>. QED  BY <1>0, <3>2
  <2>3. /\ sz2[r] = RootSize /\ \A p \in Of(us, k.node) : sz2[p] = NodeSize
        /\ \A p \in Of(us2, k.leaf) : sz2[p] = LeafNodeSize
    BY <1>0, <1>2, TrieWords DEF Trie, Uses
  <2>. QED  BY <1>4, <2>1, <2>2, <2>3 DEF Trie
<1>8. ASSUME NEW key \in Nat PROVE Get(m2, r, key) = Get(m, r, key)
  <2>. DEFINE n == m[r + L1Index(key)]
  <2>0. m2[r + L1Index(key)] = n
    BY <1>3, TriePath
  <2>1. CASE n # 0 /\ n + L2Index(key) = slot
    <3>1. LeavesOf(m, r, key) = l /\ LeavesOf(m2, r, key) = 0
      BY <1>0, <2>0, <2>1 DEF LeavesOf, NULL
    <3>2. m[l + L3Index(key)] = 0
      BY <1>2, TriePath
    <3>. QED  BY <3>1, <3>2 DEF Get, NULL
  <2>2. CASE ~(n # 0 /\ n + L2Index(key) = slot)
    <3>2. n # 0 => m2[n + L2Index(key)] = m[n + L2Index(key)]
      BY <1>3, <2>2, TriePath
    <3>3. LeavesOf(m, r, key) # 0 =>
            LeavesOf(m, r, key) \in Of(us, k.leaf) /\ LeavesOf(m, r, key) # l
      <4>1. ASSUME LeavesOf(m, r, key) = l PROVE FALSE
        <5>1. l = m[n + L2Index(key)] /\ n \in Of(us, k.node)
          BY <1>0, <4>1, TriePath
        <5>2. n # 0 /\ n + L2Index(key) \in NodeSlotsIn(us, k)
          BY <5>1, TriePath, TrieWords
        <5>3. Links(m, NodeSlotsIn(us, k), Of(us, k.leaf))
          BY DEF Trie
        <5>4. n + L2Index(key) = slot
          <6>1. PICK a : a = n + L2Index(key)
            OBVIOUS
          <6>2. a \in NodeSlotsIn(us, k) /\ m[a] = m[slot] /\ m[a] # 0
            BY <1>0, <5>1, <5>2, <6>1
          <6>. QED  BY <1>2, <5>3, <6>1, <6>2 DEF Links
        <5>. QED  BY <2>2, <5>2, <5>4
      <4>. QED  BY <4>1, TriePath
    <3>4. LeavesOf(m, r, key) # 0 =>
            m2[LeavesOf(m, r, key) + L3Index(key)] = m[LeavesOf(m, r, key) + L3Index(key)]
      BY <1>3, <3>3, TriePath, TrieWords
    <3>. QED  BY <2>0, <3>2, <3>4, SamePath
  <2>. QED  BY <2>1, <2>2
<1>. QED  BY <1>7, <1>8 DEF Unlinked

\* An empty node is unlinked.
LessNode(m, sz, us, m2, sz2, us2, r, k, slot, n) ==
  /\ slot \in Slots(r, L1_SIZE) /\ Holds(m, slot, n)
  /\ \A a \in Slots(n, L2_SIZE) : m[a] = 0
  /\ Of(us2, k.root) = Of(us, k.root) /\ Of(us2, k.leaf) = Of(us, k.leaf)
  /\ \A p : p \in Of(us2, k.node) <=> p \in Of(us, k.node) /\ p # n
  /\ m2[slot] = 0
  /\ \A u \in Uses(k) : \A p \in Of(us, u) : p # n =>
       sz2[p] = sz[p] /\ \A a \in Words(sz, p) : a # slot => m2[a] = m[a]

LEMMA UnlinkNode ==
  ASSUME NEW m, NEW sz, NEW us, NEW m2, NEW sz2, NEW us2, NEW r,
         NEW k \in {PageUse, FreeUse},
         Layout(sz, us), Trie(m, sz, us, r, k),
         NEW slot, NEW n, LessNode(m, sz, us, m2, sz2, us2, r, k, slot, n)
  PROVE  Unlinked(m, m2, sz2, us2, r, k)
<1>. USE DEF LessNode
<1>0. n = m[slot] /\ n # 0 /\ Of(us2, k.node) = Of(us, k.node) \ {n}
  <2>1. \A p : p \in Of(us2, k.node) <=> p \in Of(us, k.node) \ {n}
    OBVIOUS
  <2>. QED  BY <2>1 DEF Holds
<1>2. /\ slot \in Words(sz, r) /\ n \in Of(us, k.node)
      /\ r \in DOMAIN sz /\ r # n
      /\ \A p \in Of(us, k.leaf) : p # n /\ p # r /\ p \in DOMAIN sz
      /\ \A p \in Of(us, k.node) : p # r /\ p \in DOMAIN sz
  <2>1. n \in Of(us, k.node)
    BY <1>0 DEF Trie, Links
  <2>2. slot \in Words(sz, r)
    BY TrieWords
  <2>. QED  BY <2>1, <2>2, TrieWords, UseNames DEF Of, Layout
<1>3. /\ \A a \in Slots(r, L1_SIZE) : a # slot => m2[a] = m[a]
      /\ \A p \in Of(us, k.leaf) : \A a \in Words(sz, p) : m2[a] = m[a]
      /\ \A p \in Of(us, k.node) : p # n => \A a \in Words(sz, p) : m2[a] = m[a]
  <2>1. ASSUME NEW u \in Uses(k), NEW p \in Of(us, u), p # r, p # n, NEW a \in Words(sz, p)
        PROVE  m2[a] = m[a]
    <3>1. a # slot
      BY <1>2, <2>1, OneOwner DEF Of, Layout
    <3>. QED  BY <2>1, <3>1
  <2>2. k.root \in Uses(k) /\ k.node \in Uses(k) /\ k.leaf \in Uses(k)
    BY DEF Uses
  <2>3. ASSUME NEW a \in Slots(r, L1_SIZE), a # slot PROVE m2[a] = m[a]
    <3>1. a \in Words(sz, r) /\ r \in Of(us, k.root)
      BY TrieWords
    <3>. QED  BY <1>2, <2>2, <2>3, <3>1
  <2>. QED  BY <1>2, <2>1, <2>2, <2>3
<1>4. /\ NodeSlotsIn(us, k) = NodeSlotsIn(us2, k) \cup Slots(n, L2_SIZE)
      /\ \A a \in NodeSlotsIn(us2, k) : m2[a] = m[a]
  <2>1. NodeSlotsIn(us, k) = NodeSlotsIn(us2, k) \cup Slots(n, L2_SIZE)
    BY <1>0, <1>2 DEF NodeSlotsIn
  <2>2. ASSUME NEW a \in NodeSlotsIn(us2, k) PROVE m2[a] = m[a]
    <3>1. PICK p \in Of(us2, k.node) : a \in Slots(p, L2_SIZE)
      BY DEF NodeSlotsIn
    <3>2. p \in Of(us, k.node) /\ p # n /\ a \in Words(sz, p)
      BY <3>1, TrieWords
    <3>. QED  BY <1>3, <3>2
  <2>. QED  BY <2>1, <2>2
<1>7. Trie(m2, sz2, us2, r, k)
  <2>1. Links(m2, Slots(r, L1_SIZE), Of(us2, k.node))
    <3>1. Links(m, Slots(r, L1_SIZE), Of(us, k.node))
      BY DEF Trie
    <3>2. Links(m2, Slots(r, L1_SIZE), Of(us, k.node) \ {m[slot]})
      BY <1>0, <1>2, <1>3, <3>1, LinksDrop
    <3>. QED  BY <1>0, <3>2
  <2>2. Links(m2, NodeSlotsIn(us2, k), Of(us2, k.leaf))
    <3>1. 0 \notin Of(us, k.leaf) /\ Links(m, NodeSlotsIn(us, k), Of(us, k.leaf))
      BY TrieWords DEF Trie
    <3>2. Links(m, NodeSlotsIn(us2, k) \cup Slots(n, L2_SIZE), Of(us, k.leaf))
      BY <1>4, <3>1
    <3>3. Links(m, NodeSlotsIn(us2, k), Of(us, k.leaf))
      BY <3>1, <3>2, LinksMore
    <3>4. Links(m2, NodeSlotsIn(us2, k), Of(us, k.leaf))
      BY <1>4, <3>3, LinksSame
    <3>. QED  BY <3>4
  <2>3. /\ sz2[r] = RootSize /\ \A p \in Of(us2, k.node) : sz2[p] = NodeSize
        /\ \A p \in Of(us2, k.leaf) : sz2[p] = LeafNodeSize
    BY <1>0, <1>2, TrieWords DEF Trie, Uses
  <2>. QED  BY <2>1, <2>2, <2>3 DEF Trie
<1>8. ASSUME NEW key \in Nat PROVE Get(m2, r, key) = Get(m, r, key)
  <2>1. CASE r + L1Index(key) = slot
    <3>1. m[n + L2Index(key)] = 0
      BY <1>2, TriePath
    <3>2. LeavesOf(m, r, key) = 0 /\ LeavesOf(m2, r, key) = 0
      BY <1>0, <2>1, <3>1 DEF LeavesOf, NULL
    <3>. QED  BY <3>2 DEF Get, NULL
  <2>2. CASE r + L1Index(key) # slot
    <3>1. m2[r + L1Index(key)] = m[r + L1Index(key)]
      BY <1>3, <2>2, TriePath
    <3>2. m[r + L1Index(key)] # 0 =>
            m[r + L1Index(key)] \in Of(us, k.node) /\ m[r + L1Index(key)] # n
      BY <1>0, <2>2, TriePath DEF Trie, Links
    <3>3. m[r + L1Index(key)] # 0 =>
            m2[m[r + L1Index(key)] + L2Index(key)] = m[m[r + L1Index(key)] + L2Index(key)]
      BY <1>3, <3>2, TriePath, TrieWords
    <3>4. LeavesOf(m, r, key) # 0 =>
            m2[LeavesOf(m, r, key) + L3Index(key)] = m[LeavesOf(m, r, key) + L3Index(key)]
      BY <1>3, TriePath, TrieWords
    <3>. QED  BY <3>1, <3>3, <3>4, SamePath
  <2>. QED  BY <2>1, <2>2
<1>. QED  BY <1>7, <1>8 DEF Unlinked

-----------------------------------------------------------------------------
(* Counts                                                                  *)

Used(m, p, n)    == {a \in Slots(p, n) : m[a] # 0}
Counted(m, p, n) == m[p + n] = Cardinality(Used(m, p, n))

LEMMA UsedFinite ==
  ASSUME NEW m, NEW p \in Nat, NEW n \in Nat
  PROVE  /\ IsFiniteSet(Used(m, p, n)) /\ Cardinality(Used(m, p, n)) \in Nat
         /\ Cardinality(Used(m, p, n)) = 0 <=> Used(m, p, n) = {}
<1>1. IsFiniteSet(Slots(p, n))
  BY FS_Interval DEF Slots
<1>2. IsFiniteSet(Used(m, p, n))
  BY <1>1, FS_Subset DEF Used
<1>. QED  BY <1>2, FS_CardinalityType, FS_EmptySet

LEMMA CountSame ==
  ASSUME NEW m, NEW m2, NEW p \in Nat, NEW n \in Nat,
         \A a \in Slots(p, n) : m2[a] = m[a]
  PROVE  Used(m2, p, n) = Used(m, p, n)
BY DEF Used

LEMMA CountFill ==
  ASSUME NEW m, NEW m2, NEW p \in Nat, NEW n \in Nat, NEW slot \in Slots(p, n),
         m[slot] = 0, m2[slot] # 0, \A a \in Slots(p, n) : a # slot => m2[a] = m[a]
  PROVE  Cardinality(Used(m2, p, n)) = Cardinality(Used(m, p, n)) + 1
<1>1. Used(m2, p, n) = Used(m, p, n) \cup {slot} /\ slot \notin Used(m, p, n)
  BY DEF Used
<1>. QED  BY ZenonT(60), <1>1, UsedFinite, FS_AddElement

LEMMA CountClear ==
  ASSUME NEW m, NEW m2, NEW p \in Nat, NEW n \in Nat, NEW slot \in Slots(p, n),
         m[slot] # 0, m2[slot] = 0, \A a \in Slots(p, n) : a # slot => m2[a] = m[a]
  PROVE  /\ Cardinality(Used(m2, p, n)) = Cardinality(Used(m, p, n)) - 1
         /\ Cardinality(Used(m, p, n)) \in Nat \ {0}
<1>1. Used(m2, p, n) = Used(m, p, n) \ {slot} /\ slot \in Used(m, p, n)
  BY DEF Used
<1>2. Cardinality(Used(m2, p, n)) = Cardinality(Used(m, p, n)) - 1
  BY ZenonT(60), <1>1, UsedFinite, FS_RemoveElement
<1>3. Cardinality(Used(m, p, n)) # 0
  BY <1>1, UsedFinite
<1>. QED  BY <1>2, <1>3, UsedFinite

-----------------------------------------------------------------------------
(* Lists: the first word of each object links the next                     *)

Lists(m, f, n, S) ==
  /\ \A p \in S : \E i \in 1 .. n : f[i] = p
  /\ \A i, j \in 1 .. n : f[i] = f[j] => i = j
  /\ \A i \in 1 .. n : m[f[i]] = IF i = n THEN 0 ELSE f[i + 1]

\* The list from head on has the objects S.
Chain(m, head, S) ==
  \E n \in Nat : \E f \in [1 .. n -> S] :
    Lists(m, f, n, S) /\ head = IF n = 0 THEN 0 ELSE f[1]

LEMMA ChainEmpty == ASSUME NEW m PROVE Chain(m, 0, {})
<1>. DEFINE f == [i \in 1 .. 0 |-> 0]
<1>1. f \in [1 .. 0 -> {}] /\ Lists(m, f, 0, {})
  BY DEF Lists
<1>. HIDE DEF f
<1>. QED  BY <1>1 DEF Chain

LEMMA ChainNull ==
  ASSUME NEW m, NEW S, 0 \notin S, Chain(m, 0, S)
  PROVE  S = {}
<1>1. PICK n \in Nat : \E f \in [1 .. n -> S] : Lists(m, f, n, S) /\ 0 = IF n = 0 THEN 0 ELSE f[1]
  BY DEF Chain
<1>2. PICK f \in [1 .. n -> S] : Lists(m, f, n, S) /\ 0 = IF n = 0 THEN 0 ELSE f[1]
  BY <1>1
<1>3. n = 0
  BY <1>2
<1>. QED  BY <1>2, <1>3 DEF Lists

LEMMA ChainSame ==
  ASSUME NEW m, NEW m2, NEW S, NEW head, Chain(m, head, S),
         \A p \in S : m2[p] = m[p]
  PROVE  Chain(m2, head, S)
<1>1. PICK n \in Nat : \E f \in [1 .. n -> S] : Lists(m, f, n, S) /\ head = IF n = 0 THEN 0 ELSE f[1]
  BY DEF Chain
<1>2. PICK f \in [1 .. n -> S] : Lists(m, f, n, S) /\ head = IF n = 0 THEN 0 ELSE f[1]
  BY <1>1
<1>3. Lists(m2, f, n, S)
  BY <1>2 DEF Lists
<1>. QED  BY <1>2, <1>3 DEF Chain

LEMMA ChainPush ==
  ASSUME NEW m, NEW S, NEW p, Chain(m, m[p], S), p \notin S, 0 \notin S
  PROVE  Chain(m, p, S \cup {p})
<1>1. PICK n \in Nat : \E f \in [1 .. n -> S] : Lists(m, f, n, S) /\ m[p] = IF n = 0 THEN 0 ELSE f[1]
  BY DEF Chain
<1>2. PICK f \in [1 .. n -> S] : Lists(m, f, n, S) /\ m[p] = IF n = 0 THEN 0 ELSE f[1]
  BY <1>1
<1>. DEFINE g == [i \in 1 .. n + 1 |-> IF i = 1 THEN p ELSE f[i - 1]]
<1>3. g \in [1 .. n + 1 -> S \cup {p}]
  <2>1. ASSUME NEW i \in 1 .. n + 1, i # 1 PROVE i - 1 \in 1 .. n
    BY <2>1
  <2>. QED  BY <2>1
<1>4. g[1] = p /\ \A i \in 1 .. n : g[i + 1] = f[i] /\ i + 1 \in 1 .. n + 1
  <2>1. 1 \in 1 .. n + 1
    OBVIOUS
  <2>2. ASSUME NEW i \in 1 .. n PROVE i + 1 \in 1 .. n + 1 /\ i + 1 # 1 /\ (i + 1) - 1 = i
    OBVIOUS
  <2>. QED  BY <2>1, <2>2
<1>5. \A i \in 1 .. n + 1 : i = 1 \/ \E j \in 1 .. n : i = j + 1
  <2>1. ASSUME NEW i \in 1 .. n + 1, i # 1 PROVE i - 1 \in 1 .. n /\ i = (i - 1) + 1
    BY <2>1
  <2>. QED  BY <2>1
<1>. HIDE DEF g
<1>6. Lists(m, g, n + 1, S \cup {p})
  <2>1. \A q \in S \cup {p} : \E i \in 1 .. n + 1 : g[i] = q
    <3>1. 1 \in 1 .. n + 1
      OBVIOUS
    <3>. QED  BY <1>2, <1>4, <3>1 DEF Lists
  <2>2. ASSUME NEW i \in 1 .. n + 1, NEW j \in 1 .. n + 1, g[i] = g[j]
        PROVE  i = j
    <3>1. \A l \in 1 .. n : g[l + 1] # p
      BY <1>4
    <3>2. CASE i = 1 \/ j = 1
      BY <1>4, <1>5, <2>2, <3>1, <3>2
    <3>3. ASSUME NEW a \in 1 .. n, NEW b \in 1 .. n, i = a + 1, j = b + 1
          PROVE  i = j
      <4>1. f[a] = f[b]
        BY <1>4, <2>2, <3>3
      <4>. QED  BY <1>2, <3>3, <4>1 DEF Lists
    <3>. QED  BY <1>5, <3>2, <3>3
  <2>3. ASSUME NEW i \in 1 .. n + 1
        PROVE  m[g[i]] = IF i = n + 1 THEN 0 ELSE g[i + 1]
    <3>1. CASE i = 1
      <4>1. n # 0 => 1 \in 1 .. n
        OBVIOUS
      <4>2. CASE n = 0
        BY <1>2, <1>4, <3>1, <4>2
      <4>3. CASE n # 0
        BY <1>2, <1>4, <3>1, <4>1, <4>3
      <4>. QED  BY <4>2, <4>3
    <3>2. ASSUME NEW j \in 1 .. n, i = j + 1
          PROVE  m[g[i]] = IF i = n + 1 THEN 0 ELSE g[i + 1]
      <4>1. m[g[i]] = IF j = n THEN 0 ELSE f[j + 1]
        BY <1>2, <1>4, <3>2 DEF Lists
      <4>2. CASE j = n
        BY <3>2, <4>1, <4>2
      <4>3. CASE j # n
        <5>1. j + 1 \in 1 .. n /\ i # n + 1
          BY <3>2, <4>3
        <5>2. g[i + 1] = f[j + 1]
          BY <1>4, <3>2, <5>1
        <5>. QED  BY <4>1, <4>3, <5>1, <5>2
      <4>. QED  BY <4>2, <4>3
    <3>. QED  BY <1>5, <3>1, <3>2
  <2>. QED  BY <2>1, <2>2, <2>3 DEF Lists
<1>. QED  BY <1>3, <1>4, <1>6 DEF Chain

LEMMA ChainPop ==
  ASSUME NEW m, NEW S, NEW p, p # 0, Chain(m, p, S)
  PROVE  p \in S /\ Chain(m, m[p], S \ {p})
<1>1. PICK n \in Nat : \E f \in [1 .. n -> S] : Lists(m, f, n, S) /\ p = IF n = 0 THEN 0 ELSE f[1]
  BY DEF Chain
<1>2. PICK f \in [1 .. n -> S] : Lists(m, f, n, S) /\ p = IF n = 0 THEN 0 ELSE f[1]
  BY <1>1
<1>3. n # 0 /\ p = f[1] /\ 1 \in 1 .. n /\ n - 1 \in Nat
  BY <1>2
<1>. DEFINE g == [i \in 1 .. n - 1 |-> f[i + 1]]
<1>4. \A i \in 1 .. n - 1 : i + 1 \in 1 .. n /\ i + 1 # 1
  BY <1>3
<1>5. g \in [1 .. n - 1 -> S \ {p}] /\ \A i \in 1 .. n - 1 : g[i] = f[i + 1]
  BY <1>2, <1>3, <1>4 DEF Lists
<1>. HIDE DEF g
<1>6. \A i \in 1 .. n : i = 1 \/ \E j \in 1 .. n - 1 : i = j + 1
  <2>1. ASSUME NEW i \in 1 .. n, i # 1 PROVE i - 1 \in 1 .. n - 1 /\ i = (i - 1) + 1
    BY <2>1
  <2>. QED  BY <2>1
<1>7. Lists(m, g, n - 1, S \ {p})
  <2>1. ASSUME NEW q \in S \ {p} PROVE \E i \in 1 .. n - 1 : g[i] = q
    <3>1. PICK i \in 1 .. n : f[i] = q
      BY <1>2 DEF Lists
    <3>2. i # 1
      BY <1>3, <3>1
    <3>3. PICK j \in 1 .. n - 1 : i = j + 1
      BY <1>6, <3>2
    <3>. QED  BY <1>5, <3>1, <3>3
  <2>2. ASSUME NEW i \in 1 .. n - 1, NEW j \in 1 .. n - 1, g[i] = g[j] PROVE i = j
    <3>1. i + 1 = j + 1
      BY <1>2, <1>4, <1>5, <2>2 DEF Lists
    <3>. QED  BY <3>1
  <2>3. ASSUME NEW i \in 1 .. n - 1
        PROVE  m[g[i]] = IF i = n - 1 THEN 0 ELSE g[i + 1]
    <3>1. m[g[i]] = IF i + 1 = n THEN 0 ELSE f[(i + 1) + 1]
      BY <1>2, <1>4, <1>5 DEF Lists
    <3>2. CASE i = n - 1
      BY <1>3, <3>1, <3>2
    <3>3. CASE i # n - 1
      <4>1. i + 1 \in 1 .. n - 1 /\ i + 1 # n
        BY <1>3, <3>3
      <4>. QED  BY <1>5, <3>1, <3>3, <4>1
    <3>. QED  BY <3>2, <3>3
  <2>. QED  BY <2>1, <2>2, <2>3 DEF Lists
<1>8. m[p] = IF n - 1 = 0 THEN 0 ELSE g[1]
  <2>1. m[p] = IF 1 = n THEN 0 ELSE f[1 + 1]
    BY <1>2, <1>3 DEF Lists
  <2>2. CASE n = 1
    BY <2>1, <2>2
  <2>3. CASE n # 1
    <3>1. 1 \in 1 .. n - 1 /\ n - 1 # 0
      BY <1>3, <2>3
    <3>. QED  BY <1>5, <2>1, <2>3, <3>1
  <2>. QED  BY <2>2, <2>3
<1>. QED  BY <1>2, <1>3, <1>5, <1>7, <1>8 DEF Chain

-----------------------------------------------------------------------------
(* Chunks                                                                  *)

ObjectSizes == {SpanSize, DataChunkSize, RootSize, NodeSize, LeafNodeSize}

LEMMA Aligned ==
  ASSUME NEW a \in Nat
  PROVE  a % ALIGNMENT = 0 <=> \E q \in Nat : a = ALIGNMENT * q
<1>1. a \div ALIGNMENT \in Nat /\ a % ALIGNMENT \in 0 .. ALIGNMENT - 1
      /\ a = ALIGNMENT * (a \div ALIGNMENT) + (a % ALIGNMENT)
  BY DivMod, Constants
<1>2. ASSUME a % ALIGNMENT = 0 PROVE \E q \in Nat : a = ALIGNMENT * q
  <2>1. PICK q \in Nat : q = a \div ALIGNMENT
    BY <1>1
  <2>2. a = ALIGNMENT * q + 0 /\ ALIGNMENT * q \in Nat
    BY <1>1, <1>2, <2>1, Constants
  <2>. QED  BY <2>2
<1>3. ASSUME NEW q \in Nat, a = ALIGNMENT * q PROVE a % ALIGNMENT = 0
  <2>1. PICK t \in Nat, r \in 0 .. ALIGNMENT - 1 :
          r = a % ALIGNMENT /\ a = ALIGNMENT * t + r
    <3>1. PICK t \in Nat : t = a \div ALIGNMENT
      BY <1>1
    <3>2. PICK r \in 0 .. ALIGNMENT - 1 : r = a % ALIGNMENT
      BY <1>1
    <3>. QED  BY <1>1, <3>1, <3>2
  <2>2. ALIGNMENT * t + r = ALIGNMENT * q + 0 /\ 0 \in 0 .. ALIGNMENT - 1
    BY <1>3, <2>1, Constants
  <2>3. r = 0
    BY <2>2, SameDigits, Constants
  <2>. QED  BY <2>1, <2>3
<1>. QED  BY <1>2, <1>3

LEMMA SumAligned ==
  ASSUME NEW a \in Nat, NEW b \in Nat, a % ALIGNMENT = 0, b % ALIGNMENT = 0
  PROVE  (a + b) % ALIGNMENT = 0
<1>1. PICK p \in Nat, q \in Nat : a = ALIGNMENT * p /\ b = ALIGNMENT * q
  BY Aligned
<1>2. a + b = ALIGNMENT * (p + q) /\ p + q \in Nat /\ a + b \in Nat
  BY <1>1, Constants
<1>. QED  BY <1>2, Aligned

\* The least multiple of the alignment that is not less.
LEMMA RoundUp ==
  ASSUME NEW a \in Nat
  PROVE  /\ AlignUp(a) \in Nat /\ AlignUp(a) % ALIGNMENT = 0 /\ a <= AlignUp(a)
         /\ \A b \in Nat : b % ALIGNMENT = 0 /\ a <= b => AlignUp(a) <= b
<1>1. a + ALIGNMENT - 1 \in Nat
  BY Constants
<1>2. PICK q \in Nat, r \in 0 .. ALIGNMENT - 1 :
        q = (a + ALIGNMENT - 1) \div ALIGNMENT /\ a + ALIGNMENT - 1 = ALIGNMENT * q + r
  <2>1. PICK x \in Nat : x = a + ALIGNMENT - 1
    BY <1>1
  <2>2. x \div ALIGNMENT \in Nat /\ x % ALIGNMENT \in 0 .. ALIGNMENT - 1
        /\ x = ALIGNMENT * (x \div ALIGNMENT) + (x % ALIGNMENT)
    BY DivMod, Constants
  <2>3. PICK q \in Nat : q = x \div ALIGNMENT
    BY <2>2
  <2>4. PICK r \in 0 .. ALIGNMENT - 1 : r = x % ALIGNMENT
    BY <2>2
  <2>. QED  BY <2>1, <2>2, <2>3, <2>4
<1>3. ALIGNMENT * q \in Nat /\ AlignUp(a) = ALIGNMENT * q
  BY <1>2, Constants DEF AlignUp
<1>4. a <= AlignUp(a) /\ AlignUp(a) < a + ALIGNMENT
  BY <1>2, <1>3, Constants
<1>5. ASSUME NEW b \in Nat, b % ALIGNMENT = 0, a <= b PROVE AlignUp(a) <= b
  <2>1. PICK t \in Nat : b = ALIGNMENT * t
    BY <1>5, Aligned
  <2>2. CASE t < q
    <3>1. ALIGNMENT * (t + 1) <= ALIGNMENT * q
      BY <2>2, Constants
    <3>2. ALIGNMENT * (t + 1) = ALIGNMENT * t + ALIGNMENT
      BY Constants
    <3>. QED  BY <1>3, <1>4, <1>5, <2>1, <3>1, <3>2, Constants
  <2>3. CASE t >= q
    <3>1. ALIGNMENT * q <= ALIGNMENT * t
      BY <2>3, Constants
    <3>. QED  BY <1>3, <2>1, <3>1
  <2>. QED  BY <2>2, <2>3
<1>. QED  BY <1>3, <1>4, <1>5, Aligned

\* Chunks follow one another.
LEMMA ChunkBases ==
  ASSUME NEW k \in Nat
  PROVE  /\ ChunkBase(k + 1) \in Nat \ {0} /\ ChunkBase(k + 1) >= ALIGNMENT
         /\ ChunkBase(k + 2) = ChunkBase(k + 1) + META_CHUNK_SIZE
         /\ ChunkBase(k + 1) % ALIGNMENT = 0
         /\ \A j \in Nat : k <= j => ChunkBase(k + 1) <= ChunkBase(j + 1)
<1>1. \A j \in Nat : ChunkBase(j + 1) = ALIGNMENT + j * META_CHUNK_SIZE
                     /\ j * META_CHUNK_SIZE \in Nat
  BY Constants DEF ChunkBase
<1>2. ChunkBase(k + 2) = ChunkBase(k + 1) + META_CHUNK_SIZE
  <2>1. ChunkBase(k + 2) = ALIGNMENT + (k + 1) * META_CHUNK_SIZE
    BY Constants DEF ChunkBase
  <2>2. (k + 1) * META_CHUNK_SIZE = k * META_CHUNK_SIZE + META_CHUNK_SIZE
    BY Constants
  <2>. QED  BY <1>1, <2>1, <2>2, Constants
<1>3. ASSUME NEW j \in Nat, k <= j PROVE ChunkBase(k + 1) <= ChunkBase(j + 1)
  <2>1. k * META_CHUNK_SIZE <= j * META_CHUNK_SIZE
    BY <1>3, Constants
  <2>. QED  BY <1>1, <2>1, Constants
<1>4. ChunkBase(k + 1) % ALIGNMENT = 0
  <2>1. META_CHUNK_SIZE % ALIGNMENT = 0
    BY RangeMapAssumption
  <2>2. PICK q \in Nat : META_CHUNK_SIZE = ALIGNMENT * q
    BY <2>1, Aligned, Constants
  <2>3. k * (ALIGNMENT * q) = ALIGNMENT * (k * q) /\ k * q \in Nat
    BY Constants
  <2>4. PICK x \in Nat : x = k * q
    BY <2>3
  <2>5. ChunkBase(k + 1) = ALIGNMENT * (1 + x)
    BY <1>1, <2>2, <2>3, <2>4, Constants
  <2>6. ChunkBase(k + 1) \in Nat /\ 1 + x \in Nat
    BY <1>1, Constants
  <2>. QED  BY <2>5, <2>6, Aligned
<1>. QED  BY <1>1, <1>2, <1>3, <1>4, Constants

LEMMA ObjectFits ==
  ASSUME NEW size \in ObjectSizes
  PROVE  size \in Nat \ {0} /\ AlignUp(HEADER) + size <= META_CHUNK_SIZE
BY Constants, RangeMapAssumption DEF ObjectSizes

-----------------------------------------------------------------------------
(* The arena                                                               *)

Memory == UNION {[S -> Nat] : S \in SUBSET Nat}
Heaps  == [mem : Memory, cur : Nat, end : Nat, count : Nat, page_map : Nat,
           free_list_map : Nat, carved : SUBSET (Nat \X Nat)]

Mem(h) == h.mem
Cur(h) == h.cur
End(h) == h.end
Count(h) == h.count
Objs(h) == h.carved
Pgm(h) == h.page_map
Flm(h) == h.free_list_map

LEMMA HeapType ==
  ASSUME NEW h \in Heaps
  PROVE  /\ Mem(h) \in Memory /\ Cur(h) \in Nat /\ End(h) \in Nat /\ Count(h) \in Nat
         /\ Pgm(h) \in Nat /\ Flm(h) \in Nat /\ Objs(h) \in SUBSET (Nat \X Nat)
BY DEF Heaps, Mem, Cur, End, Count, Pgm, Flm, Objs

\* The same heap with other words.
PutMem(h, m) == [h EXCEPT !.mem = m]

LEMMA MemoryType ==
  ASSUME NEW m \in Memory
  PROVE  m \in [DOMAIN m -> Nat] /\ DOMAIN m \subseteq Nat
BY DEF Memory

LEMMA IsMemory ==
  ASSUME NEW S \in SUBSET Nat, NEW m \in [S -> Nat]
  PROVE  m \in Memory
BY DEF Memory

LEMMA NewWords ==
  ASSUME NEW h \in Heaps, NEW m \in Memory
  PROVE  /\ PutMem(h, m) \in Heaps /\ Mem(PutMem(h, m)) = m /\ Cur(PutMem(h, m)) = Cur(h)
         /\ End(PutMem(h, m)) = End(h) /\ Count(PutMem(h, m)) = Count(h)
         /\ Pgm(PutMem(h, m)) = Pgm(h) /\ Flm(PutMem(h, m)) = Flm(h)
         /\ Objs(PutMem(h, m)) = Objs(h)
BY DEF PutMem, Heaps, Mem, Cur, End, Count, Pgm, Flm, Objs

\* The current chunk is the last; what it has left is between cur and end.
Chunked(h) ==
  /\ DOMAIN Mem(h) = ALIGNMENT .. ChunkBase(Count(h) + 1) - 1
  /\ Cur(h) % ALIGNMENT = 0
  /\ Count(h) = 0 => Cur(h) = 0 /\ End(h) = 0
  /\ Count(h) # 0 =>
       /\ End(h) = ChunkBase(Count(h) + 1)
       /\ ChunkBase(Count(h)) + HEADER <= Cur(h) /\ Cur(h) <= End(h)

\* An object of n words at p is aligned and in a chunk, before cur.
Placed(h, p, n) ==
  /\ p % ALIGNMENT = 0 /\ p + n <= Cur(h)
  /\ \E k \in 1 .. Count(h) :
       p >= ChunkBase(k) + HEADER /\ p + n <= ChunkBase(k) + META_CHUNK_SIZE

ArenaOK(h, sz, us) ==
  /\ h \in Heaps
  /\ Layout(sz, us) /\ IsFiniteSet(DOMAIN sz)
  /\ Objs(h) = {<<p, sz[p]>> : p \in DOMAIN sz}
  /\ Chunked(h)
  /\ \A p \in DOMAIN sz : Placed(h, p, sz[p])
  /\ \A a \in DOMAIN Mem(h) : a >= Cur(h) => Mem(h)[a] = 0

LEMMA PlacedMapped ==
  ASSUME NEW h, NEW sz, NEW us, ArenaOK(h, sz, us), NEW p \in DOMAIN sz
  PROVE  Words(sz, p) \subseteq DOMAIN Mem(h) /\ \A a \in Words(sz, p) : a < Cur(h) /\ a \in Nat
<1>1. /\ p \in Nat \ {0} /\ sz[p] \in Nat \ {0} /\ Count(h) \in Nat /\ Cur(h) \in Nat
      /\ Placed(h, p, sz[p]) /\ Chunked(h)
  BY HeapType DEF ArenaOK, Layout
<1>2. PICK k \in 1 .. Count(h) :
        p >= ChunkBase(k) + HEADER /\ p + sz[p] <= ChunkBase(k) + META_CHUNK_SIZE
  BY <1>1 DEF Placed
<1>3. PICK j \in Nat : k = j + 1 /\ j + 1 <= Count(h)
  <2>1. k - 1 \in Nat /\ k = (k - 1) + 1 /\ k <= Count(h)
    BY <1>1, <1>2
  <2>. QED  BY <2>1
<1>4. /\ ChunkBase(j + 1) >= ALIGNMENT /\ ChunkBase(j + 1) \in Nat
      /\ ChunkBase(j + 2) = ChunkBase(j + 1) + META_CHUNK_SIZE
  BY ChunkBases
<1>5. ChunkBase(j + 2) <= ChunkBase(Count(h) + 1)
  <2>1. j + 1 \in Nat /\ (j + 1) + 1 = j + 2
    OBVIOUS
  <2>. QED  BY <1>1, <1>3, <2>1, ChunkBases
<1>6. ChunkBase(Count(h) + 1) \in Nat
  BY <1>1, ChunkBases
<1>7. ASSUME NEW a \in Words(sz, p)
      PROVE  a \in DOMAIN Mem(h) /\ a < Cur(h) /\ a \in Nat
  <2>1. a \in Nat /\ p <= a /\ a < p + sz[p]
    BY <1>1 DEF Words
  <2>2. a < Cur(h)
    BY <1>1, <2>1 DEF Placed
  <2>3. ALIGNMENT <= a /\ a <= ChunkBase(Count(h) + 1) - 1
    BY <1>1, <1>2, <1>3, <1>4, <1>5, <1>6, <2>1, Constants DEF HEADER
  <2>. QED  BY <1>1, <1>6, <2>1, <2>2, <2>3, Constants DEF Chunked
<1>. QED  BY <1>7

\* One more object.
Add(f, x, v) == [y \in DOMAIN f \cup {x} |-> IF y = x THEN v ELSE f[y]]

LEMMA AddFacts ==
  ASSUME NEW f, NEW x, NEW v
  PROVE  /\ \A y : y \in DOMAIN Add(f, x, v) <=> y \in DOMAIN f \/ y = x
         /\ Add(f, x, v)[x] = v
         /\ \A y \in DOMAIN f : y # x => Add(f, x, v)[y] = f[y]
BY DEF Add

LEMMA AddOf ==
  ASSUME NEW f, NEW x, NEW v, NEW u
  PROVE  \A y : y \in Of(Add(f, x, v), u) <=> IF y = x THEN u = v ELSE y \in Of(f, u)
BY DEF Add, Of

LEMMA NewChunkOK ==
  ASSUME NEW h, NEW sz, NEW us, ArenaOK(h, sz, us)
  PROVE  /\ ArenaOK(NewChunk(h), sz, us)
         /\ \A size \in ObjectSizes : End(NewChunk(h)) - Cur(NewChunk(h)) >= size
         /\ Count(NewChunk(h)) # 0
         /\ DOMAIN Mem(h) \subseteq DOMAIN Mem(NewChunk(h))
         /\ \A a \in DOMAIN Mem(h) : Mem(NewChunk(h))[a] = Mem(h)[a]
         /\ Pgm(NewChunk(h)) = Pgm(h) /\ Flm(NewChunk(h)) = Flm(h)
         /\ Objs(NewChunk(h)) = Objs(h)
<1>. DEFINE new == NewChunk(h)
            base == ChunkBase(Count(h) + 1)
            words == base .. base + META_CHUNK_SIZE - 1
            m == [a \in DOMAIN Mem(h) \cup words |-> IF a \in DOMAIN Mem(h) THEN Mem(h)[a] ELSE 0]
            cur == AlignUp(base + HEADER)
<1>1. /\ h \in Heaps /\ Count(h) \in Nat /\ Cur(h) \in Nat /\ Mem(h) \in Memory
      /\ Chunked(h) /\ Count(h) + 1 \in Nat
  BY HeapType DEF ArenaOK
<1>2. /\ base \in Nat \ {0} /\ base >= ALIGNMENT /\ base % ALIGNMENT = 0
      /\ ChunkBase(Count(h) + 2) = base + META_CHUNK_SIZE
  BY <1>1, ChunkBases
<1>3. (Count(h) + 1) + 1 = Count(h) + 2
  BY <1>1
<1>4. /\ cur \in Nat /\ cur % ALIGNMENT = 0 /\ base + HEADER <= cur
      /\ \A size \in ObjectSizes : cur + size <= base + META_CHUNK_SIZE
  <2>1. HEADER \in Nat /\ base + HEADER \in Nat
    BY <1>2 DEF HEADER
  <2>2. /\ AlignUp(HEADER) \in Nat /\ AlignUp(HEADER) % ALIGNMENT = 0
        /\ HEADER <= AlignUp(HEADER)
    BY <2>1, RoundUp
  <2>3. (base + AlignUp(HEADER)) % ALIGNMENT = 0
    BY <1>2, <2>2, SumAligned
  <2>4. /\ cur \in Nat /\ cur % ALIGNMENT = 0 /\ base + HEADER <= cur
        /\ \A b \in Nat : b % ALIGNMENT = 0 /\ base + HEADER <= b => cur <= b
    BY <2>1, RoundUp
  <2>5. cur <= base + AlignUp(HEADER)
    <3>1. PICK b \in Nat : b = base + AlignUp(HEADER)
      BY <1>2, <2>2
    <3>2. b % ALIGNMENT = 0 /\ base + HEADER <= b
      BY <1>2, <2>1, <2>2, <2>3, <3>1
    <3>. QED  BY <2>4, <3>1, <3>2
  <2>6. ASSUME NEW size \in ObjectSizes PROVE cur + size <= base + META_CHUNK_SIZE
    <3>1. size \in Nat /\ AlignUp(HEADER) + size <= META_CHUNK_SIZE
      BY ObjectFits
    <3>. HIDE DEF base, cur
    <3>. QED  BY <1>2, <2>2, <2>4, <2>5, <3>1, Constants
  <2>. QED  BY <2>4, <2>6
<1>5. /\ DOMAIN Mem(h) \subseteq Nat /\ words \subseteq Nat
      /\ m \in [DOMAIN Mem(h) \cup words -> Nat]
  <2>1. Mem(h) \in [DOMAIN Mem(h) -> Nat] /\ DOMAIN Mem(h) \subseteq Nat
    BY <1>1, MemoryType
  <2>2. words \subseteq Nat
    <3>. HIDE DEF base
    <3>. QED  BY <1>2, Constants
  <2>. QED  BY <2>1, <2>2
<1>6. m \in Memory /\ DOMAIN m = DOMAIN Mem(h) \cup words
  <2>1. DOMAIN Mem(h) \cup words \in SUBSET Nat
    BY <1>5
  <2>2. m \in [DOMAIN Mem(h) \cup words -> Nat]
    BY <1>5
  <2>3. DOMAIN m = DOMAIN Mem(h) \cup words
    OBVIOUS
  <2>. HIDE DEF m, words
  <2>. QED  BY <2>1, <2>2, <2>3, IsMemory
<1>7. /\ new \in Heaps /\ Mem(new) = m /\ Cur(new) = cur /\ End(new) = base + META_CHUNK_SIZE
      /\ Count(new) = Count(h) + 1 /\ Pgm(new) = Pgm(h)
      /\ Flm(new) = Flm(h) /\ Objs(new) = Objs(h)
  <2>1. base + META_CHUNK_SIZE \in Nat
    BY <1>2, Constants
  <2>2. new = [h EXCEPT !.mem = m, !.count = @ + 1, !.cur = cur, !.end = base + META_CHUNK_SIZE]
    BY DEF NewChunk, Mem, Count
  <2>. HIDE DEF m, cur, base, new
  <2>. QED  BY <1>1, <1>4, <1>6, <2>1, <2>2 DEF Heaps, Mem, Cur, End, Count, Pgm, Flm, Objs
<1>. HIDE DEF new
<1>8. \A a \in DOMAIN Mem(h) : m[a] = Mem(h)[a]
  OBVIOUS
<1>9. \A a \in words : a \notin DOMAIN Mem(h) => m[a] = 0
  OBVIOUS
<1>10. /\ Cur(h) <= base /\ DOMAIN Mem(h) = ALIGNMENT .. base - 1
  <2>1. Count(h) = 0 => Cur(h) = 0
    BY <1>1 DEF Chunked
  <2>2. Count(h) # 0 => Cur(h) <= base
    BY <1>1 DEF Chunked
  <2>3. DOMAIN Mem(h) = ALIGNMENT .. base - 1
    BY <1>1 DEF Chunked
  <2>. QED  BY <1>2, <2>1, <2>2, <2>3
<1>. HIDE DEF m, cur
<1>11. Chunked(new)
  <2>1. DOMAIN Mem(h) \cup words = ALIGNMENT .. (base + META_CHUNK_SIZE) - 1
    <3>. HIDE DEF base
    <3>. QED  BY <1>2, <1>10, Constants
  <2>2. End(new) = ChunkBase(Count(new) + 1) /\ Count(new) # 0 /\ Count(new) \in Nat
    BY <1>1, <1>2, <1>3, <1>7
  <2>3. cur <= base + META_CHUNK_SIZE
    <3>1. 1 \in ObjectSizes
      BY Constants DEF ObjectSizes
    <3>2. cur + 1 <= base + META_CHUNK_SIZE
      BY <1>4, <3>1
    <3>. HIDE DEF base
    <3>. QED  BY <1>2, <1>4, <3>2, Constants
  <2>4. ChunkBase(Count(new)) = base
    BY <1>7
  <2>. QED  BY <1>4, <1>6, <1>7, <2>1, <2>2, <2>3, <2>4 DEF Chunked
<1>12. ASSUME NEW p \in DOMAIN sz PROVE Placed(new, p, sz[p])
  <2>1. Placed(h, p, sz[p]) /\ p \in Nat /\ sz[p] \in Nat
    BY DEF ArenaOK, Layout
  <2>2. p + sz[p] <= cur
    <3>. HIDE DEF base
    <3>. QED  BY <1>1, <1>2, <1>4, <1>10, <2>1 DEF Placed, HEADER
  <2>3. \A k \in 1 .. Count(h) : k \in 1 .. Count(h) + 1
    BY <1>1
  <2>. QED  BY <1>7, <2>1, <2>2, <2>3 DEF Placed
<1>13. ASSUME NEW a \in DOMAIN Mem(new), a >= Cur(new) PROVE Mem(new)[a] = 0
  <2>1. CASE a \in DOMAIN Mem(h)
    <3>1. a < base /\ a \in Nat
      BY <1>2, <1>10, <2>1, Constants
    <3>. HIDE DEF base
    <3>. QED  BY <1>2, <1>4, <1>7, <1>13, <3>1 DEF HEADER
  <2>2. CASE a \notin DOMAIN Mem(h)
    BY <1>6, <1>7, <1>9, <1>13, <2>2
  <2>. QED  BY <2>1, <2>2
<1>14. ArenaOK(new, sz, us)
  BY <1>7, <1>11, <1>12, <1>13 DEF ArenaOK
<1>15. \A size \in ObjectSizes : End(new) - Cur(new) >= size
  <2>1. ASSUME NEW size \in ObjectSizes PROVE End(new) - Cur(new) >= size
    <3>1. cur + size <= base + META_CHUNK_SIZE /\ size \in Nat
      BY <1>4, ObjectFits
    <3>. HIDE DEF base
    <3>. QED  BY <1>2, <1>4, <1>7, <3>1, Constants
  <2>. QED  BY <2>1
<1>16. Count(new) # 0
  BY <1>1, <1>7
<1>. QED  BY <1>6, <1>7, <1>8, <1>14, <1>15, <1>16 DEF new

\* An object is cut from a chunk that has room for it.
IsCut(h, size, g, p) == g = Cut(h, size).heap /\ p = Cut(h, size).ptr

LEMMA CutOK ==
  ASSUME NEW h, NEW sz, NEW us, ArenaOK(h, sz, us),
         NEW size \in Nat \ {0}, End(h) - Cur(h) >= size, NEW u,
         NEW g, NEW p, IsCut(h, size, g, p)
  PROVE  /\ ArenaOK(g, Add(sz, p, size), Add(us, p, u))
         /\ p \notin DOMAIN sz /\ p \in Nat \ {0}
         /\ Mem(g) = Mem(h) /\ Pgm(g) = Pgm(h) /\ Flm(g) = Flm(h)
         /\ \A a \in Slots(p, size) : a \in DOMAIN Mem(h) /\ Mem(h)[a] = 0
<1>. DEFINE ptr == Cur(h)
            new == Cut(h, size).heap
            cur == AlignUp(ptr + size)
            sz2 == Add(sz, ptr, size)
            us2 == Add(us, ptr, u)
<1>1. /\ h \in Heaps /\ Count(h) \in Nat /\ ptr \in Nat /\ End(h) \in Nat /\ Mem(h) \in Memory
      /\ Chunked(h) /\ Objs(h) \in SUBSET (Nat \X Nat) /\ Layout(sz, us)
  BY HeapType DEF ArenaOK
<1>2. Count(h) # 0 /\ ptr + size <= End(h)
  BY <1>1 DEF Chunked
<1>3. PICK k \in Nat : Count(h) = k + 1
  <2>1. Count(h) - 1 \in Nat /\ Count(h) = (Count(h) - 1) + 1
    BY <1>1, <1>2
  <2>. QED  BY <2>1
<1>4. /\ ChunkBase(k + 1) \in Nat \ {0} /\ ChunkBase(k + 1) >= ALIGNMENT
      /\ End(h) = ChunkBase(k + 1) + META_CHUNK_SIZE
      /\ ChunkBase(k + 1) + HEADER <= ptr /\ End(h) % ALIGNMENT = 0
      /\ DOMAIN Mem(h) = ALIGNMENT .. End(h) - 1
  <2>1. (k + 1) + 1 = k + 2 /\ k + 1 \in Nat
    OBVIOUS
  <2>2. End(h) = ChunkBase(k + 2) /\ ChunkBase(k + 1) + HEADER <= ptr
        /\ DOMAIN Mem(h) = ALIGNMENT .. End(h) - 1
    BY <1>1, <1>2, <1>3, <2>1 DEF Chunked
  <2>3. ChunkBase(k + 2) % ALIGNMENT = 0
    BY <2>1, ChunkBases
  <2>. QED  BY <2>2, <2>3, ChunkBases
<1>5. ptr % ALIGNMENT = 0 /\ ptr \in Nat \ {0}
  BY <1>1, <1>4, Constants DEF Chunked, HEADER
<1>6. /\ cur \in Nat /\ cur % ALIGNMENT = 0 /\ ptr + size <= cur /\ cur <= End(h)
  <2>1. PICK x \in Nat : x = ptr + size
    BY <1>1
  <2>2. /\ AlignUp(x) \in Nat /\ AlignUp(x) % ALIGNMENT = 0 /\ x <= AlignUp(x)
        /\ \A b \in Nat : b % ALIGNMENT = 0 /\ x <= b => AlignUp(x) <= b
    BY RoundUp
  <2>. QED  BY <1>1, <1>2, <1>4, <2>1, <2>2
<1>7. /\ new \in Heaps /\ Mem(new) = Mem(h) /\ Cur(new) = cur /\ End(new) = End(h)
      /\ Count(new) = Count(h) /\ Pgm(new) = Pgm(h)
      /\ Flm(new) = Flm(h)
      /\ Objs(new) = Objs(h) \cup {<<ptr, size>>}
  <2>1. Objs(h) \cup {<<ptr, size>>} \in SUBSET (Nat \X Nat)
    BY <1>1
  <2>2. new = [h EXCEPT !.cur = cur, !.carved = Objs(h) \cup {<<ptr, size>>}]
    BY DEF Cut, Cur, Objs
  <2>. HIDE DEF cur, new
  <2>. QED  BY <1>1, <1>6, <2>1, <2>2 DEF Heaps, Mem, Cur, End, Count, Pgm, Flm, Objs
<1>. HIDE DEF new, cur
<1>8. ASSUME NEW q \in DOMAIN sz
      PROVE  q + sz[q] <= ptr /\ q \in Nat \ {0} /\ sz[q] \in Nat \ {0}
  BY DEF ArenaOK, Layout, Placed
<1>9. ptr \notin DOMAIN sz
  BY <1>1, <1>8
<1>10. /\ DOMAIN sz2 = DOMAIN sz \cup {ptr} /\ DOMAIN us2 = DOMAIN us \cup {ptr}
       /\ sz2[ptr] = size /\ \A q \in DOMAIN sz : sz2[q] = sz[q]
  <2>1. DOMAIN sz2 = DOMAIN sz \cup {ptr} /\ sz2[ptr] = size
        /\ \A q \in DOMAIN sz : q # ptr => sz2[q] = sz[q]
    BY DEF Add
  <2>2. DOMAIN us2 = DOMAIN us \cup {ptr}
    BY DEF Add
  <2>. HIDE DEF sz2, us2, ptr
  <2>. QED  BY <1>9, <2>1, <2>2
<1>. HIDE DEF sz2, us2
<1>11. Layout(sz2, us2)
  BY <1>1, <1>5, <1>8, <1>10 DEF Layout
<1>12. IsFiniteSet(DOMAIN sz2)
  BY <1>10, FS_AddElement DEF ArenaOK
<1>13. Objs(new) = {<<q, sz2[q]>> : q \in DOMAIN sz2}
  <2>1. Objs(h) = {<<q, sz[q]>> : q \in DOMAIN sz}
    BY DEF ArenaOK
  <2>. QED  BY <1>7, <1>10, <2>1
<1>14. Chunked(new)
  <2>1. ChunkBase(Count(h)) + HEADER <= cur
    BY <1>1, <1>3, <1>4, <1>6 DEF HEADER
  <2>. QED  BY <1>1, <1>2, <1>6, <1>7, <2>1 DEF Chunked
<1>15. ASSUME NEW q \in DOMAIN sz2 PROVE Placed(new, q, sz2[q])
  <2>1. CASE q = ptr
    <3>1. Count(h) \in 1 .. Count(h)
      BY <1>1, <1>2
    <3>2. ptr >= ChunkBase(Count(h)) + HEADER /\ ptr + size <= ChunkBase(Count(h)) + META_CHUNK_SIZE
      BY <1>1, <1>2, <1>3, <1>4 DEF HEADER
    <3>. QED  BY <1>5, <1>6, <1>7, <1>10, <2>1, <3>1, <3>2 DEF Placed
  <2>2. CASE q # ptr
    <3>1. q \in DOMAIN sz /\ sz2[q] = sz[q] /\ Placed(h, q, sz[q])
      BY <1>10, <2>2 DEF ArenaOK
    <3>2. q + sz[q] <= cur
      BY <1>1, <1>6, <1>8, <3>1
    <3>. QED  BY <1>7, <3>1, <3>2 DEF Placed
  <2>. QED  BY <2>1, <2>2
<1>16. ASSUME NEW a \in DOMAIN Mem(new), a >= Cur(new) PROVE Mem(new)[a] = 0
  <2>1. a \in Nat /\ a >= cur
    BY <1>1, <1>4, <1>7, <1>16, Constants
  <2>2. a >= ptr
    <3>. HIDE DEF ptr
    <3>. QED  BY <1>1, <1>6, <2>1
  <2>. QED  BY <1>7, <1>16, <2>2 DEF ArenaOK
<1>17. ArenaOK(new, sz2, us2)
  BY <1>7, <1>11, <1>12, <1>13, <1>14, <1>15, <1>16 DEF ArenaOK
<1>18. /\ ptr .. ptr + size - 1 \subseteq DOMAIN Mem(h)
       /\ \A a \in ptr .. ptr + size - 1 : Mem(h)[a] = 0
  <2>1. ASSUME NEW a \in ptr .. ptr + size - 1
        PROVE  a \in Nat /\ a >= ptr /\ a \in DOMAIN Mem(h)
    <3>1. PICK q \in Nat, e \in Nat, b \in Nat :
            q = ptr /\ e = End(h) /\ b = ChunkBase(k + 1)
      BY <1>1, <1>4
    <3>2. b >= ALIGNMENT /\ b + HEADER <= q /\ q + size <= e
          /\ DOMAIN Mem(h) = ALIGNMENT .. e - 1 /\ a \in q .. q + size - 1
      BY <1>2, <1>4, <3>1
    <3>. HIDE DEF ptr
    <3>3. a \in Nat /\ a >= q /\ ALIGNMENT <= a /\ a <= e - 1
      BY <3>2, Constants DEF HEADER
    <3>. QED  BY <3>1, <3>2, <3>3, Constants
  <2>. QED  BY <2>1 DEF ArenaOK
<1>. QED
  <2>1. g = new /\ p = ptr
    BY DEF IsCut, new, Cut, Cur
  <2>2. \A a \in ptr .. ptr + size - 1 : a \in DOMAIN Mem(h) /\ Mem(h)[a] = 0
    <3>. HIDE DEF ptr
    <3>. QED  BY <1>18
  <2>3. Mem(new) = Mem(h) /\ Pgm(new) = Pgm(h) /\ Flm(new) = Flm(h)
    BY <1>7
  <2>. HIDE DEF ptr
  <2>. QED  BY <1>5, <1>9, <1>17, <2>1, <2>2, <2>3 DEF sz2, us2, Slots

\* A new object, of words that are zero.
Carved(h, size, g, p) == g = Carve(h, size).heap /\ p = Carve(h, size).ptr

LEMMA CarveOK ==
  ASSUME NEW h, NEW sz, NEW us, ArenaOK(h, sz, us), NEW size \in ObjectSizes, NEW u,
         NEW g, NEW p, Carved(h, size, g, p)
  PROVE  /\ ArenaOK(g, Add(sz, p, size), Add(us, p, u))
         /\ p \notin DOMAIN sz /\ p \in Nat \ {0}
         /\ DOMAIN Mem(h) \subseteq DOMAIN Mem(g)
         /\ \A a \in DOMAIN Mem(h) : Mem(g)[a] = Mem(h)[a]
         /\ Pgm(g) = Pgm(h) /\ Flm(g) = Flm(h)
         /\ \A a \in Slots(p, size) : Mem(g)[a] = 0
<1>. DEFINE c == IF End(h) - Cur(h) < size THEN NewChunk(h) ELSE h
<1>1. size \in Nat \ {0} /\ End(h) \in Nat /\ Cur(h) \in Nat
  BY ObjectFits, HeapType DEF ArenaOK
<1>2. /\ ArenaOK(c, sz, us) /\ End(c) - Cur(c) >= size
      /\ DOMAIN Mem(h) \subseteq DOMAIN Mem(c) /\ \A a \in DOMAIN Mem(h) : Mem(c)[a] = Mem(h)[a]
      /\ Pgm(c) = Pgm(h) /\ Flm(c) = Flm(h)
  <2>1. CASE End(h) - Cur(h) < size
    <3>1. c = NewChunk(h)
      BY <2>1
    <3>. QED  BY <3>1, NewChunkOK
  <2>2. CASE ~(End(h) - Cur(h) < size)
    <3>1. c = h /\ End(h) - Cur(h) >= size
      BY <1>1, <2>2
    <3>. QED  BY <3>1
  <2>. QED  BY <2>1, <2>2
<1>3. IsCut(c, size, g, p)
  BY DEF Carved, Carve, IsCut, End, Cur
<1>. HIDE DEF c
<1>4. /\ ArenaOK(g, Add(sz, p, size), Add(us, p, u))
      /\ p \notin DOMAIN sz /\ p \in Nat \ {0}
      /\ Mem(g) = Mem(c) /\ Pgm(g) = Pgm(c) /\ Flm(g) = Flm(c)
      /\ \A a \in Slots(p, size) : a \in DOMAIN Mem(c) /\ Mem(c)[a] = 0
  BY ZenonT(60), <1>1, <1>2, <1>3, CutOK
<1>. QED  BY <1>2, <1>4

-----------------------------------------------------------------------------
(* Writes                                                                  *)

\* Only words of X differ.
Wrote(h, h2, X) ==
  /\ h2 \in Heaps /\ Cur(h2) = Cur(h) /\ End(h2) = End(h) /\ Count(h2) = Count(h)
  /\ Pgm(h2) = Pgm(h) /\ Flm(h2) = Flm(h)
  /\ Objs(h2) = Objs(h) /\ DOMAIN Mem(h2) = DOMAIN Mem(h)
  /\ \A a \in DOMAIN Mem(h) : a \notin X => Mem(h2)[a] = Mem(h)[a]

LEMMA WriteMemory ==
  ASSUME NEW h \in Heaps, NEW m, m \in [DOMAIN Mem(h) -> Nat], NEW X,
         \A a \in DOMAIN Mem(h) : a \notin X => m[a] = Mem(h)[a]
  PROVE  Wrote(h, PutMem(h, m), X) /\ Mem(PutMem(h, m)) = m
<1>1. DOMAIN Mem(h) \in SUBSET Nat
  BY HeapType, MemoryType
<1>2. m \in Memory
  BY <1>1, IsMemory
<1>3. DOMAIN m = DOMAIN Mem(h)
  OBVIOUS
<1>. QED  BY <1>2, <1>3, NewWords DEF Wrote

LEMMA WordType ==
  ASSUME NEW h \in Heaps, NEW a \in DOMAIN Mem(h)
  PROVE  Mem(h)[a] \in Nat /\ a \in Nat /\ Mem(h) \in [DOMAIN Mem(h) -> Nat]
BY HeapType, MemoryType

Write1(h, a, v) == [h EXCEPT !.mem[a] = v]

LEMMA WriteWord ==
  ASSUME NEW h \in Heaps, NEW a \in DOMAIN Mem(h), NEW v \in Nat, NEW X, a \in X
  PROVE  Wrote(h, Write1(h, a, v), X) /\ Mem(Write1(h, a, v))[a] = v
<1>1. PICK m : m = [Mem(h) EXCEPT ![a] = v]
  OBVIOUS
<1>2. /\ m \in [DOMAIN Mem(h) -> Nat] /\ m[a] = v
      /\ \A b \in DOMAIN Mem(h) : b \notin X => m[b] = Mem(h)[b]
  BY <1>1, WordType
<1>3. Write1(h, a, v) = PutMem(h, m)
  BY <1>1 DEF Write1, PutMem, Mem
<1>. QED  BY <1>2, <1>3, WriteMemory

LEMMA SetLeafFacts ==
  ASSUME NEW h \in Heaps, NEW root, NEW key, NEW value \in Nat,
         NEW l, l = LeavesOf(Mem(h), root, key), l + L3Index(key) \in DOMAIN Mem(h),
         l + L3_SIZE \in DOMAIN Mem(h), l + L3Index(key) # l + L3_SIZE,
         NEW X, l + L3Index(key) \in X, l + L3_SIZE \in X
  PROVE  /\ Wrote(h, SetLeaf(h, root, key, value), X)
         /\ Mem(SetLeaf(h, root, key, value))[l + L3Index(key)] = value
         /\ Mem(SetLeaf(h, root, key, value))[l + L3_SIZE] =
              IF Mem(h)[l + L3Index(key)] = 0
                THEN Mem(h)[l + L3_SIZE] + 1 ELSE Mem(h)[l + L3_SIZE]
<1>1. PICK a, b : a = l + L3_SIZE /\ b = l + L3Index(key)
  OBVIOUS
<1>2. PICK v \in Nat : v = IF Mem(h)[b] = 0 THEN Mem(h)[a] + 1 ELSE Mem(h)[a]
  BY <1>1, WordType
<1>3. PICK m : m = [Mem(h) EXCEPT ![a] = v, ![b] = value]
  OBVIOUS
<1>4. /\ m \in [DOMAIN Mem(h) -> Nat] /\ m[a] = v /\ m[b] = value
      /\ \A c \in DOMAIN Mem(h) : c \notin X => m[c] = Mem(h)[c]
  BY <1>1, <1>2, <1>3, WordType
<1>5. SetLeaf(h, root, key, value) = PutMem(h, m)
  BY <1>1, <1>2, <1>3 DEF SetLeaf, PutMem, Mem, NULL
<1>6. Wrote(h, PutMem(h, m), X) /\ Mem(PutMem(h, m)) = m
  BY <1>4, WriteMemory
<1>7. m[a] = IF Mem(h)[b] = 0 THEN Mem(h)[a] + 1 ELSE Mem(h)[a]
  BY <1>2, <1>4
<1>. QED  BY <1>1, <1>4, <1>5, <1>6, <1>7

\* Words of objects may be written, and objects used for something else.
LEMMA SameArena ==
  ASSUME NEW h, NEW sz, NEW us, ArenaOK(h, sz, us), NEW h2, NEW X, Wrote(h, h2, X),
         \A a \in X : a < Cur(h), NEW sz2, NEW us2,
         DOMAIN sz2 = DOMAIN sz, DOMAIN us2 = DOMAIN sz, \A p \in DOMAIN sz : sz2[p] = sz[p]
  PROVE  ArenaOK(h2, sz2, us2)
<1>1. Layout(sz2, us2) /\ IsFiniteSet(DOMAIN sz2)
  BY DEF ArenaOK, Layout
<1>2. Objs(h2) = {<<p, sz2[p]>> : p \in DOMAIN sz2}
  BY DEF ArenaOK, Wrote
<1>3. Chunked(h2)
  BY DEF ArenaOK, Wrote, Chunked
<1>4. \A p \in DOMAIN sz2 : Placed(h2, p, sz2[p])
  BY DEF ArenaOK, Wrote, Placed
<1>5. ASSUME NEW a \in DOMAIN Mem(h2), a >= Cur(h2) PROVE Mem(h2)[a] = 0
  <2>1. a \in DOMAIN Mem(h) /\ a >= Cur(h) /\ Cur(h) \in Nat /\ Mem(h) \in Memory
    BY <1>5, HeapType DEF Wrote, ArenaOK
  <2>2. a \in Nat
    BY <2>1, MemoryType
  <2>3. a \notin X
    BY <2>1, <2>2
  <2>. QED  BY <2>1, <2>3 DEF Wrote, ArenaOK
<1>. QED  BY <1>1, <1>2, <1>3, <1>4, <1>5 DEF ArenaOK, Wrote

-----------------------------------------------------------------------------
(* The free lists                                                          *)

UserUses  == {"page_root", "page_node", "page_leaf", "span", "chunk"}
ArenaUses == {"free_root", "free_node", "free_leaf", "listed"}
FreeSizes == {SpanSize, LeafNodeSize, NodeSize}

ListedOf(sz, us, s) == {p \in Of(us, "listed") : sz[p] = s}

\* The trie of the free lists, and what is on them.
FreeInv(m, f, sz, us) ==
  /\ \A p \in DOMAIN us : us[p] \in UserUses \cup ArenaUses
  /\ f = 0 => \A p \in DOMAIN us : us[p] \in UserUses
  /\ f # 0 => /\ Trie(m, sz, us, f, FreeUse)
              /\ \A p \in Of(us, "listed") : sz[p] \in FreeSizes
              /\ \A s \in Keys : Chain(m, Get(m, f, s), ListedOf(sz, us, s))

AInv(h, sz, us) == ArenaOK(h, sz, us) /\ FreeInv(Mem(h), Flm(h), sz, us)

LEMMA UseSets ==
  /\ \A u \in UserUses : u \notin ArenaUses
  /\ Uses(FreeUse) \subseteq ArenaUses /\ "listed" \in ArenaUses
  /\ "listed" \notin Uses(FreeUse) /\ Uses(PageUse) \subseteq UserUses
  /\ FreeUse.root = "free_root" /\ FreeUse.node = "free_node" /\ FreeUse.leaf = "free_leaf"
  /\ PageUse.root = "page_root" /\ PageUse.node = "page_node" /\ PageUse.leaf = "page_leaf"
BY DEF UserUses, ArenaUses, Uses, FreeUse, PageUse

\* The arena's own objects and their words are the same.
SameOwn(m, sz, us, m2, sz2, us2) ==
  \A u \in ArenaUses :
    /\ Of(us2, u) = Of(us, u)
    /\ \A p \in Of(us, u) : sz2[p] = sz[p] /\ \A a \in Words(sz, p) : m2[a] = m[a]

LEMMA FreeSame ==
  ASSUME NEW m, NEW sz, NEW us, NEW f, Layout(sz, us), FreeInv(m, f, sz, us),
         NEW m2, NEW sz2, NEW us2, SameOwn(m, sz, us, m2, sz2, us2),
         \A p \in DOMAIN us2 : us2[p] \in UserUses \cup ArenaUses
  PROVE  /\ FreeInv(m2, f, sz2, us2)
         /\ f # 0 => \A key \in Nat : /\ LeavesOf(m2, f, key) = LeavesOf(m, f, key)
                                      /\ Get(m2, f, key) = Get(m, f, key)
<1>1. CASE f = 0
  <2>1. ASSUME NEW p \in DOMAIN us2 PROVE us2[p] \in UserUses
    <3>1. CASE us2[p] \in ArenaUses
      <4>1. p \in Of(us, us2[p])
        BY <3>1 DEF SameOwn, Of
      <4>2. p \in DOMAIN us /\ us[p] \in ArenaUses
        BY <3>1, <4>1 DEF Of
      <4>. QED  BY <1>1, <4>2, UseSets DEF FreeInv
    <3>. QED  BY <3>1
  <2>. QED  BY <1>1, <2>1 DEF FreeInv
<1>2. CASE f # 0
  <2>1. SameTrie(m, sz, us, m2, sz2, us2, FreeUse, {})
    BY UseSets DEF SameOwn, SameTrie
  <2>2. Trie(m, sz, us, f, FreeUse)
    BY <1>2 DEF FreeInv
  <2>3. /\ Trie(m2, sz2, us2, f, FreeUse)
        /\ \A key \in Nat : /\ LeavesOf(m2, f, key) = LeavesOf(m, f, key)
                            /\ Get(m2, f, key) = Get(m, f, key)
    BY <2>1, <2>2, TrieSame
  <2>4. /\ Of(us2, "listed") = Of(us, "listed")
        /\ \A p \in Of(us, "listed") : sz2[p] = sz[p] /\ \A a \in Words(sz, p) : m2[a] = m[a]
    BY UseSets DEF SameOwn
  <2>5. ASSUME NEW s \in Keys PROVE Chain(m2, Get(m2, f, s), ListedOf(sz2, us2, s))
    <3>1. ListedOf(sz2, us2, s) = ListedOf(sz, us, s)
      BY <2>4 DEF ListedOf
    <3>2. \A p \in ListedOf(sz, us, s) : m2[p] = m[p]
      <4>1. ASSUME NEW p \in ListedOf(sz, us, s) PROVE m2[p] = m[p]
        <5>1. p \in Of(us, "listed") /\ p \in DOMAIN sz
          BY DEF ListedOf, Of, Layout
        <5>2. p \in Words(sz, p)
          BY <5>1 DEF Words, Layout
        <5>. QED  BY <2>4, <5>1, <5>2
      <4>. QED  BY <4>1
    <3>3. Chain(m, Get(m, f, s), ListedOf(sz, us, s))
      BY <1>2 DEF FreeInv
    <3>4. Get(m2, f, s) = Get(m, f, s)
      BY <2>3, KeyRange
    <3>. QED  BY <3>1, <3>2, <3>3, <3>4, ChainSame
  <2>6. \A p \in Of(us2, "listed") : sz2[p] \in FreeSizes
    BY <1>2, <2>4 DEF FreeInv
  <2>. QED  BY <1>2, <2>3, <2>5, <2>6 DEF FreeInv
<1>. QED  BY <1>1, <1>2

-----------------------------------------------------------------------------
(* cmalloc_alloc_metadata                                                  *)

\* The result of the call.
IsAlloc(h, size, g, p) == g = AllocMetadata(h, size).heap /\ p = AllocMetadata(h, size).ptr

\* In the heap g, ptr is an object of the size, for a user; it was in no use
\* before.  The words of the objects in use, but for the leaves of the free
\* lists, and the other lists are as they were.
Allocated(h, sz, us, g, ptr, size, u) ==
  /\ AInv(g, Add(sz, ptr, size), Add(us, ptr, u))
  /\ ptr \in Nat \ {0} /\ (ptr \in DOMAIN us => us[ptr] = "listed")
  /\ Pgm(g) = Pgm(h) /\ Flm(g) = Flm(h)
  /\ \A p \in DOMAIN us : us[p] # "free_leaf" =>
       \A a \in Words(sz, p) : Mem(g)[a] = Mem(h)[a]
  /\ Flm(h) # 0 =>
       /\ \A key \in Nat : LeavesOf(Mem(g), Flm(h), key) = LeavesOf(Mem(h), Flm(h), key)
       /\ \A key \in Keys : key # size \/ Get(Mem(h), Flm(h), key) = 0 =>
            Get(Mem(g), Flm(h), key) = Get(Mem(h), Flm(h), key)
  /\ Flm(h) = 0 => \A a \in Slots(ptr, size) : Mem(g)[a] = 0

\* Where the words of a leaf node lie.
LEMMA LeafWords ==
  ASSUME NEW h, NEW sz, NEW us, ArenaOK(h, sz, us), NEW r, NEW k,
         Trie(Mem(h), sz, us, r, k), NEW key \in Nat,
         NEW l, l = LeavesOf(Mem(h), r, key), l # 0
  PROVE  /\ l \in Of(us, k.leaf) /\ l \in DOMAIN sz
         /\ l + L3Index(key) \in Words(sz, l) /\ l + L3_SIZE \in Words(sz, l)
         /\ l + L3Index(key) # l + L3_SIZE
         /\ l + L3Index(key) \in DOMAIN Mem(h) /\ l + L3_SIZE \in DOMAIN Mem(h)
         /\ l + L3Index(key) < Cur(h) /\ l + L3_SIZE < Cur(h)
<1>0. Layout(sz, us)
  BY DEF ArenaOK
<1>1. l \in Of(us, k.leaf) /\ l + L3Index(key) \in Slots(l, L3_SIZE)
  BY <1>0, TriePath
<1>2. /\ l \in DOMAIN sz /\ l + L3Index(key) \in Words(sz, l) /\ l + L3_SIZE \in Words(sz, l)
      /\ l + L3Index(key) # l + L3_SIZE
  BY <1>0, <1>1, TrieWords
<1>. QED  BY <1>1, <1>2, PlacedMapped

LEMMA CarveAllocated ==
  ASSUME NEW h, NEW sz, NEW us, AInv(h, sz, us), NEW size \in ObjectSizes, NEW u \in UserUses,
         Flm(h) # 0 => size \in Keys /\ Get(Mem(h), Flm(h), size) = 0,
         NEW g, NEW p, IsAlloc(h, size, g, p)
  PROVE  Allocated(h, sz, us, g, p, size, u)
<1>1. Carved(h, size, g, p)
  BY DEF IsAlloc, Carved, AllocMetadata, Mem, Flm, NULL
<1>2. /\ ArenaOK(h, sz, us) /\ Layout(sz, us) /\ FreeInv(Mem(h), Flm(h), sz, us)
  BY DEF AInv, ArenaOK
<1>3. /\ ArenaOK(g, Add(sz, p, size), Add(us, p, u))
      /\ p \notin DOMAIN sz /\ p \in Nat \ {0}
      /\ \A a \in DOMAIN Mem(h) : Mem(g)[a] = Mem(h)[a]
      /\ Pgm(g) = Pgm(h) /\ Flm(g) = Flm(h)
      /\ \A a \in Slots(p, size) : Mem(g)[a] = 0
  <2>1. ArenaOK(g, Add(sz, p, size), Add(us, p, u))
    BY <1>1, <1>2, CarveOK
  <2>2. p \notin DOMAIN sz /\ p \in Nat \ {0}
    BY <1>1, <1>2, CarveOK
  <2>3. Pgm(g) = Pgm(h) /\ Flm(g) = Flm(h) /\ \A a \in DOMAIN Mem(h) : Mem(g)[a] = Mem(h)[a]
    BY <1>1, <1>2, CarveOK
  <2>4. \A a \in Slots(p, size) : Mem(g)[a] = 0
    BY <1>1, <1>2, <2>1, CarveOK
  <2>. QED  BY <2>1, <2>2, <2>3, <2>4
<1>4. PICK m2 : m2 = Mem(g)
  OBVIOUS
<1>5. /\ p \notin DOMAIN us /\ \A q \in DOMAIN sz : \A a \in Words(sz, q) : m2[a] = Mem(h)[a]
  BY <1>2, <1>3, <1>4, PlacedMapped DEF Layout
<1>6. SameOwn(Mem(h), sz, us, m2, Add(sz, p, size), Add(us, p, u))
  <2>1. ASSUME NEW v \in ArenaUses PROVE Of(Add(us, p, u), v) = Of(us, v)
    <3>1. v # u /\ p \notin Of(us, v)
      BY <1>5, UseSets DEF Of
    <3>2. \A q : q \in Of(Add(us, p, u), v) <=> q \in Of(us, v)
      BY <3>1, AddOf
    <3>. QED  BY <3>2
  <2>2. ASSUME NEW v \in ArenaUses, NEW q \in Of(us, v)
        PROVE  Add(sz, p, size)[q] = sz[q] /\ \A a \in Words(sz, q) : m2[a] = Mem(h)[a]
    <3>1. q \in DOMAIN sz /\ q # p
      BY <1>2, <1>3, <1>4 DEF Of, Layout
    <3>. QED  BY <1>5, <3>1, AddFacts
  <2>. QED  BY <2>1, <2>2 DEF SameOwn
<1>7. \A q \in DOMAIN Add(us, p, u) : Add(us, p, u)[q] \in UserUses \cup ArenaUses
  BY <1>2, AddFacts DEF FreeInv
<1>8. /\ FreeInv(m2, Flm(h), Add(sz, p, size), Add(us, p, u))
      /\ Flm(h) # 0 =>
           \A key \in Nat : /\ LeavesOf(m2, Flm(h), key) = LeavesOf(Mem(h), Flm(h), key)
                            /\ Get(m2, Flm(h), key) = Get(Mem(h), Flm(h), key)
  BY <1>2, <1>6, <1>7, FreeSame
<1>. QED
  <2>1. AInv(g, Add(sz, p, size), Add(us, p, u))
    BY <1>3, <1>4, <1>8 DEF AInv
  <2>2. DOMAIN us = DOMAIN sz
    BY <1>2 DEF Layout
  <2>. QED  BY <1>3, <1>4, <1>5, <1>8, <2>1, <2>2, KeyRange DEF Allocated

LEMMA PopAllocated ==
  ASSUME NEW h, NEW sz, NEW us, AInv(h, sz, us), NEW size \in Keys, NEW u \in UserUses,
         Flm(h) # 0, Get(Mem(h), Flm(h), size) # 0,
         NEW g, NEW p, IsAlloc(h, size, g, p)
  PROVE  Allocated(h, sz, us, g, p, size, u)
<1>1. PICK f, m, l : /\ f = Flm(h) /\ m = Mem(h) /\ p = Get(m, f, size)
                     /\ l = LeavesOf(m, f, size)
  BY DEF IsAlloc, AllocMetadata, Mem, Flm, NULL
<1>2. PICK next : next = m[p] /\ g = SetLeaf(h, f, size, next)
  BY <1>1 DEF IsAlloc, AllocMetadata, Mem, Flm, NULL
<1>4. /\ ArenaOK(h, sz, us) /\ Layout(sz, us) /\ FreeInv(m, f, sz, us) /\ h \in Heaps
      /\ Trie(m, sz, us, f, FreeUse) /\ size \in Nat /\ p # 0 /\ l # 0
      /\ \A s \in Keys : Chain(m, Get(m, f, s), ListedOf(sz, us, s))
  <2>1. Get(m, f, size) # 0
    BY <1>1
  <2>2. LeavesOf(m, f, size) # 0
    BY <2>1 DEF Get, NULL
  <2>. QED  BY <1>1, <2>2, KeyRange DEF AInv, ArenaOK, FreeInv
<1>5. p \in ListedOf(sz, us, size) /\ Chain(m, next, ListedOf(sz, us, size) \ {p})
  <2>1. Chain(m, p, ListedOf(sz, us, size))
    BY <1>1, <1>4
  <2>2. p \in ListedOf(sz, us, size) /\ Chain(m, m[p], ListedOf(sz, us, size) \ {p})
    BY <1>4, <2>1, ChainPop
  <2>. QED  BY <1>2, <2>2
<1>6. /\ p \in DOMAIN us /\ p \in DOMAIN sz /\ us[p] = "listed" /\ sz[p] = size /\ p \in Nat \ {0}
  BY <1>4, <1>5 DEF ListedOf, Of, Layout
<1>7. next \in Nat
  <2>1. p \in Words(sz, p)
    BY <1>4, <1>6 DEF Layout, Words
  <2>2. p \in DOMAIN m
    BY <1>1, <1>4, <1>6, <2>1, PlacedMapped
  <2>. QED  BY <1>1, <1>2, <1>4, <2>2, WordType
<1>. DEFINE X == {l + L3Index(size), l + L3_SIZE}
<1>8. /\ l \in Of(us, FreeUse.leaf) /\ l \in DOMAIN sz /\ X \subseteq Words(sz, l)
      /\ \A a \in X : a < Cur(h)
      /\ l + L3Index(size) # l + L3_SIZE
      /\ l + L3Index(size) \in DOMAIN Mem(h) /\ l + L3_SIZE \in DOMAIN Mem(h)
  <2>1. /\ l \in Of(us, FreeUse.leaf) /\ l \in DOMAIN sz
        /\ l + L3Index(size) \in Words(sz, l) /\ l + L3_SIZE \in Words(sz, l)
        /\ l + L3Index(size) # l + L3_SIZE
        /\ l + L3Index(size) \in DOMAIN Mem(h) /\ l + L3_SIZE \in DOMAIN Mem(h)
        /\ l + L3Index(size) < Cur(h) /\ l + L3_SIZE < Cur(h)
    <3>1. Trie(Mem(h), sz, us, f, FreeUse) /\ l = LeavesOf(Mem(h), f, size)
      BY <1>1, <1>4
    <3>. HIDE DEF X
    <3>. QED  BY <1>4, <3>1, LeafWords
  <2>. QED  BY <2>1
<1>9. Wrote(h, g, X) /\ Mem(g)[l + L3Index(size)] = next
  <2>1. l = LeavesOf(Mem(h), f, size) /\ l + L3Index(size) \in X /\ l + L3_SIZE \in X
    BY <1>1
  <2>2. g = SetLeaf(h, f, size, next)
    BY <1>2
  <2>. HIDE DEF X
  <2>. QED  BY <1>4, <1>7, <1>8, <2>1, <2>2, SetLeafFacts
<1>. HIDE DEF X
<1>10. \A q \in DOMAIN sz : q # l => \A a \in Words(sz, q) : a \notin X /\ Mem(g)[a] = m[a]
  <2>1. ASSUME NEW q \in DOMAIN sz, q # l, NEW a \in Words(sz, q)
        PROVE  a \notin X /\ Mem(g)[a] = m[a]
    <3>1. a \notin X
      BY <1>4, <1>8, <2>1, OneOwner
    <3>2. a \in DOMAIN Mem(h)
      BY <1>4, PlacedMapped
    <3>. QED  BY <1>1, <1>9, <3>1, <3>2 DEF Wrote
  <2>. QED  BY <2>1
<1>11. \A q \in DOMAIN sz : \A a \in Words(sz, q) : a \notin X => Mem(g)[a] = m[a]
  BY <1>1, <1>4, <1>9, PlacedMapped DEF Wrote
<1>12. PICK sz2, us2 : sz2 = Add(sz, p, size) /\ us2 = Add(us, p, u)
  OBVIOUS
<1>13. /\ DOMAIN sz2 = DOMAIN sz /\ DOMAIN us2 = DOMAIN sz /\ \A q \in DOMAIN sz : sz2[q] = sz[q]
       /\ us2[p] = u /\ \A q \in DOMAIN us : q # p => us2[q] = us[q]
  <2>1. DOMAIN sz2 = DOMAIN sz \cup {p} /\ sz2[p] = size
        /\ \A q \in DOMAIN sz : q # p => sz2[q] = sz[q]
    BY <1>12, AddFacts
  <2>2. DOMAIN us2 = DOMAIN us \cup {p} /\ us2[p] = u
        /\ \A q \in DOMAIN us : q # p => us2[q] = us[q]
    BY <1>12, AddFacts
  <2>. QED  BY <1>4, <1>6, <2>1, <2>2 DEF Layout
<1>14. ArenaOK(g, sz2, us2)
  BY <1>4, <1>8, <1>9, <1>13, SameArena
<1>15. \A v \in Uses(FreeUse) : Of(us2, v) = Of(us, v)
  <2>1. ASSUME NEW v \in Uses(FreeUse) PROVE Of(us2, v) = Of(us, v)
    <3>1. v # u /\ p \notin Of(us, v)
      BY <1>6, UseSets DEF Of
    <3>2. \A q : q \in Of(us2, v) <=> q \in Of(us, v)
      BY <1>12, <3>1, AddOf
    <3>. QED  BY <3>2
  <2>. QED  BY <2>1
<1>16. SameTrie(m, sz, us, Mem(g), sz2, us2, FreeUse, X)
  <2>1. \A v \in Uses(FreeUse) : \A q \in Of(us, v) : q \in DOMAIN sz
    BY <1>4 DEF Of, Layout
  <2>. QED  BY <1>11, <1>13, <1>15, <2>1 DEF SameTrie
<1>17. /\ Trie(Mem(g), sz2, us2, f, FreeUse)
       /\ \A key \in Nat : LeavesOf(Mem(g), f, key) = LeavesOf(m, f, key)
       /\ \A key \in Keys : Get(Mem(g), f, key) = IF key = size THEN next ELSE Get(m, f, key)
  <2>. USE DEF X
  <2>1. SameTrie(m, sz, us, Mem(g), sz2, us2, FreeUse, {l + L3Index(size), l + L3_SIZE})
    BY <1>16
  <2>2. /\ Trie(Mem(g), sz2, us2, f, FreeUse)
        /\ \A key \in Nat : LeavesOf(Mem(g), f, key) = LeavesOf(m, f, key)
        /\ \A key \in Keys :
             Get(Mem(g), f, key) = IF key = size THEN Mem(g)[l + L3Index(size)] ELSE Get(m, f, key)
    <3>1. l = LeavesOf(m, f, size)
      BY <1>1
    <3>. HIDE DEF X
    <3>. QED  BY <1>4, <2>1, <3>1, WriteLeaf
  <2>. QED  BY <1>9, <2>2
<1>18. Of(us2, "listed") = Of(us, "listed") \ {p}
  <2>0. u # "listed"
    BY UseSets
  <2>1. \A q : q \in Of(us2, "listed") <=> q \in Of(us, "listed") /\ q # p
    BY <1>12, <2>0, AddOf
  <2>. QED  BY <2>1
<1>19. ASSUME NEW s \in Keys PROVE Chain(Mem(g), Get(Mem(g), f, s), ListedOf(sz2, us2, s))
  <2>1. \A q \in ListedOf(sz2, us2, s) : Mem(g)[q] = m[q]
    <3>1. ASSUME NEW q \in ListedOf(sz2, us2, s) PROVE Mem(g)[q] = m[q]
      <4>1. q \in DOMAIN us /\ us[q] = "listed" /\ q \in DOMAIN sz
        BY <1>4, <1>18 DEF ListedOf, Of, Layout
      <4>2. q # l
        BY <1>8, <4>1, UseSets DEF Of
      <4>3. q \in Words(sz, q)
        BY <1>4, <4>1 DEF Layout, Words
      <4>. QED  BY <1>10, <4>1, <4>2, <4>3
    <3>. QED  BY <3>1
  <2>0. \A q \in Of(us, "listed") : q \in DOMAIN sz
    BY <1>4 DEF Of, Layout
  <2>2. CASE s = size
    <3>1. ListedOf(sz2, us2, s) = ListedOf(sz, us, size) \ {p}
      BY <1>13, <1>18, <2>0, <2>2 DEF ListedOf
    <3>2. Get(Mem(g), f, s) = next
      BY <1>17, <2>2
    <3>3. Chain(m, next, ListedOf(sz2, us2, s))
      BY <1>5, <3>1
    <3>. QED  BY <2>1, <3>2, <3>3, ChainSame
  <2>3. CASE s # size
    <3>1. ListedOf(sz2, us2, s) = ListedOf(sz, us, s)
      BY <1>6, <1>13, <1>18, <2>0, <2>3 DEF ListedOf
    <3>2. Get(Mem(g), f, s) = Get(m, f, s)
      BY <1>17, <2>3
    <3>3. Chain(m, Get(m, f, s), ListedOf(sz2, us2, s))
      BY <1>4, <3>1
    <3>. QED  BY <2>1, <3>2, <3>3, ChainSame
  <2>. QED  BY <2>2, <2>3
<1>20. FreeInv(Mem(g), f, sz2, us2)
  <2>1. \A q \in DOMAIN us2 : us2[q] \in UserUses \cup ArenaUses
    BY <1>4, <1>13 DEF FreeInv, Layout
  <2>2. \A q \in Of(us2, "listed") : sz2[q] \in FreeSizes
    <3>1. ASSUME NEW q \in Of(us2, "listed") PROVE sz2[q] \in FreeSizes
      <4>1. q \in Of(us, "listed") /\ q \in DOMAIN sz
        BY <1>4, <1>18 DEF Of, Layout
      <4>2. sz[q] \in FreeSizes
        BY <1>1, <1>4, <4>1 DEF FreeInv
      <4>. QED  BY <1>13, <4>1, <4>2
    <3>. QED  BY <3>1
  <2>. QED  BY <1>1, <1>17, <1>19, <2>1, <2>2 DEF FreeInv
<1>21. AInv(g, sz2, us2) /\ Pgm(g) = Pgm(h) /\ Flm(g) = Flm(h)
  BY <1>1, <1>9, <1>14, <1>20 DEF AInv, Wrote
<1>22. \A q \in DOMAIN us : us[q] # "free_leaf" =>
         \A a \in Words(sz, q) : Mem(g)[a] = Mem(h)[a]
  <2>1. ASSUME NEW q \in DOMAIN us, us[q] # "free_leaf" PROVE q # l /\ q \in DOMAIN sz
    BY <1>4, <1>8, <2>1, UseSets DEF Of, Layout, Uses
  <2>. QED  BY <1>1, <1>10, <2>1
<1>. QED  BY <1>1, <1>4, <1>6, <1>12, <1>17, <1>21, <1>22 DEF Allocated

LEMMA AllocOK ==
  ASSUME NEW h, NEW sz, NEW us, AInv(h, sz, us), NEW size \in ObjectSizes, NEW u \in UserUses,
         Flm(h) # 0 => size \in Keys,
         NEW g, NEW p, IsAlloc(h, size, g, p)
  PROVE  Allocated(h, sz, us, g, p, size, u)
<1>1. CASE Flm(h) # 0 /\ Get(Mem(h), Flm(h), size) # 0
  BY <1>1, PopAllocated
<1>2. CASE ~(Flm(h) # 0 /\ Get(Mem(h), Flm(h), size) # 0)
  BY <1>2, CarveAllocated
<1>. QED  BY <1>1, <1>2

-----------------------------------------------------------------------------
(* Nodes of the free lists' trie                                           *)

\* The users' objects, but those of X, are as they were.
Kept(h, sz, us, g, sz2, us2, X) ==
  /\ \A u \in UserUses : \A p : p \notin X => (p \in Of(us2, u) <=> p \in Of(us, u))
  /\ \A p \in DOMAIN us : us[p] \in UserUses /\ p \notin X =>
       sz2[p] = sz[p] /\ \A a \in Words(sz, p) : Mem(g)[a] = Mem(h)[a]

LEMMA KeptSelf ==
  ASSUME NEW h, NEW sz, NEW us, NEW X
  PROVE  Kept(h, sz, us, h, sz, us, X)
BY DEF Kept

LEMMA KeptTwice ==
  ASSUME NEW h, NEW sz, NEW us, NEW g, NEW sz1, NEW us1, NEW k, NEW sz2, NEW us2, NEW X,
         Kept(h, sz, us, g, sz1, us1, X), Kept(g, sz1, us1, k, sz2, us2, X)
  PROVE  Kept(h, sz, us, k, sz2, us2, X)
<1>1. \A u \in UserUses : \A p : p \notin X => (p \in Of(us2, u) <=> p \in Of(us, u))
  BY DEF Kept
<1>2. ASSUME NEW p \in DOMAIN us, us[p] \in UserUses, p \notin X
      PROVE  sz2[p] = sz[p] /\ \A a \in Words(sz, p) : Mem(k)[a] = Mem(h)[a]
  <2>1. p \in Of(us, us[p])
    BY DEF Of
  <2>2. p \in Of(us1, us[p])
    BY <1>2, <2>1 DEF Kept
  <2>3. p \in DOMAIN us1 /\ us1[p] \in UserUses
    BY <1>2, <2>2 DEF Of
  <2>4. sz1[p] = sz[p] /\ \A a \in Words(sz, p) : Mem(g)[a] = Mem(h)[a]
    BY <1>2 DEF Kept
  <2>5. sz2[p] = sz1[p] /\ \A a \in Words(sz1, p) : Mem(k)[a] = Mem(g)[a]
    BY <1>2, <2>3 DEF Kept
  <2>6. Words(sz1, p) = Words(sz, p)
    BY <2>4 DEF Words
  <2>. QED  BY <2>4, <2>5, <2>6
<1>. QED  BY <1>1, <1>2 DEF Kept

\* The result of WithNode.
IsWith(h, slot, size, g) == g = WithNode(h, slot, size)

\* The object n is cleared and linked from the slot.
Linked(h1, g, slot, n, size, X) ==
  /\ Wrote(h1, g, X) /\ Mem(g)[slot] = n
  /\ \A a \in Slots(n, size) : a \in DOMAIN Mem(h1) => Mem(g)[a] = 0

\* The words of a new node.
LEMMA NewNode ==
  ASSUME NEW h, NEW slot, NEW size, Mem(h)[slot] = 0, NEW g, IsWith(h, slot, size, g),
         NEW h1, NEW n, IsAlloc(h, size, h1, n),
         h1 \in Heaps, n \in Nat, slot \in DOMAIN Mem(h1), slot \notin Slots(n, size),
         NEW X, slot \in X, \A a \in Slots(n, size) : a \in X
  PROVE  Linked(h1, g, slot, n, size, X)
<1>1. PICK m : m = [a \in DOMAIN Mem(h1) |->
                      IF a = slot THEN n ELSE IF a \in Slots(n, size) THEN 0 ELSE Mem(h1)[a]]
  OBVIOUS
<1>2. g = PutMem(h1, m)
  BY <1>1 DEF IsWith, WithNode, PutNode, IsAlloc, PutMem, Mem, NULL, Slots
<1>3. \A a \in DOMAIN Mem(h1) : Mem(h1)[a] \in Nat
  BY WordType
<1>4. /\ m \in [DOMAIN Mem(h1) -> Nat] /\ m[slot] = n
      /\ \A a \in DOMAIN Mem(h1) : a \notin X => m[a] = Mem(h1)[a]
      /\ \A a \in Slots(n, size) : a \in DOMAIN Mem(h1) => m[a] = 0
  BY <1>1, <1>3
<1>5. Wrote(h1, PutMem(h1, m), X) /\ Mem(PutMem(h1, m)) = m
  BY <1>4, WriteMemory
<1>. QED  BY <1>2, <1>4, <1>5 DEF Linked

\* The result of WithLeafNode, whose slot is given.
IsWithLeaf(h, node, slot, g) ==
  \E key \in Nat : slot = node + L2Index(key) /\ g = WithLeafNode(h, node, key)

\* The leaf node n is linked too, and counted in the word c.
LeafLinked(h1, g, slot, n, X, c) ==
  Linked(h1, g, slot, n, LeafNodeSize, X) /\ Mem(g)[c] = Mem(h1)[c] + 1

\* The words of a new leaf node, and the count of its node.
LEMMA NewLeafNode ==
  ASSUME NEW h, NEW node, NEW slot, Mem(h)[slot] = 0, NEW g, IsWithLeaf(h, node, slot, g),
         NEW h1, NEW n, IsAlloc(h, LeafNodeSize, h1, n), h1 \in Heaps, n \in Nat,
         slot \in DOMAIN Mem(h1), slot \notin Slots(n, LeafNodeSize),
         NEW c, c = node + L2_SIZE, c \in DOMAIN Mem(h1), c \notin Slots(n, LeafNodeSize),
         c # slot,
         NEW X, slot \in X, c \in X, \A a \in Slots(n, LeafNodeSize) : a \in X
  PROVE  LeafLinked(h1, g, slot, n, X, c)
<1>1. PICK key \in Nat : slot = node + L2Index(key) /\ g = WithLeafNode(h, node, key)
  BY DEF IsWithLeaf
<1>2. PICK k : IsWith(h, slot, LeafNodeSize, k)
  BY DEF IsWith
<1>3. PICK Y : \A a : a \in Y <=> a \in X /\ a # c
  <2>1. \A a : a \in X \ {c} <=> a \in X /\ a # c
    OBVIOUS
  <2>. QED  BY <2>1
<1>4. /\ Wrote(h1, k, Y) /\ Mem(k)[slot] = n
      /\ \A a \in Slots(n, LeafNodeSize) : a \in DOMAIN Mem(h1) => Mem(k)[a] = 0
  <2>1. slot \in Y /\ \A a \in Slots(n, LeafNodeSize) : a \in Y
    BY <1>3
  <2>2. Linked(h1, k, slot, n, LeafNodeSize, Y)
    BY <1>2, <2>1, NewNode
  <2>. QED  BY <2>2 DEF Linked
<1>5. k \in Heaps /\ c \in DOMAIN Mem(k) /\ Mem(k)[c] = Mem(h1)[c]
  BY <1>3, <1>4 DEF Wrote
<1>6. PICK v \in Nat : v = Mem(k)[c] + 1
  BY <1>5, WordType
<1>7. g = Write1(k, c, v)
  BY <1>1, <1>2, <1>6 DEF IsWith, WithLeafNode, Write1, Mem, NULL
<1>8. PICK Z : Z = {c}
  OBVIOUS
<1>9. Wrote(k, g, Z) /\ Mem(g)[c] = v
  <2>1. c \in Z
    BY <1>8
  <2>. QED  BY <1>5, <1>7, <2>1, WriteWord
<1>10. Wrote(h1, g, X)
  <2>1. ASSUME NEW a \in DOMAIN Mem(h1), a \notin X PROVE Mem(g)[a] = Mem(h1)[a]
    BY <1>3, <1>4, <1>8, <1>9, <2>1 DEF Wrote
  <2>. QED  BY <1>4, <1>9, <2>1 DEF Wrote
<1>11. slot \in DOMAIN Mem(k) /\ slot \notin Z
  BY <1>4, <1>8 DEF Wrote
<1>12. Mem(g)[slot] = n
  BY <1>4, <1>9, <1>11 DEF Wrote
<1>13. ASSUME NEW a \in Slots(n, LeafNodeSize), a \in DOMAIN Mem(h1) PROVE Mem(g)[a] = 0
  <2>1. a \in DOMAIN Mem(k) /\ a \notin Z /\ Mem(k)[a] = 0
    BY <1>4, <1>8, <1>13 DEF Wrote
  <2>. QED  BY <1>9, <2>1 DEF Wrote
<1>14. Mem(g)[c] = Mem(h1)[c] + 1
  BY <1>5, <1>6, <1>9
<1>. QED  BY <1>10, <1>12, <1>13, <1>14 DEF Linked, LeafLinked

\* The lists are as they were if the lookups are.
LEMMA ListsSame ==
  ASSUME NEW m, NEW f, NEW sz, NEW us, FreeInv(m, f, sz, us), f # 0,
         NEW m2, NEW sz2, NEW us2, Trie(m2, sz2, us2, f, FreeUse),
         \A key \in Keys : Get(m2, f, key) = Get(m, f, key),
         \A p : p \in Of(us2, "listed") <=> p \in Of(us, "listed"),
         \A p \in Of(us, "listed") : sz2[p] = sz[p] /\ m2[p] = m[p],
         \A p \in DOMAIN us2 : us2[p] \in UserUses \cup ArenaUses
  PROVE  FreeInv(m2, f, sz2, us2)
<1>1. ASSUME NEW s \in Keys PROVE Chain(m2, Get(m2, f, s), ListedOf(sz2, us2, s))
  <2>1. \A p : p \in ListedOf(sz2, us2, s) <=> p \in ListedOf(sz, us, s)
    BY DEF ListedOf
  <2>2. ListedOf(sz2, us2, s) = ListedOf(sz, us, s)
    BY <2>1
  <2>3. Chain(m, Get(m, f, s), ListedOf(sz, us, s))
    BY DEF FreeInv
  <2>4. \A p \in ListedOf(sz, us, s) : m2[p] = m[p]
    BY DEF ListedOf
  <2>5. Chain(m2, Get(m, f, s), ListedOf(sz, us, s))
    BY <2>3, <2>4, ChainSame
  <2>. QED  BY <2>2, <2>5
<1>2. \A p \in Of(us2, "listed") : sz2[p] \in FreeSizes
  BY DEF FreeInv
<1>. QED  BY <1>1, <1>2 DEF FreeInv

\* The object n of a user becomes a v.
Becomes(us, us2, n, v) ==
  /\ DOMAIN us2 = DOMAIN us /\ n \in DOMAIN us /\ us[n] = "span"
  /\ \A u : \A p : p \in Of(us2, u) <=> IF p = n THEN u = v ELSE p \in Of(us, u)

\* An allocated object becomes part of a trie.
Owns(h, sz, us, h1, n, size, v, sz1, us1, us2) ==
  /\ AInv(h, sz, us) /\ Allocated(h, sz, us, h1, n, size, "span")
  /\ v \in UserUses \cup ArenaUses /\ v # "listed"
  /\ sz1 = Add(sz, n, size) /\ us1 = Add(us, n, "span") /\ us2 = Add(us1, n, v)

\* What it is then.
Owned(h, sz, us, h1, n, size, v, sz1, us1, us2) ==
  /\ AInv(h1, sz1, us1) /\ Layout(sz1, us1) /\ Layout(sz1, us2)
  /\ n \in DOMAIN sz1 /\ sz1[n] = size /\ Words(sz1, n) = Slots(n, size)
  /\ us1[n] = "span" /\ us2[n] = v /\ n \in DOMAIN us1
  /\ DOMAIN us2 = DOMAIN us1 /\ DOMAIN us1 = DOMAIN sz1
  /\ \A p \in DOMAIN us1 : p # n => us2[p] = us1[p]
  /\ \A p \in DOMAIN sz : p # n => p \in DOMAIN sz1 /\ sz1[p] = sz[p]
  /\ \A u : \A p : p \in Of(us2, u) <=> IF p = n THEN u = v ELSE p \in Of(us1, u)
  /\ \A u : \A p : p \in Of(us1, u) <=> IF p = n THEN u = "span" ELSE p \in Of(us, u)
  /\ \A p \in DOMAIN us2 : us2[p] \in UserUses \cup ArenaUses
  /\ Layout(sz, us) /\ Becomes(us1, us2, n, v)

LEMMA OwnObject ==
  ASSUME NEW h, NEW sz, NEW us, NEW h1, NEW n, NEW size, NEW v, NEW sz1, NEW us1, NEW us2,
         Owns(h, sz, us, h1, n, size, v, sz1, us1, us2)
  PROVE  Owned(h, sz, us, h1, n, size, v, sz1, us1, us2)
<1>0. /\ AInv(h, sz, us) /\ Allocated(h, sz, us, h1, n, size, "span")
      /\ v \in UserUses \cup ArenaUses /\ sz1 = Add(sz, n, size) /\ us1 = Add(us, n, "span")
      /\ us2 = Add(us1, n, v)
  BY DEF Owns
<1>1. /\ AInv(h1, sz1, us1) /\ Layout(sz1, us1) /\ Layout(sz, us)
      /\ \A p \in DOMAIN us1 : us1[p] \in UserUses \cup ArenaUses
  BY <1>0 DEF Allocated, AInv, ArenaOK, FreeInv
<1>2. /\ sz1[n] = size /\ \A p : p \in DOMAIN sz1 <=> p \in DOMAIN sz \/ p = n
      /\ \A p \in DOMAIN sz : p # n => sz1[p] = sz[p]
  BY <1>0, AddFacts
<1>3. us1[n] = "span" /\ \A p : p \in DOMAIN us1 <=> p \in DOMAIN us \/ p = n
  BY <1>0, AddFacts
<1>4. /\ us2[n] = v /\ \A p : p \in DOMAIN us2 <=> p \in DOMAIN us1 \/ p = n
      /\ \A p \in DOMAIN us1 : p # n => us2[p] = us1[p]
  BY <1>0, AddFacts
<1>5. DOMAIN us1 = DOMAIN sz1
  BY <1>1 DEF Layout
<1>6. DOMAIN us2 = DOMAIN us1
  <2>1. \A p : p \in DOMAIN us2 <=> p \in DOMAIN us1
    BY <1>3, <1>4
  <2>. QED  BY <2>1, <1>0, <1>5 DEF Add
<1>7. Layout(sz1, us2)
  BY <1>1, <1>5, <1>6 DEF Layout
<1>8. Words(sz1, n) = Slots(n, size)
  BY <1>2 DEF Words, Slots
<1>9. \A u : \A p : p \in Of(us2, u) <=> IF p = n THEN u = v ELSE p \in Of(us1, u)
  BY <1>0, AddOf
<1>10. \A u : \A p : p \in Of(us1, u) <=> IF p = n THEN u = "span" ELSE p \in Of(us, u)
  BY <1>0, AddOf
<1>11. \A p \in DOMAIN us2 : us2[p] \in UserUses \cup ArenaUses
  <2>1. ASSUME NEW p \in DOMAIN us2 PROVE us2[p] \in UserUses \cup ArenaUses
    <3>1. CASE p = n
      BY <1>0, <1>4, <3>1
    <3>2. CASE p # n
      BY <1>1, <1>4, <1>6, <3>2
    <3>. QED  BY <3>1, <3>2
  <2>. QED  BY <2>1
<1>12. /\ n \in DOMAIN sz1 /\ n \in DOMAIN us1
       /\ \A p \in DOMAIN sz : p # n => p \in DOMAIN sz1 /\ sz1[p] = sz[p]
  BY <1>2, <1>3
<1>13. Becomes(us1, us2, n, v)
  BY <1>3, <1>6, <1>9, <1>12 DEF Becomes
<1>. QED  BY <1>1, <1>2, <1>3, <1>4, <1>5, <1>6, <1>7, <1>8, <1>9, <1>10, <1>11, <1>12, <1>13 DEF Owned

LEMMA WroteTwice ==
  ASSUME NEW h, NEW g, NEW k, NEW X, Wrote(h, g, X), Wrote(g, k, X)
  PROVE  Wrote(h, k, X)
BY DEF Wrote

LEMMA KindNames ==
  ASSUME NEW k \in {PageUse, FreeUse}
  PROVE  /\ "span" \notin Uses(k) /\ "chunk" \notin Uses(k) /\ "listed" \notin Uses(k)
         /\ k.root \in Uses(k) /\ k.node \in Uses(k) /\ k.leaf \in Uses(k)
<1>1. CASE k = PageUse
  BY <1>1 DEF PageUse, Uses
<1>2. CASE k = FreeUse
  BY <1>2 DEF FreeUse, Uses
<1>. QED  BY <1>1, <1>2

\* The node n is cleared and linked from the root.
LEMMA NodeLinked ==
  ASSUME NEW m, NEW sz, NEW us, NEW us2, NEW m2, NEW r, NEW k \in {PageUse, FreeUse},
         Layout(sz, us), Layout(sz, us2), Trie(m, sz, us, r, k),
         NEW slot \in Slots(r, L1_SIZE), m[slot] = 0,
         NEW n, sz[n] = NodeSize, Becomes(us, us2, n, k.node),
         m2[slot] = n, \A a \in Words(sz, n) : m2[a] = 0,
         \A p \in DOMAIN sz : p # n => \A a \in Words(sz, p) : a # slot => m2[a] = m[a]
  PROVE  /\ Trie(m2, sz, us2, r, k)
         /\ \A key \in Nat : /\ LeavesOf(m2, r, key) = LeavesOf(m, r, key)
                             /\ Get(m2, r, key) = Get(m, r, key)
<1>1. \A u \in Uses(k) : n \notin Of(us, u)
  BY KindNames DEF Becomes, Of
<1>2. \A u \in Uses(k) : u # k.node => \A p : p \in Of(us2, u) <=> p \in Of(us, u)
  BY <1>1 DEF Becomes
<1>3. k.root \in Uses(k) /\ k.leaf \in Uses(k) /\ k.node \in Uses(k)
      /\ k.root # k.node /\ k.leaf # k.node
  BY KindNames, UseNames
<1>4. Of(us2, k.root) = Of(us, k.root)
  BY <1>2, <1>3
<1>5. Of(us2, k.leaf) = Of(us, k.leaf)
  BY <1>2, <1>3
<1>6. Of(us2, k.node) = Of(us, k.node) \cup {n}
  <2>1. \A p : p \in Of(us2, k.node) <=> p \in Of(us, k.node) \/ p = n
    BY DEF Becomes
  <2>. QED  BY <2>1
<1>7. \A u \in Uses(k) : \A p \in Of(us, u) :
        sz[p] = sz[p] /\ \A a \in Words(sz, p) : a # slot => m2[a] = m[a]
  BY <1>1 DEF Layout, Of
<1>8. n \notin Of(us, k.node)
  BY <1>1, <1>3
<1>. QED  BY <1>4, <1>5, <1>6, <1>7, <1>8, LinkNode

\* The leaf node n is cleared, linked from the node and counted by it.
LEMMA LeafNodeLinked ==
  ASSUME NEW m, NEW sz, NEW us, NEW us2, NEW m2, NEW r, NEW k \in {PageUse, FreeUse},
         Layout(sz, us), Layout(sz, us2), Trie(m, sz, us, r, k),
         NEW node \in Of(us, k.node), NEW slot \in Slots(node, L2_SIZE), m[slot] = 0,
         NEW n, sz[n] = LeafNodeSize, Becomes(us, us2, n, k.leaf),
         m2[slot] = n, \A a \in Words(sz, n) : m2[a] = 0,
         \A p \in DOMAIN sz : p # n => \A a \in Words(sz, p) :
           a # slot /\ a # node + L2_SIZE => m2[a] = m[a]
  PROVE  /\ Trie(m2, sz, us2, r, k)
         /\ \A key \in Nat :
              /\ LeavesOf(m, r, key) # 0 => LeavesOf(m2, r, key) = LeavesOf(m, r, key)
              /\ Get(m2, r, key) = Get(m, r, key)
<1>1. \A u \in Uses(k) : n \notin Of(us, u)
  BY KindNames DEF Becomes, Of
<1>2. \A u \in Uses(k) : u # k.leaf => \A p : p \in Of(us2, u) <=> p \in Of(us, u)
  BY <1>1 DEF Becomes
<1>3. k.root \in Uses(k) /\ k.leaf \in Uses(k) /\ k.node \in Uses(k)
      /\ k.root # k.leaf /\ k.leaf # k.node
  BY KindNames, UseNames
<1>4. Of(us2, k.root) = Of(us, k.root)
  BY <1>2, <1>3
<1>5. Of(us2, k.node) = Of(us, k.node)
  BY <1>2, <1>3
<1>6. Of(us2, k.leaf) = Of(us, k.leaf) \cup {n}
  <2>1. \A p : p \in Of(us2, k.leaf) <=> p \in Of(us, k.leaf) \/ p = n
    BY DEF Becomes
  <2>. QED  BY <2>1
<1>7. \A u \in Uses(k) : \A p \in Of(us, u) :
        sz[p] = sz[p] /\ \A a \in Words(sz, p) : a \notin {slot, node + L2_SIZE} => m2[a] = m[a]
  BY <1>1 DEF Layout, Of
<1>8. n \notin Of(us, k.leaf)
  BY <1>1, <1>3
<1>. QED  BY <1>4, <1>5, <1>6, <1>7, <1>8, LinkLeafNode

LEMMA FirstWord ==
  ASSUME NEW sz, NEW us, Layout(sz, us), NEW p \in DOMAIN sz
  PROVE  p \in Words(sz, p)
BY DEF Layout, Words

\* What the write leaves.
Written(h, sz, us, h1, n, sz1, us1, us2, o, g, X, Y) ==
  /\ ArenaOK(g, sz1, us2)
  /\ o # n /\ o \in DOMAIN sz1 /\ us1[o] = us[o] /\ Words(sz1, o) = Words(sz, o)
  /\ \A a \in Words(sz, o) : Mem(h1)[a] = Mem(h)[a]
  /\ \A p \in DOMAIN sz1 : \A a \in Words(sz1, p) : a \notin X => Mem(g)[a] = Mem(h1)[a]
  /\ \A p \in DOMAIN sz1 : p # o /\ p # n => \A a \in Words(sz1, p) : Mem(g)[a] = Mem(h1)[a]
  /\ Kept(h, sz, us, g, sz1, us2, Y)

\* It is written, and linked from another object of the trie.
LEMMA ObjectWritten ==
  ASSUME NEW h, NEW sz, NEW us, NEW h1, NEW n, NEW size, NEW v, NEW sz1, NEW us1, NEW us2,
         Owns(h, sz, us, h1, n, size, v, sz1, us1, us2),
         NEW o \in DOMAIN us, us[o] # "listed", us[o] # "free_leaf",
         NEW g, NEW X, Wrote(h1, g, X),
         \A a \in X : a \in Words(sz1, o) \/ a \in Words(sz1, n),
         NEW Y, v \in UserUses => n \in Y, us[o] \in UserUses => o \in Y
  PROVE  Written(h, sz, us, h1, n, sz1, us1, us2, o, g, X, Y)
<1>0. Owned(h, sz, us, h1, n, size, v, sz1, us1, us2)
  BY OwnObject
<1>1. /\ AInv(h1, sz1, us1) /\ Layout(sz1, us1) /\ Layout(sz1, us2)
      /\ n \in DOMAIN sz1 /\ us1[n] = "span" /\ us2[n] = v
      /\ DOMAIN us2 = DOMAIN us1 /\ DOMAIN us1 = DOMAIN sz1
      /\ \A p \in DOMAIN us1 : p # n => us2[p] = us1[p]
      /\ \A p \in DOMAIN sz : p # n => p \in DOMAIN sz1 /\ sz1[p] = sz[p]
      /\ Layout(sz, us)
  BY <1>0 DEF Owned
<1>2. /\ \A u : \A p : p \in Of(us2, u) <=> IF p = n THEN u = v ELSE p \in Of(us1, u)
      /\ \A u : \A p : p \in Of(us1, u) <=> IF p = n THEN u = "span" ELSE p \in Of(us, u)
  BY <1>0 DEF Owned
<1>3. /\ (n \in DOMAIN us => us[n] = "listed")
      /\ \A p \in DOMAIN us : us[p] # "free_leaf" => \A a \in Words(sz, p) : Mem(h1)[a] = Mem(h)[a]
  BY DEF Owns, Allocated
<1>4. o # n /\ o \in DOMAIN sz1 /\ DOMAIN us = DOMAIN sz /\ Words(sz1, o) = Words(sz, o)
  BY <1>1, <1>3 DEF Layout, Words
<1>5. us1[o] = us[o]
  BY <1>2, <1>4 DEF Of
<1>6. ArenaOK(h1, sz1, us1)
  BY <1>1 DEF AInv
<1>7. \A a \in X : a < Cur(h1)
  BY <1>1, <1>4, <1>6, PlacedMapped
<1>8. ArenaOK(g, sz1, us2)
  BY <1>1, <1>6, <1>7, SameArena
<1>9. ASSUME NEW p \in DOMAIN sz1, NEW a \in Words(sz1, p), a \notin X
      PROVE  Mem(g)[a] = Mem(h1)[a]
  <2>1. a \in DOMAIN Mem(h1)
    BY <1>6, PlacedMapped
  <2>. QED  BY <1>9, <2>1 DEF Wrote
<1>10. ASSUME NEW p \in DOMAIN sz1, p # o, p # n, NEW a \in Words(sz1, p)
      PROVE  Mem(g)[a] = Mem(h1)[a]
  <2>1. a \notin X
    BY <1>1, <1>4, <1>10, OneOwner
  <2>. QED  BY <1>9, <2>1
<1>11. ASSUME NEW u \in UserUses, NEW p, p \notin Y PROVE p \in Of(us2, u) <=> p \in Of(us, u)
  <2>1. CASE p = n
    <3>1. u # v /\ u # "listed"
      BY <1>11, <2>1, UseSets
    <3>2. n \notin Of(us, u)
      BY <1>3, <3>1 DEF Of
    <3>. QED  BY <1>2, <2>1, <3>1, <3>2
  <2>2. CASE p # n
    BY <1>2, <2>2
  <2>. QED  BY <2>1, <2>2
<1>12. ASSUME NEW p \in DOMAIN us, us[p] \in UserUses, p \notin Y
       PROVE  sz1[p] = sz[p] /\ \A a \in Words(sz, p) : Mem(g)[a] = Mem(h)[a]
  <2>1. us[p] # "listed" /\ us[p] # "free_leaf" /\ p # o
    BY <1>12 DEF UserUses
  <2>2. p # n /\ p \in DOMAIN sz /\ p \in DOMAIN sz1 /\ sz1[p] = sz[p]
    BY <1>1, <1>3, <1>4, <2>1
  <2>3. Words(sz1, p) = Words(sz, p)
    BY <2>2 DEF Words
  <2>. QED  BY <1>3, <1>10, <2>1, <2>2, <2>3
<1>13. Kept(h, sz, us, g, sz1, us2, Y)
  BY <1>11, <1>12 DEF Kept
<1>14. \A a \in Words(sz, o) : Mem(h1)[a] = Mem(h)[a]
  BY <1>3
<1>. QED  BY <1>4, <1>5, <1>8, <1>9, <1>10, <1>13, <1>14 DEF Written

\* A step in the trie of the free lists that users do not notice.
FreeStep(h, sz, us, g, sz2, us2, key) ==
  /\ AInv(g, sz2, us2) /\ Kept(h, sz, us, g, sz2, us2, {})
  /\ Pgm(g) = Pgm(h) /\ Flm(g) = Flm(h)
  /\ Get(Mem(g), Flm(h), key) = Get(Mem(h), Flm(h), key)

LEMMA FreeTrie ==
  ASSUME NEW h, NEW sz, NEW us, AInv(h, sz, us), Flm(h) # 0
  PROVE  /\ Trie(Mem(h), sz, us, Flm(h), FreeUse) /\ Layout(sz, us) /\ ArenaOK(h, sz, us)
         /\ h \in Heaps /\ FreeInv(Mem(h), Flm(h), sz, us)
BY DEF AInv, FreeInv, ArenaOK

\* The object to be linked: cut or taken from its list.
LEMMA NewObject ==
  ASSUME NEW h, NEW sz, NEW us, AInv(h, sz, us), NEW size \in {NodeSize, LeafNodeSize},
         NEW v \in UserUses \cup ArenaUses, v # "listed"
  PROVE  \E h1, n, sz1, us1, us2 :
           IsAlloc(h, size, h1, n) /\ Owns(h, sz, us, h1, n, size, v, sz1, us1, us2)
<1>1. PICK h1, n : IsAlloc(h, size, h1, n)
  BY DEF IsAlloc
<1>2. size \in ObjectSizes /\ size \in Keys /\ "span" \in UserUses
  BY Constants DEF ObjectSizes, UserUses
<1>3. Allocated(h, sz, us, h1, n, size, "span")
  BY <1>1, <1>2, AllocOK
<1>4. \E sz1, us1, us2 : Owns(h, sz, us, h1, n, size, v, sz1, us1, us2)
  BY <1>3 DEF Owns
<1>. QED  BY <1>1, <1>4

\* Where it and the slot that links it lie.
Apart(h, h1, sz1, n, size, o, a) ==
  /\ a \in DOMAIN Mem(h1) /\ a \notin Slots(n, size) /\ Mem(h1)[a] = Mem(h)[a]
  /\ a \in Words(sz1, o) /\ o \in DOMAIN sz1 /\ o # n

LEMMA ObjectApart ==
  ASSUME NEW h, NEW sz, NEW us, NEW h1, NEW n, NEW size, NEW v, NEW sz1, NEW us1, NEW us2,
         Owns(h, sz, us, h1, n, size, v, sz1, us1, us2),
         NEW o \in DOMAIN us, us[o] # "listed", us[o] # "free_leaf", NEW a \in Words(sz, o)
  PROVE  Apart(h, h1, sz1, n, size, o, a)
<1>0. Owned(h, sz, us, h1, n, size, v, sz1, us1, us2)
  BY OwnObject
<1>1. /\ AInv(h1, sz1, us1) /\ Layout(sz1, us1)
      /\ n \in DOMAIN sz1 /\ Words(sz1, n) = Slots(n, size)
      /\ \A p \in DOMAIN sz : p # n => p \in DOMAIN sz1 /\ sz1[p] = sz[p]
      /\ Layout(sz, us)
  BY <1>0 DEF Owned
<1>2. /\ (n \in DOMAIN us => us[n] = "listed")
      /\ \A p \in DOMAIN us : us[p] # "free_leaf" => \A b \in Words(sz, p) : Mem(h1)[b] = Mem(h)[b]
  BY DEF Owns, Allocated
<1>3. o # n /\ o \in DOMAIN sz1 /\ Words(sz1, o) = Words(sz, o)
  BY <1>1, <1>2 DEF Layout, Words
<1>4. a \notin Words(sz1, n)
  BY <1>1, <1>3, OneOwner
<1>5. a \in DOMAIN Mem(h1)
  BY <1>1, <1>3, PlacedMapped DEF AInv
<1>. QED  BY <1>1, <1>2, <1>3, <1>4, <1>5 DEF Apart

\* The trie of the free lists once the new object is linked.
LEMMA FreeLinked ==
  ASSUME NEW h, NEW sz, NEW us, AInv(h, sz, us), Flm(h) # 0, NEW key \in Keys,
         Get(Mem(h), Flm(h), key) = 0,
         NEW h1, NEW n, NEW size, NEW v, NEW sz1, NEW us1, NEW us2,
         Owns(h, sz, us, h1, n, size, v, sz1, us1, us2), v \in ArenaUses,
         NEW o \in DOMAIN us, us[o] # "listed", us[o] # "free_leaf", us[o] \in ArenaUses,
         NEW g, NEW X, Wrote(h1, g, X),
         \A a \in X : a \in Words(sz1, o) \/ a \in Words(sz1, n),
         Trie(Mem(g), sz1, us2, Flm(h), FreeUse),
         \A k \in Nat : Get(Mem(g), Flm(h), k) = Get(Mem(h1), Flm(h), k)
  PROVE  FreeStep(h, sz, us, g, sz1, us2, key)
<1>0. Owned(h, sz, us, h1, n, size, v, sz1, us1, us2)
  BY OwnObject
<1>1. /\ AInv(h1, sz1, us1) /\ us1[n] = "span" /\ us2[n] = v /\ n \in DOMAIN us1
      /\ DOMAIN us2 = DOMAIN us1 /\ DOMAIN us1 = DOMAIN sz1
      /\ \A p \in DOMAIN us1 : p # n => us2[p] = us1[p]
      /\ \A u : \A p : p \in Of(us2, u) <=> IF p = n THEN u = v ELSE p \in Of(us1, u)
      /\ \A p \in DOMAIN us2 : us2[p] \in UserUses \cup ArenaUses
      /\ Layout(sz1, us1) /\ v # "listed"
  BY <1>0 DEF Owned, Owns
<1>2. /\ Flm(h1) = Flm(h) /\ Pgm(h1) = Pgm(h)
      /\ \A k \in Keys : Get(Mem(h), Flm(h), k) = 0 =>
           Get(Mem(h1), Flm(h), k) = Get(Mem(h), Flm(h), k)
  BY DEF Owns, Allocated
<1>3. v \notin UserUses /\ us[o] \notin UserUses
  BY UseSets
<1>4. /\ ArenaOK(g, sz1, us2) /\ Kept(h, sz, us, g, sz1, us2, {})
      /\ o # n /\ o \in DOMAIN sz1 /\ us1[o] = us[o]
      /\ \A p \in DOMAIN sz1 : p # o /\ p # n => \A a \in Words(sz1, p) : Mem(g)[a] = Mem(h1)[a]
  <2>1. PICK Y : Y = {}
    OBVIOUS
  <2>2. Written(h, sz, us, h1, n, sz1, us1, us2, o, g, X, Y)
    BY <1>3, ObjectWritten
  <2>. QED  BY <2>1, <2>2 DEF Written
<1>5. \A p : p \in Of(us2, "listed") <=> p \in Of(us1, "listed")
  BY <1>1 DEF Of
<1>6. ASSUME NEW p \in Of(us1, "listed") PROVE sz1[p] = sz1[p] /\ Mem(g)[p] = Mem(h1)[p]
  <2>1. p \in DOMAIN sz1 /\ p # o /\ p # n
    BY <1>1, <1>4 DEF Of
  <2>2. p \in Words(sz1, p)
    BY <1>1, <2>1, FirstWord
  <2>. QED  BY <1>4, <2>1, <2>2
<1>7. \A k \in Keys : Get(Mem(g), Flm(h), k) = Get(Mem(h1), Flm(h), k)
  BY KeyRange
<1>8. FreeInv(Mem(h1), Flm(h), sz1, us1)
  BY <1>1, <1>2 DEF AInv
<1>9. FreeInv(Mem(g), Flm(h), sz1, us2)
  BY <1>1, <1>5, <1>6, <1>7, <1>8, ListsSame
<1>10. Flm(g) = Flm(h) /\ Pgm(g) = Pgm(h)
  BY <1>2 DEF Wrote
<1>11. Get(Mem(g), Flm(h), key) = Get(Mem(h), Flm(h), key)
  BY <1>2, <1>7
<1>. QED  BY <1>4, <1>9, <1>10, <1>11 DEF FreeStep, AInv

LEMMA FreeNode ==
  ASSUME NEW h, NEW sz, NEW us, AInv(h, sz, us), Flm(h) # 0,
         NEW slot \in Slots(Flm(h), L1_SIZE), Mem(h)[slot] = 0,
         NEW key \in Keys, Get(Mem(h), Flm(h), key) = 0,
         NEW g, IsWith(h, slot, NodeSize, g)
  PROVE  /\ \E sz2, us2 : FreeStep(h, sz, us, g, sz2, us2, key)
         /\ Mem(g)[slot] # 0
<1>1. FreeUse.node \in UserUses \cup ArenaUses /\ FreeUse.node # "listed"
      /\ FreeUse.node \in ArenaUses
  BY UseSets DEF ArenaUses
<1>2. PICK h1, n, sz1, us1, us2 :
        IsAlloc(h, NodeSize, h1, n) /\ Owns(h, sz, us, h1, n, NodeSize, FreeUse.node, sz1, us1, us2)
  BY <1>1, NewObject
<1>3. /\ Trie(Mem(h), sz, us, Flm(h), FreeUse) /\ Layout(sz, us)
  BY FreeTrie
<1>4. PICK f : f = Flm(h)
  OBVIOUS
<1>5. f \in Of(us, FreeUse.root) /\ slot \in Words(sz, f)
  BY <1>3, <1>4, TrieWords
<1>6. f \in DOMAIN us /\ us[f] # "listed" /\ us[f] # "free_leaf" /\ us[f] \in ArenaUses
  BY <1>5, UseSets DEF Of, ArenaUses
<1>7. Owned(h, sz, us, h1, n, NodeSize, FreeUse.node, sz1, us1, us2)
  BY <1>2, OwnObject
<1>8. /\ AInv(h1, sz1, us1) /\ Layout(sz1, us1) /\ Layout(sz1, us2) /\ sz1[n] = NodeSize
      /\ Words(sz1, n) = Slots(n, NodeSize) /\ n \in DOMAIN sz1
      /\ Becomes(us1, us2, n, FreeUse.node)
  BY <1>7 DEF Owned
<1>9. /\ slot \in DOMAIN Mem(h1) /\ slot \notin Slots(n, NodeSize) /\ Mem(h1)[slot] = 0
      /\ slot \in Words(sz1, f) /\ f \in DOMAIN sz1 /\ f # n
  <2>1. Apart(h, h1, sz1, n, NodeSize, f, slot)
    BY <1>2, <1>5, <1>6, ObjectApart
  <2>. QED  BY <2>1 DEF Apart
<1>10. h1 \in Heaps /\ n \in Nat \ {0} /\ Flm(h1) = f /\ ArenaOK(h1, sz1, us1)
       /\ Trie(Mem(h1), sz1, us1, f, FreeUse)
  <2>1. n \in Nat \ {0} /\ Flm(h1) = Flm(h)
    BY <1>2 DEF Owns, Allocated
  <2>. QED  BY <1>4, <1>8, <2>1, FreeTrie
<1>11. PICK X : \A a : a \in X <=> a = slot \/ a \in Slots(n, NodeSize)
  <2>1. \A a : a \in {slot} \cup Slots(n, NodeSize) <=> a = slot \/ a \in Slots(n, NodeSize)
    OBVIOUS
  <2>. QED  BY <2>1
<1>12. Linked(h1, g, slot, n, NodeSize, X)
  <2>1. slot \in X /\ \A a \in Slots(n, NodeSize) : a \in X
    BY <1>11
  <2>. QED  BY <1>2, <1>9, <1>10, <2>1, NewNode
<1>13. /\ Wrote(h1, g, X) /\ Mem(g)[slot] = n
       /\ \A a \in Words(sz1, n) : Mem(g)[a] = 0
  <2>1. \A a \in Words(sz1, n) : a \in DOMAIN Mem(h1)
    BY <1>8, <1>10, PlacedMapped
  <2>. QED  BY <1>8, <1>12, <2>1 DEF Linked
<1>14. \A a \in X : a \in Words(sz1, f) \/ a \in Words(sz1, n)
  BY <1>8, <1>9, <1>11
<1>15. \A p \in DOMAIN sz1 : p # n => \A a \in Words(sz1, p) : a # slot => Mem(g)[a] = Mem(h1)[a]
  <2>1. ASSUME NEW p \in DOMAIN sz1, p # n, NEW a \in Words(sz1, p), a # slot
        PROVE  Mem(g)[a] = Mem(h1)[a]
    <3>1. a \notin Words(sz1, n)
      BY <1>8, <2>1, OneOwner
    <3>2. a \notin X
      BY <1>8, <1>11, <2>1, <3>1
    <3>3. a \in DOMAIN Mem(h1)
      BY <1>10, <2>1, PlacedMapped
    <3>. QED  BY <1>13, <3>2, <3>3 DEF Wrote
  <2>. QED  BY <2>1
<1>16. PICK m1, m : m1 = Mem(h1) /\ m = Mem(g)
  OBVIOUS
<1>17. PICK k \in {PageUse, FreeUse} : k = FreeUse
  OBVIOUS
<1>18. /\ Trie(m, sz1, us2, f, k)
       /\ \A x \in Nat : /\ LeavesOf(m, f, x) = LeavesOf(m1, f, x)
                         /\ Get(m, f, x) = Get(m1, f, x)
  <2>1. /\ Layout(sz1, us1) /\ Layout(sz1, us2) /\ Trie(m1, sz1, us1, f, k)
        /\ slot \in Slots(f, L1_SIZE) /\ m1[slot] = 0 /\ sz1[n] = NodeSize
        /\ Becomes(us1, us2, n, k.node) /\ m[slot] = n /\ \A a \in Words(sz1, n) : m[a] = 0
        /\ \A p \in DOMAIN sz1 : p # n => \A a \in Words(sz1, p) : a # slot => m[a] = m1[a]
    BY <1>4, <1>8, <1>9, <1>10, <1>13, <1>15, <1>16, <1>17
  <2>. QED  BY <2>1, NodeLinked
<1>19. /\ Trie(Mem(g), sz1, us2, Flm(h), FreeUse)
       /\ \A x \in Nat : Get(Mem(g), Flm(h), x) = Get(Mem(h1), Flm(h), x)
  BY <1>4, <1>16, <1>17, <1>18
<1>20. FreeStep(h, sz, us, g, sz1, us2, key)
  BY <1>1, <1>2, <1>6, <1>13, <1>14, <1>19, FreeLinked
<1>. QED  BY <1>10, <1>13, <1>20

LEMMA FreeLeafNode ==
  ASSUME NEW h, NEW sz, NEW us, AInv(h, sz, us), Flm(h) # 0,
         NEW node \in Of(us, FreeUse.node), NEW slot \in Slots(node, L2_SIZE), Mem(h)[slot] = 0,
         NEW key \in Keys, Get(Mem(h), Flm(h), key) = 0,
         NEW g, IsWithLeaf(h, node, slot, g)
  PROVE  /\ \E sz2, us2 : FreeStep(h, sz, us, g, sz2, us2, key)
         /\ Mem(g)[slot] # 0 /\ \A a \in Slots(Flm(h), L1_SIZE) : Mem(g)[a] = Mem(h)[a]
<1>1. FreeUse.leaf \in UserUses \cup ArenaUses /\ FreeUse.leaf # "listed"
      /\ FreeUse.leaf \in ArenaUses
  BY UseSets DEF ArenaUses
<1>2. PICK h1, n, sz1, us1, us2 :
        /\ IsAlloc(h, LeafNodeSize, h1, n)
        /\ Owns(h, sz, us, h1, n, LeafNodeSize, FreeUse.leaf, sz1, us1, us2)
  BY <1>1, NewObject
<1>3. Trie(Mem(h), sz, us, Flm(h), FreeUse) /\ Layout(sz, us)
  BY FreeTrie
<1>4. PICK f : f = Flm(h)
  OBVIOUS
<1>c. PICK c : c = node + L2_SIZE
  OBVIOUS
<1>5. slot \in Words(sz, node) /\ c \in Words(sz, node) /\ c # slot /\ node \in DOMAIN sz
  BY <1>3, <1>c, TrieWords
<1>6. node \in DOMAIN us /\ us[node] # "listed" /\ us[node] # "free_leaf" /\ us[node] \in ArenaUses
  BY UseSets DEF Of, ArenaUses
<1>7. Owned(h, sz, us, h1, n, LeafNodeSize, FreeUse.leaf, sz1, us1, us2)
  BY <1>2, OwnObject
<1>8. /\ AInv(h1, sz1, us1) /\ Layout(sz1, us1) /\ Layout(sz1, us2) /\ sz1[n] = LeafNodeSize
      /\ Words(sz1, n) = Slots(n, LeafNodeSize) /\ n \in DOMAIN sz1
      /\ Becomes(us1, us2, n, FreeUse.leaf)
      /\ \A u : \A p : p \in Of(us1, u) <=> IF p = n THEN u = "span" ELSE p \in Of(us, u)
  BY <1>7 DEF Owned
<1>9. Apart(h, h1, sz1, n, LeafNodeSize, node, slot) /\ Apart(h, h1, sz1, n, LeafNodeSize, node, c)
  BY <1>2, <1>5, <1>6, ObjectApart
<1>10. h1 \in Heaps /\ n \in Nat \ {0} /\ Flm(h1) = f /\ ArenaOK(h1, sz1, us1)
       /\ Trie(Mem(h1), sz1, us1, f, FreeUse)
  <2>1. n \in Nat \ {0} /\ Flm(h1) = Flm(h)
    BY <1>2 DEF Owns, Allocated
  <2>. QED  BY <1>4, <1>8, <2>1, FreeTrie
<1>11. PICK X : \A a : a \in X <=> a = slot \/ a = c \/ a \in Slots(n, LeafNodeSize)
  <2>1. \A a : a \in {slot, c} \cup Slots(n, LeafNodeSize)
                 <=> a = slot \/ a = c \/ a \in Slots(n, LeafNodeSize)
    OBVIOUS
  <2>. QED  BY <2>1
<1>12. Linked(h1, g, slot, n, LeafNodeSize, X)
  <2>1. slot \in X /\ c \in X /\ \A a \in Slots(n, LeafNodeSize) : a \in X
    BY <1>11
  <2>2. /\ slot \in DOMAIN Mem(h1) /\ slot \notin Slots(n, LeafNodeSize)
        /\ c \in DOMAIN Mem(h1) /\ c \notin Slots(n, LeafNodeSize)
    BY <1>9 DEF Apart
  <2>3. LeafLinked(h1, g, slot, n, X, c)
    BY <1>2, <1>c, <1>5, <1>10, <2>1, <2>2, NewLeafNode
  <2>. QED  BY <2>3 DEF LeafLinked
<1>13. /\ Wrote(h1, g, X) /\ Mem(g)[slot] = n
       /\ \A a \in Words(sz1, n) : Mem(g)[a] = 0
  <2>1. \A a \in Words(sz1, n) : a \in DOMAIN Mem(h1)
    BY <1>8, <1>10, PlacedMapped
  <2>. QED  BY <1>8, <1>12, <2>1 DEF Linked
<1>14. \A a \in X : a \in Words(sz1, node) \/ a \in Words(sz1, n)
  BY <1>8, <1>9, <1>11 DEF Apart
<1>15. \A p \in DOMAIN sz1 : p # n => \A a \in Words(sz1, p) :
         a # slot /\ a # c => Mem(g)[a] = Mem(h1)[a]
  <2>1. ASSUME NEW p \in DOMAIN sz1, p # n, NEW a \in Words(sz1, p), a # slot, a # c
        PROVE  Mem(g)[a] = Mem(h1)[a]
    <3>1. a \notin Words(sz1, n)
      BY <1>8, <2>1, OneOwner
    <3>2. a \notin X
      BY <1>8, <1>11, <2>1, <3>1
    <3>3. a \in DOMAIN Mem(h1)
      BY <1>10, <2>1, PlacedMapped
    <3>. QED  BY <1>13, <3>2, <3>3 DEF Wrote
  <2>. QED  BY <2>1
<1>16. PICK m1, m : m1 = Mem(h1) /\ m = Mem(g)
  OBVIOUS
<1>17. PICK k \in {PageUse, FreeUse} : k = FreeUse
  OBVIOUS
<1>18. /\ Trie(m, sz1, us2, f, k)
       /\ \A x \in Nat : Get(m, f, x) = Get(m1, f, x)
  <2>1. m1[slot] = 0
    BY <1>9, <1>16 DEF Apart
  <2>2. node \in Of(us1, k.node)
    <3>1. node # n
      BY <1>9 DEF Apart
    <3>. QED  BY <1>8, <1>17, <3>1
  <2>3. /\ Layout(sz1, us1) /\ Layout(sz1, us2) /\ Trie(m1, sz1, us1, f, k)
        /\ sz1[n] = LeafNodeSize
        /\ Becomes(us1, us2, n, k.leaf) /\ m[slot] = n /\ \A a \in Words(sz1, n) : m[a] = 0
        /\ \A p \in DOMAIN sz1 : p # n => \A a \in Words(sz1, p) :
             a # slot /\ a # node + L2_SIZE => m[a] = m1[a]
    BY <1>c, <1>8, <1>10, <1>13, <1>15, <1>16, <1>17
  <2>. QED  BY <2>1, <2>2, <2>3, LeafNodeLinked
<1>19. /\ Trie(Mem(g), sz1, us2, Flm(h), FreeUse)
       /\ \A x \in Nat : Get(Mem(g), Flm(h), x) = Get(Mem(h1), Flm(h), x)
  BY <1>4, <1>16, <1>17, <1>18
<1>20. FreeStep(h, sz, us, g, sz1, us2, key)
  BY <1>1, <1>2, <1>6, <1>13, <1>14, <1>19, FreeLinked
<1>21. ASSUME NEW a \in Slots(f, L1_SIZE) PROVE Mem(g)[a] = Mem(h)[a]
  <2>1. f \in Of(us, FreeUse.root) /\ f \in DOMAIN sz /\ a \in Words(sz, f)
    BY <1>3, <1>4, TrieWords
  <2>2. f \in DOMAIN us /\ us[f] # "listed" /\ us[f] # "free_leaf" /\ f # node
    BY <2>1, UseSets DEF Of
  <2>3. Apart(h, h1, sz1, n, LeafNodeSize, f, a)
    BY <1>2, <2>1, <2>2, ObjectApart
  <2>4. a # slot /\ a # c
    BY <1>3, <1>5, <2>1, <2>2, OneOwner
  <2>. QED  BY <1>15, <2>3, <2>4 DEF Apart
<1>. QED  BY <1>4, <1>10, <1>13, <1>20, <1>21

\* The steps of cmalloc_map before the last.
IsPath(h, root, key, g) ==
  \E k, slot, node : /\ slot = root + L1Index(key) /\ IsWith(h, slot, NodeSize, k)
                     /\ node = Mem(k)[slot] /\ g = WithLeafNode(k, node, key)

LEMMA MapSteps ==
  ASSUME NEW h, NEW root, NEW key, NEW value
  PROVE  \E g : IsPath(h, root, key, g) /\ Map(h, root, value, key) = SetLeaf(g, root, key, value)
BY DEF IsPath, IsWith, Map, MapBelow, Mem

LEMMA FreeTwice ==
  ASSUME NEW h, NEW sz, NEW us, NEW k, NEW sz1, NEW us1, NEW g, NEW sz2, NEW us2, NEW key,
         FreeStep(h, sz, us, k, sz1, us1, key), FreeStep(k, sz1, us1, g, sz2, us2, key)
  PROVE  FreeStep(h, sz, us, g, sz2, us2, key)
<1>1. Kept(h, sz, us, k, sz1, us1, {}) /\ Kept(k, sz1, us1, g, sz2, us2, {})
  BY DEF FreeStep
<1>2. PICK X : X = {}
  OBVIOUS
<1>3. Kept(h, sz, us, k, sz1, us1, X) /\ Kept(k, sz1, us1, g, sz2, us2, X)
  BY <1>1, <1>2
<1>4. Kept(h, sz, us, g, sz2, us2, X)
  BY <1>3, KeptTwice
<1>. QED  BY <1>2, <1>4 DEF FreeStep

LEMMA FreeSelf ==
  ASSUME NEW h, NEW sz, NEW us, AInv(h, sz, us), NEW key
  PROVE  FreeStep(h, sz, us, h, sz, us, key)
BY KeptSelf DEF FreeStep

\* What is found for a key whose path is cut off.
LEMMA NoPath ==
  ASSUME NEW m, NEW r, NEW key
  PROVE  /\ m[r + L1Index(key)] = 0 => LeavesOf(m, r, key) = 0
         /\ m[r + L1Index(key)] # 0 =>
              LeavesOf(m, r, key) = m[m[r + L1Index(key)] + L2Index(key)]
         /\ LeavesOf(m, r, key) = 0 => Get(m, r, key) = 0
BY DEF LeavesOf, Get, NULL

LEMMA FreePath ==
  ASSUME NEW h, NEW sz, NEW us, AInv(h, sz, us), Flm(h) # 0, NEW key \in Keys,
         NEW g, IsPath(h, Flm(h), key, g)
  PROVE  /\ \E sz2, us2 : FreeStep(h, sz, us, g, sz2, us2, key)
         /\ LeavesOf(Mem(g), Flm(h), key) # 0
<1>1. PICK k, slot, node : /\ slot = Flm(h) + L1Index(key) /\ IsWith(h, slot, NodeSize, k)
                           /\ node = Mem(k)[slot] /\ g = WithLeafNode(k, node, key)
  BY DEF IsPath
<1>2. key \in Nat
  BY KeyRange
<1>3. slot \in Slots(Flm(h), L1_SIZE)
  BY <1>1, <1>2, FreeTrie, TriePath
<1>4. PICK sz1, us1 : FreeStep(h, sz, us, k, sz1, us1, key) /\ Mem(k)[slot] # 0
  <2>1. CASE Mem(h)[slot] = 0
    <3>1. Get(Mem(h), Flm(h), key) = 0
      BY <1>1, <2>1, NoPath
    <3>. QED  BY <1>1, <1>3, <2>1, <3>1, FreeNode
  <2>2. CASE Mem(h)[slot] # 0
    <3>1. k = h
      BY <1>1, <2>2 DEF IsWith, WithNode, Mem, NULL
    <3>. QED  BY <2>2, <3>1, FreeSelf
  <2>. QED  BY <2>1, <2>2
<1>5. AInv(k, sz1, us1) /\ Flm(k) = Flm(h) /\ Flm(k) # 0
  BY <1>4 DEF FreeStep
<1>6. PICK b : b = node + L2Index(key)
  OBVIOUS
<1>7. node \in Of(us1, FreeUse.node) /\ b \in Slots(node, L2_SIZE) /\ node # 0
  <2>1. Trie(Mem(k), sz1, us1, Flm(k), FreeUse) /\ Layout(sz1, us1)
    BY <1>5, FreeTrie
  <2>2. node \in Of(us1, FreeUse.node)
    BY <1>1, <1>2, <1>4, <1>5, <2>1, TriePath
  <2>3. b \in Slots(node, L2_SIZE)
    BY <1>2, <1>6, <2>1, <2>2, TriePath
  <2>. QED  BY <1>1, <1>4, <2>2, <2>3
<1>8. CASE Mem(k)[b] = 0
  <2>1. Get(Mem(k), Flm(k), key) = 0
    BY <1>1, <1>5, <1>6, <1>7, <1>8, NoPath
  <2>2. IsWithLeaf(k, node, b, g)
    BY <1>1, <1>2, <1>6 DEF IsWithLeaf
  <2>3. /\ \E sz2, us2 : FreeStep(k, sz1, us1, g, sz2, us2, key)
        /\ Mem(g)[b] # 0 /\ \A a \in Slots(Flm(k), L1_SIZE) : Mem(g)[a] = Mem(k)[a]
    BY <1>5, <1>7, <1>8, <2>1, <2>2, FreeLeafNode
  <2>4. PICK sz2, us2 : FreeStep(k, sz1, us1, g, sz2, us2, key)
    BY <2>3
  <2>5. FreeStep(h, sz, us, g, sz2, us2, key)
    BY <1>4, <2>4, FreeTwice
  <2>6. Mem(g)[slot] = node
    BY <1>1, <1>3, <1>5, <2>3
  <2>7. LeavesOf(Mem(g), Flm(h), key) # 0
    BY <1>1, <1>6, <1>7, <2>3, <2>6, NoPath
  <2>. QED  BY <2>5, <2>7
<1>9. CASE Mem(k)[b] # 0
  <2>1. g = k
    BY <1>1, <1>6, <1>9 DEF WithLeafNode, Mem, NULL
  <2>2. LeavesOf(Mem(g), Flm(h), key) # 0
    BY <1>1, <1>6, <1>7, <1>9, <2>1, NoPath
  <2>. QED  BY <1>4, <2>1, <2>2
<1>. QED  BY <1>8, <1>9

\* The result of SetLeaf.
IsSet(h, root, key, value, g) == g = SetLeaf(h, root, key, value)

LEMMA KeptMore ==
  ASSUME NEW h, NEW sz, NEW us, NEW g, NEW sz2, NEW us2, NEW X, Kept(h, sz, us, g, sz2, us2, X),
         NEW Y, \A p \in X : p \in Y
  PROVE  Kept(h, sz, us, g, sz2, us2, Y)
BY DEF Kept

\* The object ptr is on a free list in the heap g.
Released(h, sz, us, g, sz2, us2, ptr) ==
  /\ AInv(g, sz2, us2) /\ Kept(h, sz, us, g, sz2, us2, {ptr})
  /\ Pgm(g) = Pgm(h)
  /\ ptr \in DOMAIN us2 /\ us2[ptr] = "listed"

\* Nothing but words was written.
Steady(h, g) ==
  /\ Objs(g) = Objs(h) /\ Count(g) = Count(h) /\ Flm(g) = Flm(h)
  /\ Flm(h) # 0 => \A key \in Nat : LeavesOf(Mem(g), Flm(h), key) = LeavesOf(Mem(h), Flm(h), key)

LEMMA Push ==
  ASSUME NEW h, NEW sz, NEW us, AInv(h, sz, us), Flm(h) # 0, NEW key \in FreeSizes, key \in Keys,
         LeavesOf(Mem(h), Flm(h), key) # 0,
         NEW ptr \in DOMAIN us, us[ptr] \in UserUses, sz[ptr] = key,
         Mem(h)[ptr] = Get(Mem(h), Flm(h), key),
         NEW g, IsSet(h, Flm(h), key, ptr, g)
  PROVE  /\ \E us2 : Released(h, sz, us, g, sz, us2, ptr)
         /\ Steady(h, g)
<1>1. PICK f, m, l : f = Flm(h) /\ m = Mem(h) /\ l = LeavesOf(m, f, key)
  OBVIOUS
<1>2. /\ ArenaOK(h, sz, us) /\ Layout(sz, us) /\ FreeInv(m, f, sz, us) /\ h \in Heaps
      /\ Trie(m, sz, us, f, FreeUse) /\ key \in Nat /\ l # 0 /\ f # 0
  BY <1>1, KeyRange, FreeTrie
<1>3. ptr \in DOMAIN sz /\ ptr \in Nat \ {0} /\ DOMAIN us = DOMAIN sz
  BY <1>2 DEF Layout
<1>4. PICK x, y : x = l + L3Index(key) /\ y = l + L3_SIZE
  OBVIOUS
<1>5. PICK X : X = {x, y}
  OBVIOUS
<1>6. /\ l \in Of(us, FreeUse.leaf) /\ l \in DOMAIN sz
      /\ x \in Words(sz, l) /\ y \in Words(sz, l) /\ x # y
      /\ x \in DOMAIN Mem(h) /\ y \in DOMAIN Mem(h) /\ x < Cur(h) /\ y < Cur(h)
  <2>1. Trie(Mem(h), sz, us, f, FreeUse) /\ l = LeavesOf(Mem(h), f, key)
    BY <1>1, <1>2
  <2>2. /\ l \in Of(us, FreeUse.leaf) /\ l \in DOMAIN sz
        /\ l + L3Index(key) \in Words(sz, l) /\ l + L3_SIZE \in Words(sz, l)
        /\ l + L3Index(key) # l + L3_SIZE
        /\ l + L3Index(key) \in DOMAIN Mem(h) /\ l + L3_SIZE \in DOMAIN Mem(h)
        /\ l + L3Index(key) < Cur(h) /\ l + L3_SIZE < Cur(h)
    BY <1>2, <2>1, LeafWords
  <2>. QED  BY <1>4, <2>2
<1>7. Wrote(h, g, X) /\ Mem(g)[x] = ptr
  <2>1. l = LeavesOf(Mem(h), f, key) /\ x \in X /\ y \in X /\ g = SetLeaf(h, f, key, ptr)
    BY <1>1, <1>5 DEF IsSet
  <2>2. l + L3Index(key) \in X /\ l + L3_SIZE \in X /\ l + L3Index(key) \in DOMAIN Mem(h)
        /\ l + L3_SIZE \in DOMAIN Mem(h) /\ l + L3Index(key) # l + L3_SIZE
    BY <1>4, <1>6, <2>1
  <2>3. /\ Wrote(h, SetLeaf(h, f, key, ptr), X)
        /\ Mem(SetLeaf(h, f, key, ptr))[l + L3Index(key)] = ptr
    BY <1>2, <1>3, <2>1, <2>2, SetLeafFacts
  <2>. QED  BY <1>4, <2>1, <2>3
<1>8. \A q \in DOMAIN sz : q # l => \A a \in Words(sz, q) : Mem(g)[a] = m[a]
  <2>1. ASSUME NEW q \in DOMAIN sz, q # l, NEW a \in Words(sz, q) PROVE Mem(g)[a] = m[a]
    <3>1. a # x /\ a # y
      BY <1>2, <1>6, <2>1, OneOwner
    <3>2. a \in DOMAIN Mem(h)
      BY <1>2, PlacedMapped
    <3>. QED  BY <1>1, <1>5, <1>7, <3>1, <3>2 DEF Wrote
  <2>. QED  BY <2>1
<1>9. \A q \in DOMAIN sz : \A a \in Words(sz, q) : a \notin X => Mem(g)[a] = m[a]
  BY <1>1, <1>2, <1>7, PlacedMapped DEF Wrote
<1>10. PICK us2 : us2 = Add(us, ptr, "listed")
  OBVIOUS
<1>11. /\ DOMAIN us2 = DOMAIN sz /\ us2[ptr] = "listed" /\ ptr \in DOMAIN us2
       /\ \A q \in DOMAIN us : q # ptr => us2[q] = us[q]
  <2>1. DOMAIN us2 = DOMAIN us \cup {ptr} /\ us2[ptr] = "listed"
        /\ \A q \in DOMAIN us : q # ptr => us2[q] = us[q]
    BY <1>10 DEF Add
  <2>. QED  BY <1>3, <2>1
<1>12. \A u : \A q : q \in Of(us2, u) <=> IF q = ptr THEN u = "listed" ELSE q \in Of(us, u)
  BY <1>10, AddOf
<1>13. ArenaOK(g, sz, us2)
  <2>1. \A a \in X : a < Cur(h)
    BY <1>5, <1>6
  <2>. QED  BY <1>2, <1>7, <1>11, <2>1, SameArena
<1>14. us[ptr] # "listed" /\ us[ptr] \notin ArenaUses /\ ptr # l
  BY <1>6, UseSets DEF Of, Uses
<1>15. \A v \in Uses(FreeUse) : Of(us2, v) = Of(us, v)
  <2>1. ASSUME NEW v \in Uses(FreeUse) PROVE Of(us2, v) = Of(us, v)
    <3>1. v # "listed" /\ ptr \notin Of(us, v)
      BY <1>14, UseSets DEF Of
    <3>2. \A q : q \in Of(us2, v) <=> q \in Of(us, v)
      BY <1>12, <3>1
    <3>. QED  BY <3>2
  <2>. QED  BY <2>1
<1>16. SameTrie(m, sz, us, Mem(g), sz, us2, FreeUse, X)
  <2>1. \A v \in Uses(FreeUse) : \A q \in Of(us, v) : q \in DOMAIN sz
    BY <1>3 DEF Of
  <2>. QED  BY <1>9, <1>15, <2>1 DEF SameTrie
<1>17. /\ Trie(Mem(g), sz, us2, f, FreeUse)
       /\ \A k \in Nat : LeavesOf(Mem(g), f, k) = LeavesOf(m, f, k)
       /\ \A k \in Keys : Get(Mem(g), f, k) = IF k = key THEN ptr ELSE Get(m, f, k)
  <2>1. SameTrie(m, sz, us, Mem(g), sz, us2, FreeUse, {l + L3Index(key), l + L3_SIZE})
    BY <1>4, <1>5, <1>16
  <2>2. /\ Trie(Mem(g), sz, us2, f, FreeUse)
        /\ \A k \in Nat : LeavesOf(Mem(g), f, k) = LeavesOf(m, f, k)
        /\ \A k \in Keys :
             Get(Mem(g), f, k) = IF k = key THEN Mem(g)[l + L3Index(key)] ELSE Get(m, f, k)
    <3>1. l = LeavesOf(m, f, key)
      BY <1>1
    <3>. QED  BY <1>2, <2>1, <3>1, WriteLeaf
  <2>. QED  BY <1>4, <1>7, <2>2
<1>18. \A q : q \in Of(us2, "listed") <=> q \in Of(us, "listed") \/ q = ptr
  BY <1>12
<1>19. ASSUME NEW s \in Keys PROVE Chain(Mem(g), Get(Mem(g), f, s), ListedOf(sz, us2, s))
  <2>0. \A q \in ListedOf(sz, us2, s) : Mem(g)[q] = m[q]
    <3>1. ASSUME NEW q \in ListedOf(sz, us2, s) PROVE Mem(g)[q] = m[q]
      <4>1. q \in DOMAIN sz /\ us2[q] = "listed"
        BY <1>11 DEF ListedOf, Of
      <4>2. us2[l] = us[l] /\ us[l] # "listed"
        BY <1>3, <1>6, <1>11, <1>14, UseSets DEF Of
      <4>3. q # l /\ q \in Words(sz, q)
        BY <1>2, <4>1, <4>2, FirstWord
      <4>. QED  BY <1>8, <4>1, <4>3
    <3>. QED  BY <3>1
  <2>1. CASE s = key
    <3>1. ListedOf(sz, us2, s) = ListedOf(sz, us, s) \cup {ptr}
      <4>1. \A q : q \in ListedOf(sz, us2, s) <=> q \in ListedOf(sz, us, s) \/ q = ptr
        BY <1>18, <2>1 DEF ListedOf
      <4>. QED  BY <4>1
    <3>2. ptr \notin ListedOf(sz, us, s) /\ 0 \notin ListedOf(sz, us, s)
      <4>1. \A q \in ListedOf(sz, us, s) : q \in DOMAIN sz /\ us[q] = "listed"
        BY <1>3 DEF ListedOf, Of
      <4>. QED  BY <1>2, <1>14, <4>1 DEF Layout
    <3>3. Chain(m, m[ptr], ListedOf(sz, us, s))
      BY <1>1, <1>2, <2>1 DEF FreeInv
    <3>4. Chain(m, ptr, ListedOf(sz, us2, s))
      BY <3>1, <3>2, <3>3, ChainPush
    <3>5. Get(Mem(g), f, s) = ptr
      BY <1>17, <2>1
    <3>. QED  BY <2>0, <3>4, <3>5, ChainSame
  <2>2. CASE s # key
    <3>1. ListedOf(sz, us2, s) = ListedOf(sz, us, s)
      <4>1. \A q : q \in ListedOf(sz, us2, s) <=> q \in ListedOf(sz, us, s)
        BY <1>18, <2>2 DEF ListedOf
      <4>. QED  BY <4>1
    <3>2. Chain(m, Get(m, f, s), ListedOf(sz, us2, s))
      BY <1>2, <3>1 DEF FreeInv
    <3>3. Get(Mem(g), f, s) = Get(m, f, s)
      BY <1>17, <2>2
    <3>. QED  BY <2>0, <3>2, <3>3, ChainSame
  <2>. QED  BY <2>1, <2>2
<1>20. AInv(g, sz, us2)
  <2>1. \A q \in DOMAIN us2 : us2[q] \in UserUses \cup ArenaUses
    BY <1>2, <1>3, <1>11, UseSets DEF FreeInv
  <2>2. \A q \in Of(us2, "listed") : sz[q] \in FreeSizes
    BY <1>2, <1>18 DEF FreeInv
  <2>3. FreeInv(Mem(g), f, sz, us2)
    BY <1>2, <1>17, <1>19, <2>1, <2>2 DEF FreeInv
  <2>. QED  BY <1>1, <1>7, <1>13, <2>3 DEF AInv, Wrote
<1>21. Kept(h, sz, us, g, sz, us2, {ptr})
  <2>1. ASSUME NEW u \in UserUses, NEW p, p # ptr PROVE p \in Of(us2, u) <=> p \in Of(us, u)
    BY <1>12, <2>1
  <2>2. ASSUME NEW p \in DOMAIN us, us[p] \in UserUses
        PROVE  sz[p] = sz[p] /\ \A a \in Words(sz, p) : Mem(g)[a] = Mem(h)[a]
    <3>1. p # l
      BY <1>6, <2>2, UseSets DEF Of, Uses
    <3>. QED  BY <1>1, <1>3, <1>8, <3>1
  <2>. QED  BY <2>1, <2>2 DEF Kept
<1>22. Released(h, sz, us, g, sz, us2, ptr)
  BY <1>7, <1>11, <1>20, <1>21 DEF Released, Wrote
<1>23. Steady(h, g)
  BY <1>1, <1>7, <1>17 DEF Steady, Wrote
<1>. QED  BY <1>22, <1>23

\* Users may write to their objects.
UserWrite(h, sz, us, g, p) ==
  /\ AInv(g, sz, us) /\ Steady(h, g) /\ Pgm(g) = Pgm(h)
  /\ Flm(h) # 0 => \A key \in Nat : Get(Mem(g), Flm(h), key) = Get(Mem(h), Flm(h), key)
  /\ \A q \in DOMAIN sz : q # p => \A a \in Words(sz, q) : Mem(g)[a] = Mem(h)[a]
  /\ Kept(h, sz, us, g, sz, us, {p})

LEMMA UserWrites ==
  ASSUME NEW h, NEW sz, NEW us, AInv(h, sz, us), NEW p \in DOMAIN us, us[p] \in UserUses,
         NEW g, NEW X, Wrote(h, g, X), \A a \in X : a \in Words(sz, p)
  PROVE  UserWrite(h, sz, us, g, p)
<1>1. /\ ArenaOK(h, sz, us) /\ Layout(sz, us) /\ FreeInv(Mem(h), Flm(h), sz, us)
      /\ h \in Heaps /\ DOMAIN us = DOMAIN sz
  BY DEF AInv, ArenaOK, Layout
<1>2. ASSUME NEW q \in DOMAIN sz, q # p, NEW a \in Words(sz, q) PROVE Mem(g)[a] = Mem(h)[a]
  <2>1. a \notin X
    BY <1>1, <1>2, OneOwner
  <2>2. a \in DOMAIN Mem(h)
    BY <1>1, PlacedMapped
  <2>. QED  BY <2>1, <2>2 DEF Wrote
<1>3. ArenaOK(g, sz, us)
  <2>1. \A a \in X : a < Cur(h)
    BY <1>1, PlacedMapped
  <2>. QED  BY <1>1, <2>1, SameArena
<1>4. SameOwn(Mem(h), sz, us, Mem(g), sz, us)
  <2>1. ASSUME NEW u \in ArenaUses, NEW q \in Of(us, u) PROVE q \in DOMAIN sz /\ q # p
    BY <1>1, UseSets DEF Of
  <2>. QED  BY <1>2, <2>1 DEF SameOwn
<1>5. PICK m, m2, f : m = Mem(h) /\ m2 = Mem(g) /\ f = Flm(h)
  OBVIOUS
<1>6. /\ FreeInv(m2, f, sz, us)
      /\ f # 0 => \A key \in Nat : /\ LeavesOf(m2, f, key) = LeavesOf(m, f, key)
                                   /\ Get(m2, f, key) = Get(m, f, key)
  <2>1. FreeInv(m, f, sz, us) /\ SameOwn(m, sz, us, m2, sz, us)
        /\ \A q \in DOMAIN us : us[q] \in UserUses \cup ArenaUses
    BY <1>1, <1>4, <1>5 DEF FreeInv
  <2>. QED  BY <1>1, <2>1, FreeSame
<1>7. Flm(g) = Flm(h) /\ Pgm(g) = Pgm(h) /\ Objs(g) = Objs(h) /\ Count(g) = Count(h)
  BY DEF Wrote
<1>8. AInv(g, sz, us)
  BY <1>3, <1>5, <1>6, <1>7 DEF AInv
<1>9. Kept(h, sz, us, g, sz, us, {p})
  BY <1>1, <1>2 DEF Kept
<1>. QED  BY <1>2, <1>5, <1>6, <1>7, <1>8, <1>9 DEF UserWrite, Steady

\* The result of putting an object on its list.
IsPut(h, ptr, size, g) == g = PutOnList(h, ptr, size)

LEMMA KeptUse ==
  ASSUME NEW h, NEW sz, NEW us, NEW g, NEW sz2, NEW us2, NEW X, Kept(h, sz, us, g, sz2, us2, X),
         NEW p \in DOMAIN us, us[p] \in UserUses, p \notin X
  PROVE  /\ p \in DOMAIN us2 /\ us2[p] = us[p] /\ sz2[p] = sz[p] /\ Words(sz2, p) = Words(sz, p)
         /\ \A a \in Words(sz, p) : Mem(g)[a] = Mem(h)[a]
<1>1. p \in Of(us, us[p])
  BY DEF Of
<1>2. p \in Of(us2, us[p])
  BY <1>1 DEF Kept
<1>. QED  BY <1>2 DEF Of, Kept, Words

LEMMA SizesOfLists ==
  ASSUME NEW size \in FreeSizes
  PROVE  size \in Keys /\ size \in ObjectSizes
BY Constants DEF FreeSizes, ObjectSizes

LEMMA Listing ==
  ASSUME NEW h, NEW sz, NEW us, AInv(h, sz, us), Flm(h) # 0, NEW size \in FreeSizes,
         NEW ptr \in DOMAIN us, us[ptr] \in UserUses, sz[ptr] = size,
         NEW g, IsPut(h, ptr, size, g)
  PROVE  /\ \E sz2, us2 : Released(h, sz, us, g, sz2, us2, ptr)
         /\ LeavesOf(Mem(h), Flm(h), size) # 0 => Steady(h, g)
<1>1. /\ ArenaOK(h, sz, us) /\ Layout(sz, us) /\ h \in Heaps /\ size \in Keys /\ size \in Nat
      /\ Trie(Mem(h), sz, us, Flm(h), FreeUse) /\ DOMAIN us = DOMAIN sz
  BY FreeTrie, SizesOfLists, KeyRange DEF Layout
<1>2. ptr \in Words(sz, ptr) /\ ptr \in DOMAIN Mem(h)
  <2>1. ptr \in Words(sz, ptr)
    BY <1>1, FirstWord
  <2>. QED  BY <1>1, <2>1, PlacedMapped
<1>3. PICK next \in Nat : next = Get(Mem(h), Flm(h), size)
  <2>1. CASE LeavesOf(Mem(h), Flm(h), size) = 0
    BY <2>1, NoPath
  <2>2. CASE LeavesOf(Mem(h), Flm(h), size) # 0
    <3>1. PICK l : l = LeavesOf(Mem(h), Flm(h), size)
      OBVIOUS
    <3>2. l + L3Index(size) \in DOMAIN Mem(h)
      BY <1>1, <2>2, <3>1, LeafWords
    <3>3. Get(Mem(h), Flm(h), size) = Mem(h)[l + L3Index(size)]
      BY <2>2, <3>1 DEF Get, NULL
    <3>. QED  BY <1>1, <3>2, <3>3, WordType
  <2>. QED  BY <2>1, <2>2
<1>4. PICK k : k = Write1(h, ptr, next)
  OBVIOUS
<1>5. PICK X : X = {ptr}
  OBVIOUS
<1>6. Wrote(h, k, X) /\ Mem(k)[ptr] = next
  <2>1. ptr \in X
    BY <1>5
  <2>. QED  BY <1>1, <1>2, <1>4, <2>1, WriteWord
<1>7. UserWrite(h, sz, us, k, ptr)
  <2>1. \A a \in X : a \in Words(sz, ptr)
    BY <1>2, <1>5
  <2>. QED  BY <1>6, <2>1, UserWrites
<1>8. /\ AInv(k, sz, us) /\ Steady(h, k) /\ Pgm(k) = Pgm(h) /\ Flm(k) = Flm(h)
      /\ Get(Mem(k), Flm(h), size) = next
      /\ Kept(h, sz, us, k, sz, us, {ptr})
  BY <1>1, <1>3, <1>7 DEF UserWrite, Steady
<1>9. PICK d : IsPath(k, Flm(k), size, d) /\ Map(k, Flm(k), ptr, size) = SetLeaf(d, Flm(k), size, ptr)
  BY MapSteps
<1>10. IsSet(d, Flm(h), size, ptr, g)
  <2>1. PutOnList(h, ptr, size) = Map(k, Flm(h), ptr, size)
    BY <1>3, <1>4 DEF PutOnList, Write1, Mem, Flm
  <2>. QED  BY <1>8, <1>9, <2>1 DEF IsPut, IsSet
<1>11. PICK sz1, us1 : FreeStep(k, sz, us, d, sz1, us1, size)
  BY <1>1, <1>8, <1>9, FreePath
<1>12. LeavesOf(Mem(d), Flm(h), size) # 0
  BY <1>1, <1>8, <1>9, FreePath
<1>13. /\ AInv(d, sz1, us1) /\ Kept(k, sz, us, d, sz1, us1, {}) /\ Pgm(d) = Pgm(h)
       /\ Flm(d) = Flm(h) /\ Get(Mem(d), Flm(h), size) = next
  BY <1>8, <1>11 DEF FreeStep
<1>14. /\ ptr \in DOMAIN us1 /\ us1[ptr] \in UserUses /\ sz1[ptr] = size
       /\ Mem(d)[ptr] = next
  BY <1>2, <1>6, <1>13, KeptUse
<1>15. (\E us2 : Released(d, sz1, us1, g, sz1, us2, ptr)) /\ Steady(d, g)
  <2>1. AInv(d, sz1, us1) /\ Flm(d) # 0 /\ LeavesOf(Mem(d), Flm(d), size) # 0
        /\ Mem(d)[ptr] = Get(Mem(d), Flm(d), size) /\ IsSet(d, Flm(d), size, ptr, g)
    BY <1>10, <1>12, <1>13, <1>14
  <2>. QED  BY <1>1, <1>14, <2>1, Push
<1>16. PICK us2 : Released(d, sz1, us1, g, sz1, us2, ptr)
  BY <1>15
<1>17. Released(h, sz, us, g, sz1, us2, ptr)
  <2>1. Kept(h, sz, us, k, sz, us, X) /\ Kept(d, sz1, us1, g, sz1, us2, X)
    BY <1>5, <1>8, <1>16 DEF Released
  <2>2. Kept(k, sz, us, d, sz1, us1, X)
    BY <1>13, KeptMore
  <2>3. Kept(h, sz, us, d, sz1, us1, X)
    BY <2>1, <2>2, KeptTwice
  <2>4. Kept(h, sz, us, g, sz1, us2, X)
    BY <2>1, <2>3, KeptTwice
  <2>. QED  BY <1>5, <1>13, <1>16, <2>4 DEF Released
<1>18. ASSUME LeavesOf(Mem(h), Flm(h), size) # 0 PROVE Steady(h, g)
  <2>1. LeavesOf(Mem(k), Flm(k), size) # 0
    BY <1>1, <1>8, <1>18 DEF Steady
  <2>2. d = k
    <3>1. PICK c, slot, node : /\ slot = Flm(k) + L1Index(size) /\ IsWith(k, slot, NodeSize, c)
                               /\ node = Mem(c)[slot] /\ d = WithLeafNode(c, node, size)
      BY <1>9 DEF IsPath
    <3>2. Mem(k)[slot] # 0
      BY <2>1, <3>1, NoPath
    <3>3. c = k
      BY <3>1, <3>2 DEF IsWith, WithNode, Mem, NULL
    <3>4. Mem(k)[node + L2Index(size)] # 0
      BY <2>1, <3>1, <3>2, <3>3, NoPath
    <3>. QED  BY <3>1, <3>3, <3>4 DEF WithLeafNode, Mem, NULL
  <2>. QED  BY <1>8, <1>15, <2>2 DEF Steady
<1>. QED  BY <1>17, <1>18

\* The same heap with another root.
PutFlm(h, f) == [h EXCEPT !.free_list_map = f]
PutPgm(h, f) == [h EXCEPT !.page_map = f]

Moved(h, g) ==
  /\ g \in Heaps /\ Mem(g) = Mem(h) /\ Cur(g) = Cur(h) /\ End(g) = End(h)
  /\ Count(g) = Count(h) /\ Objs(g) = Objs(h)

LEMMA NewRoot ==
  ASSUME NEW h \in Heaps, NEW f \in Nat
  PROVE  /\ Moved(h, PutFlm(h, f)) /\ Pgm(PutFlm(h, f)) = Pgm(h) /\ Flm(PutFlm(h, f)) = f
         /\ Moved(h, PutPgm(h, f)) /\ Pgm(PutPgm(h, f)) = f /\ Flm(PutPgm(h, f)) = Flm(h)
BY DEF Moved, PutFlm, PutPgm, Heaps, Mem, Cur, End, Count, Pgm, Flm, Objs

\* Roots and uses are nothing to the arena.
LEMMA ArenaUsed ==
  ASSUME NEW h, NEW sz, NEW us, ArenaOK(h, sz, us), NEW us2, DOMAIN us2 = DOMAIN us,
         NEW g, Moved(h, g)
  PROVE  ArenaOK(g, sz, us2)
BY DEF Moved, ArenaOK, Layout, Chunked, Placed

\* Nothing is found.
AllNull(m, r) == \A key \in Nat : LeavesOf(m, r, key) = 0 /\ Get(m, r, key) = 0

\* A trie without nodes.
LEMMA EmptyTrie ==
  ASSUME NEW m, NEW sz, NEW us, NEW r, NEW k,
         \A p : p \in Of(us, k.root) <=> p = r, sz[r] = RootSize,
         Of(us, k.node) = {}, Of(us, k.leaf) = {}, r \in Nat, \A a \in Slots(r, L1_SIZE) : m[a] = 0
  PROVE  Trie(m, sz, us, r, k) /\ AllNull(m, r)
<1>1. Of(us, k.root) = {r}
  OBVIOUS
<1>2. NodeSlotsIn(us, k) = {}
  BY DEF NodeSlotsIn
<1>3. Links(m, Slots(r, L1_SIZE), {}) /\ Links(m, {}, {})
  BY DEF Links
<1>4. ASSUME NEW key \in Nat PROVE LeavesOf(m, r, key) = 0 /\ Get(m, r, key) = 0
  <2>1. PICK i \in 0 .. L1_SIZE - 1 : i = L1Index(key)
    BY IndexRange
  <2>2. r + i \in Slots(r, L1_SIZE)
    BY Constants DEF Slots
  <2>. QED  BY <2>1, <2>2, NoPath
<1>. QED  BY <1>1, <1>2, <1>3, <1>4 DEF Trie, AllNull

IsWithFlm(h, g) == g = WithFreeListMap(h)

LEMMA FreeRoot ==
  ASSUME NEW h, NEW sz, NEW us, AInv(h, sz, us), Flm(h) = 0, NEW g, IsWithFlm(h, g)
  PROVE  \E sz2, us2 : /\ AInv(g, sz2, us2) /\ Kept(h, sz, us, g, sz2, us2, {})
                       /\ Pgm(g) = Pgm(h) /\ Flm(g) # 0
<1>1. PICK h1, n : IsAlloc(h, RootSize, h1, n)
  BY DEF IsAlloc
<1>2. Allocated(h, sz, us, h1, n, RootSize, "span")
  <2>1. RootSize \in ObjectSizes /\ "span" \in UserUses
    BY DEF ObjectSizes, UserUses
  <2>. QED  BY <1>1, <2>1, AllocOK
<1>3. "free_root" \in UserUses \cup ArenaUses /\ "free_root" # "listed"
  BY DEF ArenaUses
<1>4. PICK sz1, us1, us2 : Owns(h, sz, us, h1, n, RootSize, "free_root", sz1, us1, us2)
  BY <1>2, <1>3 DEF Owns
<1>5. Owned(h, sz, us, h1, n, RootSize, "free_root", sz1, us1, us2)
  BY <1>4, OwnObject
<1>6. /\ AInv(h1, sz1, us1) /\ DOMAIN us2 = DOMAIN us1 /\ n \in DOMAIN sz1 /\ sz1[n] = RootSize
      /\ \A u : \A p : p \in Of(us2, u) <=> IF p = n THEN u = "free_root" ELSE p \in Of(us1, u)
      /\ \A u : \A p : p \in Of(us1, u) <=> IF p = n THEN u = "span" ELSE p \in Of(us, u)
      /\ \A p \in DOMAIN us2 : us2[p] \in UserUses \cup ArenaUses
      /\ \A p \in DOMAIN sz : p # n => p \in DOMAIN sz1 /\ sz1[p] = sz[p]
      /\ Layout(sz, us)
  BY <1>5 DEF Owned
<1>7. /\ n \in Nat \ {0} /\ (n \in DOMAIN us => us[n] = "listed")
      /\ Pgm(h1) = Pgm(h) /\ \A a \in Slots(n, RootSize) : Mem(h1)[a] = 0
      /\ \A p \in DOMAIN us : us[p] # "free_leaf" => \A a \in Words(sz, p) : Mem(h1)[a] = Mem(h)[a]
  BY <1>4 DEF Owns, Allocated
<1>8. \A p \in DOMAIN us : us[p] \in UserUses
  BY DEF AInv, FreeInv
<1>9. n \notin DOMAIN us
  BY <1>7, <1>8, UseSets
<1>10. g = PutFlm(h1, n)
  BY <1>1 DEF IsWithFlm, WithFreeListMap, IsAlloc, PutFlm, Flm, NULL
<1>11. h1 \in Heaps /\ ArenaOK(h1, sz1, us1)
  BY <1>6 DEF AInv, ArenaOK
<1>12. Moved(h1, g) /\ Mem(g) = Mem(h1) /\ Pgm(g) = Pgm(h) /\ Flm(g) = n
  BY <1>7, <1>10, <1>11, NewRoot DEF Moved
<1>13. ArenaOK(g, sz1, us2)
  BY <1>6, <1>11, <1>12, ArenaUsed
<1>14. ASSUME NEW u \in ArenaUses PROVE \A p : p \in Of(us2, u) <=> u = "free_root" /\ p = n
  <2>1. \A p : p \notin Of(us, u)
    BY <1>8, <1>14, UseSets DEF Of
  <2>2. u # "span"
    BY <1>14, UseSets DEF UserUses
  <2>. QED  BY <1>6, <2>1, <2>2
<1>15. /\ \A p : p \in Of(us2, FreeUse.root) <=> p = n
       /\ Of(us2, FreeUse.node) = {} /\ Of(us2, FreeUse.leaf) = {} /\ Of(us2, "listed") = {}
  <2>1. \A p : p \notin Of(us2, "free_node") /\ p \notin Of(us2, "free_leaf") /\ p \notin Of(us2, "listed")
    BY <1>14 DEF ArenaUses
  <2>2. \A p : p \in Of(us2, "free_root") <=> p = n
    BY <1>14 DEF ArenaUses
  <2>. QED  BY <2>1, <2>2, UseSets
<1>16. /\ Trie(Mem(g), sz1, us2, n, FreeUse)
       /\ AllNull(Mem(g), n)
  <2>1. \A a \in Slots(n, L1_SIZE) : Mem(g)[a] = 0
    BY <1>7, <1>12 DEF RootSize
  <2>2. PICK m, k : m = Mem(g) /\ k = FreeUse
    OBVIOUS
  <2>3. /\ \A p : p \in Of(us2, k.root) <=> p = n
        /\ sz1[n] = RootSize /\ Of(us2, k.node) = {} /\ Of(us2, k.leaf) = {}
        /\ n \in Nat /\ \A a \in Slots(n, L1_SIZE) : m[a] = 0
    BY <1>6, <1>7, <1>15, <2>1, <2>2
  <2>4. Trie(m, sz1, us2, n, k) /\ AllNull(m, n)
    BY <2>3, EmptyTrie
  <2>. QED  BY <2>2, <2>4
<1>17. FreeInv(Mem(g), n, sz1, us2)
  <2>1. ASSUME NEW s \in Keys PROVE Chain(Mem(g), Get(Mem(g), n, s), ListedOf(sz1, us2, s))
    <3>1. ListedOf(sz1, us2, s) = {}
      BY <1>15 DEF ListedOf
    <3>2. Get(Mem(g), n, s) = 0
      BY <1>16, KeyRange DEF AllNull
    <3>. QED  BY <3>1, <3>2, ChainEmpty
  <2>. QED  BY <1>6, <1>7, <1>15, <1>16, <2>1 DEF FreeInv
<1>18. AInv(g, sz1, us2)
  BY <1>12, <1>13, <1>17 DEF AInv
<1>19. Kept(h, sz, us, g, sz1, us2, {})
  <2>1. ASSUME NEW u \in UserUses, NEW p PROVE p \in Of(us2, u) <=> p \in Of(us, u)
    <3>1. u # "free_root"
      BY <2>1 DEF UserUses
    <3>2. n \notin Of(us, u)
      BY <1>9 DEF Of
    <3>. QED  BY <1>6, <3>1, <3>2
  <2>2. ASSUME NEW p \in DOMAIN us
        PROVE  sz1[p] = sz[p] /\ \A a \in Words(sz, p) : Mem(g)[a] = Mem(h)[a]
    <3>1. p # n /\ p \in DOMAIN sz /\ us[p] # "free_leaf"
      BY <1>6, <1>8, <1>9, UseSets DEF Layout, UserUses
    <3>. QED  BY <1>6, <1>7, <1>12, <3>1
  <2>. QED  BY <2>1, <2>2 DEF Kept
<1>. QED  BY <1>7, <1>12, <1>18, <1>19

\* The result of cmalloc_free_metadata.
IsFree(h, ptr, size, g) == g = FreeMetadata(h, ptr, size)

LEMMA FreeOK ==
  ASSUME NEW h, NEW sz, NEW us, AInv(h, sz, us), NEW size \in FreeSizes,
         NEW ptr \in DOMAIN us, us[ptr] \in UserUses, sz[ptr] = size,
         NEW g, IsFree(h, ptr, size, g)
  PROVE  /\ \E sz2, us2 : Released(h, sz, us, g, sz2, us2, ptr)
         /\ Flm(h) # 0 /\ LeavesOf(Mem(h), Flm(h), size) # 0 => Steady(h, g)
<1>1. PICK k : IsWithFlm(h, k) /\ IsPut(k, ptr, size, g)
  BY DEF IsFree, FreeMetadata, IsPut, IsWithFlm
<1>2. CASE Flm(h) # 0
  <2>1. k = h
    BY <1>1, <1>2 DEF IsWithFlm, WithFreeListMap, Flm, NULL
  <2>2. /\ \E sz2, us2 : Released(h, sz, us, g, sz2, us2, ptr)
        /\ LeavesOf(Mem(h), Flm(h), size) # 0 => Steady(h, g)
    BY <1>1, <1>2, <2>1, Listing
  <2>. QED  BY <1>2, <2>2
<1>3. CASE Flm(h) = 0
  <2>1. PICK sz1, us1 : /\ AInv(k, sz1, us1) /\ Kept(h, sz, us, k, sz1, us1, {})
                        /\ Pgm(k) = Pgm(h) /\ Flm(k) # 0
    BY <1>1, <1>3, FreeRoot
  <2>2. ptr \in DOMAIN us1 /\ us1[ptr] \in UserUses /\ sz1[ptr] = size
    BY <2>1, KeptUse
  <2>3. PICK sz2, us2 : Released(k, sz1, us1, g, sz2, us2, ptr)
    BY <1>1, <2>1, <2>2, Listing
  <2>4. PICK X : X = {ptr}
    OBVIOUS
  <2>5. Kept(h, sz, us, k, sz1, us1, X) /\ Kept(k, sz1, us1, g, sz2, us2, X)
    BY <2>1, <2>3, <2>4, KeptMore DEF Released
  <2>6. Kept(h, sz, us, g, sz2, us2, X)
    BY <2>5, KeptTwice
  <2>7. Released(h, sz, us, g, sz2, us2, ptr)
    BY <2>1, <2>3, <2>4, <2>6 DEF Released
  <2>. QED  BY <1>3, <2>7
<1>. QED  BY <1>2, <1>3

-----------------------------------------------------------------------------
(* The page map                                                            *)

\* The nodes S of n slots count their entries, and but for E have some.
Counts(m, S, n, E) ==
  \A p \in S : Counted(m, p, n) /\ (p \notin E => Used(m, p, n) # {})

\* Its trie, perhaps with empty nodes in E.
PageOK(m, r, sz, us, E) ==
  /\ r = 0 => \A p \in DOMAIN us : us[p] \notin Uses(PageUse)
  /\ r # 0 => /\ Trie(m, sz, us, r, PageUse)
              /\ Counts(m, Of(us, PageUse.node), L2_SIZE, E)
              /\ Counts(m, Of(us, PageUse.leaf), L3_SIZE, E)

\* What is found in it.
Found(h, key) == IF Pgm(h) = 0 THEN 0 ELSE Get(Mem(h), Pgm(h), key)

HInv(h, sz, us, E) ==
  /\ AInv(h, sz, us) /\ PageOK(Mem(h), Pgm(h), sz, us, E)
  /\ Pgm(h) = 0 => Flm(h) = 0
  /\ \A p \in Of(us, "span") : sz[p] = SpanSize
  /\ \A p \in Of(us, "chunk") : sz[p] = DataChunkSize

LEMMA CountsMore ==
  ASSUME NEW m, NEW S, NEW n, NEW E, Counts(m, S, n, E), NEW F, \A p \in E : p \in F
  PROVE  Counts(m, S, n, F)
BY DEF Counts

LEMMA PageMore ==
  ASSUME NEW m, NEW r, NEW sz, NEW us, NEW E, PageOK(m, r, sz, us, E),
         NEW F, \A p \in E : p \in F
  PROVE  PageOK(m, r, sz, us, F)
BY CountsMore DEF PageOK

LEMMA CountsSame ==
  ASSUME NEW m, NEW S, NEW n \in Nat, NEW E, Counts(m, S, n, E), NEW m2,
         \A p \in S : /\ p \in Nat /\ m2[p + n] = m[p + n]
                      /\ \A a \in Slots(p, n) : m2[a] = m[a]
  PROVE  Counts(m2, S, n, E)
BY CountSame DEF Counts, Counted

\* An empty node more, which is to be filled.
LEMMA CountsNew ==
  ASSUME NEW m, NEW S, NEW n \in Nat, NEW E, Counts(m, S, n, E),
         NEW x \in Nat, m[x + n] = 0, \A a \in Slots(x, n) : m[a] = 0,
         NEW T, \A p \in T : p \in S \/ p = x, NEW F, x \in F, \A p \in E : p \in F
  PROVE  Counts(m, T, n, F)
<1>1. Used(m, x, n) = {}
  BY DEF Used
<1>2. Counted(m, x, n)
  BY <1>1, FS_EmptySet DEF Counted
<1>. QED  BY <1>2 DEF Counts

\* A slot is filled and counted.
LEMMA CountsFill ==
  ASSUME NEW m, NEW S, NEW n \in Nat, NEW E, Counts(m, S, n, E), NEW m2,
         NEW x \in S, NEW slot \in Slots(x, n), m[slot] = 0, m2[slot] # 0,
         m2[x + n] = m[x + n] + 1, \A a \in Slots(x, n) : a # slot => m2[a] = m[a],
         \A p \in S : /\ p \in Nat
                      /\ p # x => m2[p + n] = m[p + n] /\ \A a \in Slots(p, n) : m2[a] = m[a],
         NEW F, \A p \in E : p \in F \/ p = x
  PROVE  Counts(m2, S, n, F)
<1>1. Counted(m2, x, n)
  BY CountFill DEF Counted, Counts
<1>2. Used(m2, x, n) # {}
  BY DEF Used
<1>3. ASSUME NEW p \in S, p # x
      PROVE  Counted(m2, p, n) /\ (p \notin F => Used(m2, p, n) # {})
  <2>1. Used(m2, p, n) = Used(m, p, n)
    BY <1>3, CountSame
  <2>. QED  BY <1>3, <2>1 DEF Counted, Counts
<1>. QED  BY <1>1, <1>2, <1>3 DEF Counts

\* A slot is cleared and no longer counted.
LEMMA CountsClear ==
  ASSUME NEW m, NEW S, NEW n \in Nat, NEW E, Counts(m, S, n, E), NEW m2,
         NEW x \in S, NEW slot \in Slots(x, n), m[slot] # 0, m2[slot] = 0,
         m2[x + n] = m[x + n] - 1, \A a \in Slots(x, n) : a # slot => m2[a] = m[a],
         \A p \in S : /\ p \in Nat
                      /\ p # x => m2[p + n] = m[p + n] /\ \A a \in Slots(p, n) : m2[a] = m[a],
         NEW F, x \in F, \A p \in E : p \in F
  PROVE  Counts(m2, S, n, F)
<1>1. Counted(m2, x, n)
  BY CountClear DEF Counted, Counts
<1>3. ASSUME NEW p \in S, p # x
      PROVE  Counted(m2, p, n) /\ (p \notin F => Used(m2, p, n) # {})
  <2>1. Used(m2, p, n) = Used(m, p, n)
    BY <1>3, CountSame
  <2>. QED  BY <1>3, <2>1 DEF Counted, Counts
<1>. QED  BY <1>1, <1>3 DEF Counts

\* A node whose count is not zero is not empty, the others are.
LEMMA CountsFull ==
  ASSUME NEW m, NEW S, NEW n \in Nat, NEW x \in S, x \in Nat, Counts(m, S, n, {x})
  PROVE  /\ m[x + n] # 0 => Counts(m, S, n, {})
         /\ m[x + n] = 0 => \A a \in Slots(x, n) : m[a] = 0
<1>1. m[x + n] = Cardinality(Used(m, x, n))
  BY DEF Counts, Counted
<1>2. m[x + n] = 0 <=> Used(m, x, n) = {}
  BY <1>1, UsedFinite
<1>. QED  BY <1>2 DEF Counts, Used

\* The page map is as it was if its objects are.
LEMMA PageSame ==
  ASSUME NEW m, NEW r, NEW sz, NEW us, NEW E, Layout(sz, us), PageOK(m, r, sz, us, E),
         NEW m2, NEW sz2, NEW us2, SameTrie(m, sz, us, m2, sz2, us2, PageUse, {})
  PROVE  /\ PageOK(m2, r, sz2, us2, E)
         /\ r # 0 => \A key \in Nat : /\ LeavesOf(m2, r, key) = LeavesOf(m, r, key)
                                      /\ Get(m2, r, key) = Get(m, r, key)
<1>1. CASE r = 0
  <2>1. ASSUME NEW p \in DOMAIN us2, us2[p] \in Uses(PageUse) PROVE FALSE
    <3>1. p \in Of(us, us2[p])
      BY <2>1 DEF SameTrie, Of
    <3>. QED  BY <1>1, <2>1, <3>1 DEF PageOK, Of
  <2>. QED  BY <1>1, <2>1 DEF PageOK
<1>2. CASE r # 0
  <2>1. Trie(m, sz, us, r, PageUse)
    BY <1>2 DEF PageOK
  <2>2. /\ Trie(m2, sz2, us2, r, PageUse)
        /\ \A key \in Nat : /\ LeavesOf(m2, r, key) = LeavesOf(m, r, key)
                            /\ Get(m2, r, key) = Get(m, r, key)
    BY <2>1, TrieSame
  <2>3. PageUse.node \in Uses(PageUse) /\ PageUse.leaf \in Uses(PageUse)
    BY KindNames
  <2>4. /\ Of(us2, PageUse.node) = Of(us, PageUse.node)
        /\ Of(us2, PageUse.leaf) = Of(us, PageUse.leaf)
        /\ \A p \in Of(us, PageUse.node) : \A a \in Words(sz, p) : m2[a] = m[a]
        /\ \A p \in Of(us, PageUse.leaf) : \A a \in Words(sz, p) : m2[a] = m[a]
    BY <2>3 DEF SameTrie
  <2>5. Counts(m2, Of(us, PageUse.node), L2_SIZE, E)
    <3>1. \A p \in Of(us, PageUse.node) : /\ p \in Nat /\ m2[p + L2_SIZE] = m[p + L2_SIZE]
                                          /\ \A a \in Slots(p, L2_SIZE) : m2[a] = m[a]
      BY <2>1, <2>4, TrieWords
    <3>. QED  BY <1>2, <3>1, CountsSame, Constants DEF PageOK
  <2>6. Counts(m2, Of(us, PageUse.leaf), L3_SIZE, E)
    <3>1. \A p \in Of(us, PageUse.leaf) : /\ p \in Nat /\ m2[p + L3_SIZE] = m[p + L3_SIZE]
                                          /\ \A a \in Slots(p, L3_SIZE) : m2[a] = m[a]
      BY <2>1, <2>4, TrieWords
    <3>. QED  BY <1>2, <3>1, CountsSame, Constants DEF PageOK
  <2>. QED  BY <1>2, <2>2, <2>4, <2>5, <2>6 DEF PageOK
<1>. QED  BY <1>1, <1>2

\* The object x is no part of the page map.
NoPage(us, x) == \A u \in Uses(PageUse) : x \notin Of(us, u)

LEMMA KeptPage ==
  ASSUME NEW h, NEW sz, NEW us, NEW g, NEW sz2, NEW us2, NEW X, Kept(h, sz, us, g, sz2, us2, X),
         \A x \in X : NoPage(us, x) /\ NoPage(us2, x)
  PROVE  SameTrie(Mem(h), sz, us, Mem(g), sz2, us2, PageUse, {})
<1>1. ASSUME NEW u \in Uses(PageUse) PROVE Of(us2, u) = Of(us, u)
  <2>1. \A p : p \in Of(us2, u) <=> p \in Of(us, u)
    BY <1>1, UseSets DEF Kept, NoPage
  <2>. QED  BY <2>1
<1>2. ASSUME NEW u \in Uses(PageUse), NEW p \in Of(us, u)
      PROVE  sz2[p] = sz[p] /\ \A a \in Words(sz, p) : Mem(g)[a] = Mem(h)[a]
  <2>1. p \notin X /\ p \in DOMAIN us /\ us[p] \in UserUses
    BY <1>2, UseSets DEF NoPage, Of
  <2>. QED  BY <2>1 DEF Kept
<1>. QED  BY <1>1, <1>2 DEF SameTrie

\* What is found is the same.
SameFound(h, g) ==
  /\ Pgm(g) = Pgm(h)
  /\ \A key \in Keys : Found(g, key) = Found(h, key)

LEMMA HKept ==
  ASSUME NEW h, NEW sz, NEW us, NEW E, HInv(h, sz, us, E),
         NEW g, NEW sz2, NEW us2, AInv(g, sz2, us2),
         NEW x, Kept(h, sz, us, g, sz2, us2, {x}), NoPage(us, x), NoPage(us2, x),
         Pgm(g) = Pgm(h), Pgm(h) # 0,
         x \in Of(us2, "span") => sz2[x] = SpanSize,
         x \in Of(us2, "chunk") => sz2[x] = DataChunkSize
  PROVE  HInv(g, sz2, us2, E) /\ SameFound(h, g)
<1>1. SameTrie(Mem(h), sz, us, Mem(g), sz2, us2, PageUse, {})
  BY KeptPage
<1>2. Layout(sz, us) /\ PageOK(Mem(h), Pgm(h), sz, us, E)
  BY DEF HInv, AInv, ArenaOK
<1>3. PICK m, m2, r : m = Mem(h) /\ m2 = Mem(g) /\ r = Pgm(h)
  OBVIOUS
<1>4. /\ PageOK(m2, r, sz2, us2, E)
      /\ r # 0 => \A key \in Nat : Get(m2, r, key) = Get(m, r, key)
  BY <1>1, <1>2, <1>3, PageSame
<1>5. SameFound(h, g)
  BY <1>3, <1>4, KeyRange DEF SameFound, Found
<1>6. ASSUME NEW u \in {"span", "chunk"}, NEW p \in Of(us2, u), p # x
      PROVE  p \in Of(us, u) /\ sz2[p] = sz[p]
  <2>1. u \in UserUses
    BY DEF UserUses
  <2>2. p \in Of(us, u)
    BY <1>6, <2>1 DEF Kept
  <2>3. p \in DOMAIN us /\ us[p] \in UserUses
    BY <2>1, <2>2 DEF Of
  <2>. QED  BY <1>6, <2>2, <2>3 DEF Kept
<1>7. \A p \in Of(us2, "span") : sz2[p] = SpanSize
  BY <1>6 DEF HInv
<1>8. \A p \in Of(us2, "chunk") : sz2[p] = DataChunkSize
  BY <1>6 DEF HInv
<1>. QED  BY <1>3, <1>4, <1>5, <1>7, <1>8 DEF HInv

LEMMA AllocKept ==
  ASSUME NEW h, NEW sz, NEW us, Layout(sz, us), NEW g, NEW p, NEW size, NEW u \in UserUses,
         Allocated(h, sz, us, g, p, size, u)
  PROVE  Kept(h, sz, us, g, Add(sz, p, size), Add(us, p, u), {p})
<1>1. PICK sz2, us2 : sz2 = Add(sz, p, size) /\ us2 = Add(us, p, u)
  OBVIOUS
<1>2. /\ \A v : \A q : q \in Of(us2, v) <=> IF q = p THEN v = u ELSE q \in Of(us, v)
      /\ \A q \in DOMAIN sz : q # p => sz2[q] = sz[q]
  BY <1>1, AddOf, AddFacts
<1>3. \A q \in DOMAIN us : us[q] # "free_leaf" => \A a \in Words(sz, q) : Mem(g)[a] = Mem(h)[a]
  BY DEF Allocated
<1>4. "free_leaf" \notin UserUses
  BY DEF UserUses
<1>5. Kept(h, sz, us, g, sz2, us2, {p})
  BY <1>2, <1>3, <1>4 DEF Kept, Layout
<1>. QED  BY <1>1, <1>5

\* The heap, with the objects users have.
HeapOK(h, S, C) ==
  \E sz, us : /\ HInv(h, sz, us, {})
              /\ \A p : p \in S <=> p \in Of(us, "span")
              /\ \A p : p \in C <=> p \in Of(us, "chunk")

\* An object for the span layer.
LEMMA UserAlloc ==
  ASSUME NEW h, NEW sz, NEW us, HInv(h, sz, us, {}), Pgm(h) # 0,
         NEW size, NEW u, \/ size = SpanSize /\ u = "span"
                          \/ size = DataChunkSize /\ u = "chunk",
         NEW g, NEW p, IsAlloc(h, size, g, p)
  PROVE  /\ \E sz2, us2 :
              /\ HInv(g, sz2, us2, {})
              /\ \A v \in {"span", "chunk"} : \A q :
                   q \in Of(us2, v) <=> IF q = p THEN v = u ELSE q \in Of(us, v)
         /\ p \in Nat \ {0} /\ p \notin Of(us, "span") /\ p \notin Of(us, "chunk")
         /\ SameFound(h, g)
<1>1. u \in UserUses /\ size \in Keys /\ size \in ObjectSizes /\ u \notin Uses(PageUse)
  BY Constants DEF UserUses, ObjectSizes, Uses, PageUse
<1>2. AInv(h, sz, us) /\ Layout(sz, us)
  BY DEF HInv, AInv, ArenaOK
<1>3. Allocated(h, sz, us, g, p, size, u)
  BY <1>1, <1>2, AllocOK
<1>4. PICK sz2, us2 : sz2 = Add(sz, p, size) /\ us2 = Add(us, p, u)
  OBVIOUS
<1>5. Kept(h, sz, us, g, sz2, us2, {p})
  BY <1>1, <1>2, <1>3, <1>4, AllocKept
<1>6. /\ AInv(g, sz2, us2) /\ Pgm(g) = Pgm(h) /\ p \in Nat \ {0}
      /\ p \in DOMAIN us => us[p] = "listed"
  BY <1>3, <1>4 DEF Allocated
<1>7. /\ \A v : \A q : q \in Of(us2, v) <=> IF q = p THEN v = u ELSE q \in Of(us, v)
      /\ sz2[p] = size
  BY <1>4, AddOf, AddFacts
<1>8. \A v \in UserUses : p \notin Of(us, v)
  BY <1>6, UseSets DEF Of
<1>9. NoPage(us, p) /\ NoPage(us2, p)
  BY <1>1, <1>7, <1>8, UseSets DEF NoPage
<1>10. /\ p \in Of(us2, "span") => sz2[p] = SpanSize
       /\ p \in Of(us2, "chunk") => sz2[p] = DataChunkSize
  <2>1. "span" # "chunk"
    OBVIOUS
  <2>. QED  BY <1>7, <2>1
<1>11. HInv(g, sz2, us2, {}) /\ SameFound(h, g)
  BY <1>5, <1>6, <1>9, <1>10, HKept
<1>12. p \notin Of(us, "span") /\ p \notin Of(us, "chunk")
  BY <1>8 DEF UserUses
<1>. QED  BY <1>6, <1>7, <1>11, <1>12

\* Spans and chunks are the same.
SameUsers(us, us2) ==
  \A u \in {"span", "chunk"} : \A p : p \in Of(us2, u) <=> p \in Of(us, u)

IsWithPgm(h, g) == g = WithPageMap(h)

LEMMA PageRoot ==
  ASSUME NEW h, NEW sz, NEW us, HInv(h, sz, us, {}), Pgm(h) = 0, NEW g, IsWithPgm(h, g)
  PROVE  /\ \E sz2, us2 : HInv(g, sz2, us2, {}) /\ SameUsers(us, us2)
         /\ Pgm(g) # 0 /\ \A key \in Keys : Found(g, key) = Found(h, key)
<1>0. AInv(h, sz, us) /\ Flm(h) = 0
  BY DEF HInv
<1>1. PICK h1, n : IsAlloc(h, RootSize, h1, n)
  BY DEF IsAlloc
<1>2. Allocated(h, sz, us, h1, n, RootSize, "span")
  <2>1. RootSize \in ObjectSizes /\ "span" \in UserUses
    BY DEF ObjectSizes, UserUses
  <2>. QED  BY <1>0, <1>1, <2>1, AllocOK
<1>3. "page_root" \in UserUses \cup ArenaUses /\ "page_root" # "listed"
  BY DEF UserUses
<1>4. PICK sz1, us1, us2 : Owns(h, sz, us, h1, n, RootSize, "page_root", sz1, us1, us2)
  BY <1>0, <1>2, <1>3 DEF Owns
<1>5. Owned(h, sz, us, h1, n, RootSize, "page_root", sz1, us1, us2)
  BY <1>4, OwnObject
<1>6. /\ AInv(h1, sz1, us1) /\ DOMAIN us2 = DOMAIN us1 /\ n \in DOMAIN sz1 /\ sz1[n] = RootSize
      /\ \A u : \A p : p \in Of(us2, u) <=> IF p = n THEN u = "page_root" ELSE p \in Of(us1, u)
      /\ \A u : \A p : p \in Of(us1, u) <=> IF p = n THEN u = "span" ELSE p \in Of(us, u)
      /\ \A p \in DOMAIN us1 : p # n => us2[p] = us1[p] /\ us2[n] = "page_root"
      /\ \A p \in DOMAIN sz : p # n => p \in DOMAIN sz1 /\ sz1[p] = sz[p]
      /\ Layout(sz, us)
  BY <1>5 DEF Owned
<1>7. /\ n \in Nat \ {0} /\ (n \in DOMAIN us => us[n] = "listed")
      /\ Flm(h1) = 0 /\ \A a \in Slots(n, RootSize) : Mem(h1)[a] = 0
  BY <1>0, <1>4 DEF Owns, Allocated
<1>8. \A p \in DOMAIN us : us[p] \in UserUses /\ us[p] \notin Uses(PageUse)
  BY <1>0 DEF AInv, FreeInv, HInv, PageOK
<1>9. n \notin DOMAIN us
  BY <1>7, <1>8, UseSets
<1>10. g = PutPgm(h1, n)
  BY <1>1 DEF IsWithPgm, WithPageMap, IsAlloc, PutPgm, Pgm, NULL
<1>11. h1 \in Heaps /\ ArenaOK(h1, sz1, us1)
  BY <1>6 DEF AInv, ArenaOK
<1>12. Moved(h1, g) /\ Mem(g) = Mem(h1) /\ Flm(g) = 0 /\ Pgm(g) = n
  BY <1>7, <1>10, <1>11, NewRoot DEF Moved
<1>13. ArenaOK(g, sz1, us2)
  BY <1>6, <1>11, <1>12, ArenaUsed
<1>14. ASSUME NEW u \in Uses(PageUse) PROVE \A p : p \in Of(us2, u) <=> u = "page_root" /\ p = n
  <2>1. \A p : p \notin Of(us, u)
    BY <1>8, <1>14 DEF Of
  <2>2. u # "span"
    BY <1>14, KindNames
  <2>. QED  BY <1>6, <2>1, <2>2
<1>15. /\ \A p : p \in Of(us2, PageUse.root) <=> p = n
       /\ Of(us2, PageUse.node) = {} /\ Of(us2, PageUse.leaf) = {}
  <2>1. /\ PageUse.node # "page_root" /\ PageUse.leaf # "page_root" /\ PageUse.root = "page_root"
        /\ PageUse.root \in Uses(PageUse) /\ PageUse.leaf \in Uses(PageUse)
        /\ PageUse.node \in Uses(PageUse)
    BY UseSets, KindNames
  <2>2. \A p : p \notin Of(us2, PageUse.node) /\ p \notin Of(us2, PageUse.leaf)
    BY <1>14, <2>1
  <2>3. PICK k : k = PageUse
    OBVIOUS
  <2>4. /\ \A p : p \in Of(us2, k.root) <=> k.root = "page_root" /\ p = n
        /\ k.root = "page_root"
    BY <1>14, <2>1, <2>3
  <2>5. /\ \A p : p \in Of(us2, k.root) <=> p = n
        /\ \A p : p \notin Of(us2, k.node) /\ p \notin Of(us2, k.leaf)
    BY <2>2, <2>3, <2>4
  <2>6. Of(us2, k.node) = {} /\ Of(us2, k.leaf) = {}
    BY <2>5
  <2>. QED  BY <2>3, <2>5, <2>6
<1>16. Trie(Mem(g), sz1, us2, n, PageUse) /\ AllNull(Mem(g), n)
  <2>1. \A a \in Slots(n, L1_SIZE) : Mem(g)[a] = 0
    BY <1>7, <1>12 DEF RootSize
  <2>2. PICK m, k : m = Mem(g) /\ k = PageUse
    OBVIOUS
  <2>3. /\ \A p : p \in Of(us2, k.root) <=> p = n
        /\ sz1[n] = RootSize /\ Of(us2, k.node) = {} /\ Of(us2, k.leaf) = {}
        /\ n \in Nat /\ \A a \in Slots(n, L1_SIZE) : m[a] = 0
    BY <1>6, <1>7, <1>15, <2>1, <2>2
  <2>4. Trie(m, sz1, us2, n, k) /\ AllNull(m, n)
    BY <2>3, EmptyTrie
  <2>. QED  BY <2>2, <2>4
<1>17. PageOK(Mem(g), Pgm(g), sz1, us2, {})
  BY <1>7, <1>12, <1>15, <1>16 DEF PageOK, Counts
<1>18. AInv(g, sz1, us2)
  <2>1. \A p \in DOMAIN us1 : us1[p] \in UserUses
    BY <1>6, <1>7 DEF AInv, FreeInv
  <2>2. \A p \in DOMAIN us2 : us2[p] \in UserUses
    BY ZenonT(60), <1>6, <2>1 DEF UserUses
  <2>3. FreeInv(Mem(g), 0, sz1, us2)
    BY <2>2 DEF FreeInv
  <2>. QED  BY <1>12, <1>13, <2>3 DEF AInv
<1>19. SameUsers(us, us2)
  <2>1. ASSUME NEW u \in {"span", "chunk"}, NEW p PROVE p \in Of(us2, u) <=> p \in Of(us, u)
    <3>1. u # "page_root"
      BY <2>1
    <3>2. n \notin Of(us, u)
      BY <1>9 DEF Of
    <3>. QED  BY <1>6, <3>1, <3>2
  <2>. QED  BY <2>1 DEF SameUsers
<1>20. /\ \A p \in Of(us2, "span") : sz1[p] = SpanSize
       /\ \A p \in Of(us2, "chunk") : sz1[p] = DataChunkSize
  <2>1. \A u \in {"span", "chunk"} : \A p \in Of(us2, u) : p \in Of(us, u) /\ sz1[p] = sz[p]
    <3>1. ASSUME NEW u \in {"span", "chunk"}, NEW p \in Of(us2, u)
          PROVE  p \in Of(us, u) /\ sz1[p] = sz[p]
      <4>1. p \in Of(us, u)
        BY <1>19 DEF SameUsers
      <4>2. p \in DOMAIN sz /\ p # n
        BY <1>6, <1>9, <4>1 DEF Of, Layout
      <4>. QED  BY <1>6, <4>1, <4>2
    <3>. QED  BY <3>1
  <2>. QED  BY <2>1 DEF HInv
<1>21. HInv(g, sz1, us2, {})
  BY <1>7, <1>12, <1>17, <1>18, <1>20 DEF HInv
<1>22. \A key \in Keys : Found(g, key) = Found(h, key)
  BY <1>7, <1>12, <1>16, KeyRange DEF Found, AllNull
<1>. QED  BY <1>7, <1>12, <1>19, <1>21, <1>22

\* The page map once an object has been allocated.
LEMMA PageAlloc ==
  ASSUME NEW h, NEW sz, NEW us, NEW E, HInv(h, sz, us, E), Pgm(h) # 0,
         NEW h1, NEW n, NEW size, NEW v, NEW sz1, NEW us1, NEW us2,
         Owns(h, sz, us, h1, n, size, v, sz1, us1, us2)
  PROVE  /\ PageOK(Mem(h1), Pgm(h), sz1, us1, E)
         /\ \A key \in Nat : /\ LeavesOf(Mem(h1), Pgm(h), key) = LeavesOf(Mem(h), Pgm(h), key)
                             /\ Get(Mem(h1), Pgm(h), key) = Get(Mem(h), Pgm(h), key)
<1>1. /\ Layout(sz, us) /\ PageOK(Mem(h), Pgm(h), sz, us, E)
      /\ Allocated(h, sz, us, h1, n, size, "span")
      /\ sz1 = Add(sz, n, size) /\ us1 = Add(us, n, "span")
  BY DEF HInv, AInv, ArenaOK, Owns
<1>2. "span" \in UserUses
  BY DEF UserUses
<1>3. Kept(h, sz, us, h1, sz1, us1, {n})
  BY <1>1, <1>2, AllocKept
<1>4. /\ us1[n] = "span" /\ (n \in DOMAIN us => us[n] = "listed")
  <2>1. Owned(h, sz, us, h1, n, size, v, sz1, us1, us2)
    BY OwnObject
  <2>. QED  BY <1>1, <2>1 DEF Allocated, Owned
<1>5. NoPage(us, n) /\ NoPage(us1, n)
  <2>1. "span" \notin Uses(PageUse) /\ "listed" \notin Uses(PageUse)
    BY KindNames
  <2>2. ASSUME NEW u \in Uses(PageUse) PROVE n \notin Of(us, u) /\ n \notin Of(us1, u)
    <3>1. u # "span" /\ u # "listed"
      BY <2>1
    <3>. QED  BY <1>4, <3>1 DEF Of
  <2>. QED  BY <2>2 DEF NoPage
<1>6. SameTrie(Mem(h), sz, us, Mem(h1), sz1, us1, PageUse, {})
  BY <1>3, <1>5, KeptPage
<1>7. PICK m, m1, r : m = Mem(h) /\ m1 = Mem(h1) /\ r = Pgm(h)
  OBVIOUS
<1>8. /\ PageOK(m1, r, sz1, us1, E)
      /\ \A key \in Nat : LeavesOf(m1, r, key) = LeavesOf(m, r, key) /\ Get(m1, r, key) = Get(m, r, key)
  <2>1. PageOK(m, r, sz, us, E) /\ SameTrie(m, sz, us, m1, sz1, us1, PageUse, {}) /\ r # 0
    BY <1>1, <1>6, <1>7
  <2>. QED  BY <1>1, <2>1, PageSame
<1>. QED  BY <1>7, <1>8

\* The rest of the invariant once it has been linked.
LEMMA PageLinked ==
  ASSUME NEW h, NEW sz, NEW us, NEW E, HInv(h, sz, us, E),
         NEW h1, NEW n, NEW size, NEW v, NEW sz1, NEW us1, NEW us2,
         Owns(h, sz, us, h1, n, size, v, sz1, us1, us2), v \in Uses(PageUse),
         NEW o \in DOMAIN us, us[o] \in Uses(PageUse),
         NEW g, NEW X, Wrote(h1, g, X),
         \A a \in X : a \in Words(sz1, o) \/ a \in Words(sz1, n),
         NEW F, Pgm(h) # 0, PageOK(Mem(g), Pgm(h), sz1, us2, F)
  PROVE  HInv(g, sz1, us2, F) /\ SameUsers(us, us2) /\ Pgm(g) = Pgm(h)
<1>0. Owned(h, sz, us, h1, n, size, v, sz1, us1, us2)
  BY OwnObject
<1>1. /\ AInv(h1, sz1, us1) /\ us1[n] = "span" /\ n \in DOMAIN us1
      /\ DOMAIN us1 = DOMAIN sz1 /\ Layout(sz1, us1) /\ Layout(sz, us)
      /\ \A u : \A p : p \in Of(us2, u) <=> IF p = n THEN u = v ELSE p \in Of(us1, u)
      /\ \A u : \A p : p \in Of(us1, u) <=> IF p = n THEN u = "span" ELSE p \in Of(us, u)
      /\ \A p \in DOMAIN us2 : us2[p] \in UserUses \cup ArenaUses
      /\ \A p \in DOMAIN sz : p # n => p \in DOMAIN sz1 /\ sz1[p] = sz[p]
  BY <1>0 DEF Owned
<1>2. /\ Flm(h1) = Flm(h) /\ Pgm(h1) = Pgm(h) /\ (n \in DOMAIN us => us[n] = "listed")
  BY DEF Owns, Allocated
<1>3. /\ v \in UserUses /\ us[o] \in UserUses /\ us[o] # "listed" /\ us[o] # "free_leaf"
      /\ us[o] \notin ArenaUses /\ v \notin ArenaUses
  BY UseSets DEF UserUses
<1>4. PICK Y : Y = {o, n}
  OBVIOUS
<1>5. Written(h, sz, us, h1, n, sz1, us1, us2, o, g, X, Y)
  <2>1. o \in Y /\ n \in Y
    BY <1>4
  <2>. QED  BY <1>3, <2>1, ObjectWritten
<1>6. /\ ArenaOK(g, sz1, us2) /\ o # n /\ o \in DOMAIN sz1 /\ us1[o] = us[o]
      /\ \A p \in DOMAIN sz1 : p # o /\ p # n => \A a \in Words(sz1, p) : Mem(g)[a] = Mem(h1)[a]
  BY <1>5 DEF Written
<1>7. SameOwn(Mem(h1), sz1, us1, Mem(g), sz1, us2)
  <2>1. ASSUME NEW u \in ArenaUses PROVE Of(us2, u) = Of(us1, u)
    <3>1. u # "span" /\ u # v
      BY <1>3, UseSets DEF UserUses
    <3>2. \A p : p \in Of(us2, u) <=> p \in Of(us1, u)
      BY <1>1, <3>1
    <3>. QED  BY <3>2
  <2>2. ASSUME NEW u \in ArenaUses, NEW p \in Of(us1, u) PROVE p \in DOMAIN sz1 /\ p # o /\ p # n
    <3>1. us1[n] \notin ArenaUses
      BY <1>1, UseSets DEF UserUses
    <3>2. p \in DOMAIN us1 /\ us1[p] = u
      BY DEF Of
    <3>3. us1[o] \notin ArenaUses /\ DOMAIN us1 = DOMAIN sz1
      BY <1>1, <1>3, <1>6
    <3>. QED  BY <3>1, <3>2, <3>3
  <2>. QED  BY <1>6, <2>1, <2>2 DEF SameOwn
<1>8. PICK m, m1, f : m = Mem(g) /\ m1 = Mem(h1) /\ f = Flm(h)
  OBVIOUS
<1>9. FreeInv(m, f, sz1, us2)
  <2>1. FreeInv(m1, f, sz1, us1) /\ SameOwn(m1, sz1, us1, m, sz1, us2)
    BY <1>1, <1>2, <1>7, <1>8 DEF AInv
  <2>. QED  BY <1>1, <2>1, FreeSame
<1>10. AInv(g, sz1, us2) /\ Pgm(g) = Pgm(h)
  BY <1>2, <1>6, <1>8, <1>9 DEF AInv, Wrote
<1>11. ASSUME NEW u \in {"span", "chunk"}, NEW p
       PROVE  /\ p \in Of(us2, u) <=> p \in Of(us, u)
              /\ p \in Of(us, u) => sz1[p] = sz[p]
  <2>1. u # v /\ n \notin Of(us, u)
    BY <1>2, KindNames DEF Of
  <2>2. p \in Of(us2, u) <=> p \in Of(us, u)
    BY <1>1, <2>1
  <2>3. ASSUME p \in Of(us, u) PROVE sz1[p] = sz[p]
    BY <1>1, <2>1, <2>3 DEF Of, Layout
  <2>. QED  BY <2>2, <2>3
<1>12. SameUsers(us, us2)
  BY <1>11 DEF SameUsers
<1>13. /\ \A p \in Of(us2, "span") : sz1[p] = SpanSize
       /\ \A p \in Of(us2, "chunk") : sz1[p] = DataChunkSize
  BY <1>11 DEF HInv
<1>14. HInv(g, sz1, us2, F)
  BY <1>10, <1>13 DEF HInv
<1>. QED  BY <1>10, <1>12, <1>14

\* The counts when a cleared node is linked from the root.
LEMMA NodeCounts ==
  ASSUME NEW m, NEW sz, NEW us, NEW us2, NEW m2, NEW r, NEW k \in {PageUse, FreeUse},
         Layout(sz, us), Trie(m, sz, us, r, k),
         NEW slot \in Slots(r, L1_SIZE),
         NEW n \in DOMAIN sz, sz[n] = NodeSize, Becomes(us, us2, n, k.node),
         \A a \in Words(sz, n) : m2[a] = 0,
         \A p \in DOMAIN sz : p # n => \A a \in Words(sz, p) : a # slot => m2[a] = m[a],
         NEW E, Counts(m, Of(us, k.node), L2_SIZE, E), Counts(m, Of(us, k.leaf), L3_SIZE, E),
         NEW F, n \in F, \A p \in E : p \in F
  PROVE  Counts(m2, Of(us2, k.node), L2_SIZE, F) /\ Counts(m2, Of(us2, k.leaf), L3_SIZE, F)
<1>1. /\ k.node \in Uses(k) /\ k.leaf \in Uses(k) /\ "span" \notin Uses(k) /\ k.leaf # k.node
      /\ k.root # k.node /\ k.root # k.leaf
  BY KindNames, UseNames
<1>2. /\ us[n] = "span" /\ n \in Nat
      /\ \A u : \A p : p \in Of(us2, u) <=> IF p = n THEN u = k.node ELSE p \in Of(us, u)
  BY DEF Becomes, Layout
<1>3. n \notin Of(us, k.node) /\ n \notin Of(us, k.leaf)
  BY <1>1, <1>2 DEF Of
<1>4. slot \in Words(sz, r) /\ r \in DOMAIN sz /\ r \in Of(us, k.root)
  BY TrieWords
<1>5. ASSUME NEW p \in DOMAIN sz, p # n, p # r, NEW a \in Words(sz, p) PROVE m2[a] = m[a]
  <2>1. a # slot
    BY <1>4, <1>5, OneOwner
  <2>. QED  BY <1>5, <2>1
<1>6. /\ \A p \in Of(us, k.node) : p # r /\ p # n
      /\ \A p \in Of(us, k.leaf) : p # r /\ p # n
  BY <1>1, <1>3, <1>4 DEF Of
<1>7. \A p \in Of(us, k.node) : /\ p \in Nat /\ m2[p + L2_SIZE] = m[p + L2_SIZE]
                                /\ \A a \in Slots(p, L2_SIZE) : m2[a] = m[a]
  BY <1>5, <1>6, TrieWords
<1>8. \A p \in Of(us, k.leaf) : /\ p \in Nat /\ m2[p + L3_SIZE] = m[p + L3_SIZE]
                                /\ \A a \in Slots(p, L3_SIZE) : m2[a] = m[a]
  BY <1>5, <1>6, TrieWords
<1>9. Counts(m2, Of(us, k.leaf), L3_SIZE, E)
  BY <1>8, CountsSame, Constants
<1>10. Counts(m2, Of(us, k.node), L2_SIZE, E)
  BY <1>7, CountsSame, Constants
<1>11. m2[n + L2_SIZE] = 0 /\ \A a \in Slots(n, L2_SIZE) : m2[a] = 0
  <2>1. n + L2_SIZE \in Words(sz, n) /\ Slots(n, L2_SIZE) \subseteq Words(sz, n)
    BY <1>2, Constants DEF Words, Slots
  <2>. QED  BY <2>1
<1>12. Counts(m2, Of(us2, k.node), L2_SIZE, F)
  <2>1. \A p \in Of(us2, k.node) : p \in Of(us, k.node) \/ p = n
    BY <1>2
  <2>. QED  BY <1>2, <1>10, <1>11, <2>1, CountsNew, Constants
<1>13. Of(us2, k.leaf) = Of(us, k.leaf)
  <2>1. \A p : p \in Of(us2, k.leaf) <=> p \in Of(us, k.leaf)
    BY <1>1, <1>2, <1>3
  <2>. QED  BY <2>1
<1>14. Counts(m2, Of(us2, k.leaf), L3_SIZE, F)
  BY <1>9, <1>13, CountsMore
<1>. QED  BY <1>12, <1>14

\* A node of the page map has a cleared leaf node, n, in a slot, and counts it.
LeafNodeAdded(m, sz, us, r, k, us2, m2, node, slot, n) ==
  /\ Layout(sz, us) /\ Trie(m, sz, us, r, k)
  /\ node \in Of(us, k.node) /\ slot \in Slots(node, L2_SIZE) /\ m[slot] = 0
  /\ n \in DOMAIN sz /\ sz[n] = LeafNodeSize /\ Becomes(us, us2, n, k.leaf)
  /\ \A a \in Words(sz, n) : m2[a] = 0
  /\ m2[slot] # 0 /\ m2[node + L2_SIZE] = m[node + L2_SIZE] + 1
  /\ \A p \in DOMAIN sz : p # n => \A a \in Words(sz, p) :
       a # slot /\ a # node + L2_SIZE => m2[a] = m[a]

\* Counts that are exact before, and nodes E and F without entries before and after.
ExactBefore(m, us, k, node, n, E, F) ==
  /\ Counts(m, Of(us, k.node), L2_SIZE, E) /\ Counts(m, Of(us, k.leaf), L3_SIZE, E)
  /\ n \in F /\ \A p \in E : p \in F \/ p = node

LEMMA LeafNodeCounts ==
  ASSUME NEW m, NEW sz, NEW us, NEW us2, NEW m2, NEW r, NEW k \in {PageUse, FreeUse},
         NEW node, NEW slot, NEW n, NEW E, NEW F,
         LeafNodeAdded(m, sz, us, r, k, us2, m2, node, slot, n),
         ExactBefore(m, us, k, node, n, E, F)
  PROVE  Counts(m2, Of(us2, k.node), L2_SIZE, F) /\ Counts(m2, Of(us2, k.leaf), L3_SIZE, F)
<1>a. /\ Layout(sz, us) /\ Trie(m, sz, us, r, k)
      /\ node \in Of(us, k.node) /\ slot \in Slots(node, L2_SIZE) /\ m[slot] = 0
      /\ n \in DOMAIN sz /\ sz[n] = LeafNodeSize /\ Becomes(us, us2, n, k.leaf)
      /\ \A a \in Words(sz, n) : m2[a] = 0
      /\ m2[slot] # 0 /\ m2[node + L2_SIZE] = m[node + L2_SIZE] + 1
      /\ \A p \in DOMAIN sz : p # n => \A a \in Words(sz, p) :
           a # slot /\ a # node + L2_SIZE => m2[a] = m[a]
  BY DEF LeafNodeAdded
<1>b. /\ Counts(m, Of(us, k.node), L2_SIZE, E) /\ Counts(m, Of(us, k.leaf), L3_SIZE, E)
      /\ n \in F /\ \A p \in E : p \in F \/ p = node
  BY DEF ExactBefore
<1>1. /\ k.node \in Uses(k) /\ k.leaf \in Uses(k) /\ "span" \notin Uses(k) /\ k.leaf # k.node
  BY KindNames, UseNames
<1>2. /\ us[n] = "span" /\ n \in Nat
      /\ \A u : \A p : p \in Of(us2, u) <=> IF p = n THEN u = k.leaf ELSE p \in Of(us, u)
  BY <1>a DEF Becomes, Layout
<1>3. n \notin Of(us, k.node) /\ n \notin Of(us, k.leaf) /\ node \notin Of(us, k.leaf)
  BY <1>1, <1>2, <1>a DEF Of
<1>c. PICK c : c = node + L2_SIZE
  OBVIOUS
<1>4. /\ slot \in Words(sz, node) /\ c \in Words(sz, node) /\ node \in DOMAIN sz
      /\ c \notin Slots(node, L2_SIZE) /\ node # n
  BY <1>3, <1>a, <1>c, TrieWords
<1>5. ASSUME NEW p \in DOMAIN sz, p # n, p # node, NEW a \in Words(sz, p) PROVE m2[a] = m[a]
  <2>1. a # slot /\ a # c
    BY <1>4, <1>5, <1>a, OneOwner
  <2>. QED  BY <1>a, <1>c, <1>5, <2>1
<1>6. \A p \in Of(us, k.leaf) : p # node /\ p # n
  BY <1>3
<1>7. \A p \in Of(us, k.node) : /\ p \in Nat /\ p # n
                                /\ p # node => /\ m2[p + L2_SIZE] = m[p + L2_SIZE]
                                               /\ \A a \in Slots(p, L2_SIZE) : m2[a] = m[a]
  BY <1>3, <1>5, <1>a, TrieWords
<1>8. \A p \in Of(us, k.leaf) : /\ p \in Nat /\ m2[p + L3_SIZE] = m[p + L3_SIZE]
                                /\ \A a \in Slots(p, L3_SIZE) : m2[a] = m[a]
  BY <1>5, <1>6, <1>a, TrieWords
<1>9. \A a \in Slots(node, L2_SIZE) : a # slot => m2[a] = m[a]
  <2>1. ASSUME NEW a \in Slots(node, L2_SIZE), a # slot PROVE m2[a] = m[a]
    <3>1. a \in Words(sz, node) /\ a # c
      BY <1>4, <1>a, <2>1, TrieWords
    <3>. QED  BY <1>4, <1>a, <1>c, <2>1, <3>1
  <2>. QED  BY <2>1
<1>10. Counts(m2, Of(us, k.node), L2_SIZE, F)
  BY <1>7, <1>9, <1>a, <1>b, CountsFill, Constants
<1>11. Of(us2, k.node) = Of(us, k.node)
  <2>1. \A p : p \in Of(us2, k.node) <=> p \in Of(us, k.node)
    BY <1>1, <1>2, <1>3
  <2>. QED  BY <2>1
<1>12. m2[n + L3_SIZE] = 0 /\ \A a \in Slots(n, L3_SIZE) : m2[a] = 0
  <2>1. n + L3_SIZE \in Words(sz, n) /\ Slots(n, L3_SIZE) \subseteq Words(sz, n)
    BY <1>2, <1>a, Constants DEF Words, Slots
  <2>. QED  BY <1>a, <2>1
<1>13. Counts(m2, Of(us, k.leaf), L3_SIZE, F)
  <2>1. Counts(m2, Of(us, k.leaf), L3_SIZE, E)
    BY <1>8, <1>b, CountsSame, Constants
  <2>2. ASSUME NEW p \in Of(us, k.leaf), p \notin F PROVE p \notin E
    BY <1>6, <1>b, <2>2
  <2>. QED  BY <2>1, <2>2 DEF Counts
<1>14. Counts(m2, Of(us2, k.leaf), L3_SIZE, F)
  <2>1. \A p \in Of(us2, k.leaf) : p \in Of(us, k.leaf) \/ p = n
    BY <1>2
  <2>2. \A p \in F : p \in F
    OBVIOUS
  <2>. QED  BY <1>2, <1>12, <1>13, <1>b, <2>1, <2>2, CountsNew, Constants
<1>. QED  BY <1>10, <1>11, <1>14

\* A step in the page map that changes nothing found, with perhaps empty nodes
\* in F.
PageStep(h, sz, us, g, sz2, us2, F) ==
  /\ HInv(g, sz2, us2, F) /\ SameUsers(us, us2) /\ Pgm(g) = Pgm(h)
  /\ \A key \in Nat : Get(Mem(g), Pgm(h), key) = Get(Mem(h), Pgm(h), key)

LEMMA PageTrie ==
  ASSUME NEW h, NEW sz, NEW us, NEW E, HInv(h, sz, us, E), Pgm(h) # 0
  PROVE  /\ Trie(Mem(h), sz, us, Pgm(h), PageUse) /\ Layout(sz, us) /\ ArenaOK(h, sz, us)
         /\ h \in Heaps /\ AInv(h, sz, us)
         /\ Counts(Mem(h), Of(us, PageUse.node), L2_SIZE, E)
         /\ Counts(Mem(h), Of(us, PageUse.leaf), L3_SIZE, E)
BY DEF HInv, AInv, ArenaOK, PageOK

LEMMA PageNode ==
  ASSUME NEW h, NEW sz, NEW us, HInv(h, sz, us, {}), Pgm(h) # 0,
         NEW slot \in Slots(Pgm(h), L1_SIZE), Mem(h)[slot] = 0,
         NEW g, IsWith(h, slot, NodeSize, g)
  PROVE  /\ \E sz2, us2, F : /\ PageStep(h, sz, us, g, sz2, us2, F)
                             /\ \A p \in F : p = Mem(g)[slot]
         /\ Mem(g)[slot] # 0
<1>0. PICK E : E = {}
  OBVIOUS
<1>h. HInv(h, sz, us, E)
  BY <1>0
<1>1. PageUse.node \in UserUses \cup ArenaUses /\ PageUse.node # "listed"
      /\ PageUse.node \in UserUses /\ PageUse.node \in Uses(PageUse)
  BY UseSets, KindNames DEF UserUses
<1>3. /\ Trie(Mem(h), sz, us, Pgm(h), PageUse) /\ Layout(sz, us) /\ AInv(h, sz, us)
  BY <1>h, PageTrie
<1>s. NodeSize \in {NodeSize, LeafNodeSize}
  OBVIOUS
<1>2. PICK h1, n, sz1, us1, us2 :
        IsAlloc(h, NodeSize, h1, n) /\ Owns(h, sz, us, h1, n, NodeSize, PageUse.node, sz1, us1, us2)
  BY <1>1, <1>3, <1>s, NewObject
<1>4. PICK r : r = Pgm(h)
  OBVIOUS
<1>5. r \in Of(us, PageUse.root) /\ slot \in Words(sz, r)
  BY <1>3, <1>4, TrieWords
<1>6. r \in DOMAIN us /\ us[r] # "listed" /\ us[r] # "free_leaf" /\ us[r] \in Uses(PageUse)
  BY <1>5, UseSets, KindNames DEF Of
<1>7. Owned(h, sz, us, h1, n, NodeSize, PageUse.node, sz1, us1, us2)
  BY <1>2, OwnObject
<1>8. /\ AInv(h1, sz1, us1) /\ Layout(sz1, us1) /\ Layout(sz1, us2) /\ sz1[n] = NodeSize
      /\ Words(sz1, n) = Slots(n, NodeSize) /\ n \in DOMAIN sz1
      /\ Becomes(us1, us2, n, PageUse.node)
  BY <1>7 DEF Owned
<1>9. /\ slot \in DOMAIN Mem(h1) /\ slot \notin Slots(n, NodeSize) /\ Mem(h1)[slot] = 0
      /\ slot \in Words(sz1, r) /\ r \in DOMAIN sz1 /\ r # n
  <2>1. Apart(h, h1, sz1, n, NodeSize, r, slot)
    BY <1>2, <1>5, <1>6, ObjectApart
  <2>. QED  BY <2>1 DEF Apart
<1>p. /\ PageOK(Mem(h1), Pgm(h), sz1, us1, E)
      /\ \A key \in Nat : Get(Mem(h1), Pgm(h), key) = Get(Mem(h), Pgm(h), key)
  BY <1>h, <1>2, PageAlloc
<1>10. h1 \in Heaps /\ n \in Nat \ {0} /\ Pgm(h1) = r /\ ArenaOK(h1, sz1, us1)
       /\ Trie(Mem(h1), sz1, us1, r, PageUse)
       /\ Counts(Mem(h1), Of(us1, PageUse.node), L2_SIZE, E)
       /\ Counts(Mem(h1), Of(us1, PageUse.leaf), L3_SIZE, E)
  <2>1. n \in Nat \ {0} /\ Pgm(h1) = Pgm(h)
    BY <1>2 DEF Owns, Allocated
  <2>2. h1 \in Heaps /\ ArenaOK(h1, sz1, us1)
    BY <1>8 DEF AInv, ArenaOK
  <2>. QED  BY <1>4, <1>p, <2>1, <2>2 DEF PageOK
<1>11. PICK X : \A a : a \in X <=> a = slot \/ a \in Slots(n, NodeSize)
  <2>1. \A a : a \in {slot} \cup Slots(n, NodeSize) <=> a = slot \/ a \in Slots(n, NodeSize)
    OBVIOUS
  <2>. QED  BY <2>1
<1>12. Linked(h1, g, slot, n, NodeSize, X)
  <2>1. slot \in X /\ \A a \in Slots(n, NodeSize) : a \in X
    BY <1>11
  <2>. QED  BY <1>2, <1>9, <1>10, <2>1, NewNode
<1>13. /\ Wrote(h1, g, X) /\ Mem(g)[slot] = n
       /\ \A a \in Words(sz1, n) : Mem(g)[a] = 0
  <2>1. \A a \in Words(sz1, n) : a \in DOMAIN Mem(h1)
    BY <1>8, <1>10, PlacedMapped
  <2>. QED  BY <1>8, <1>12, <2>1 DEF Linked
<1>14. \A a \in X : a \in Words(sz1, r) \/ a \in Words(sz1, n)
  BY <1>8, <1>9, <1>11
<1>15. \A p \in DOMAIN sz1 : p # n => \A a \in Words(sz1, p) : a # slot => Mem(g)[a] = Mem(h1)[a]
  <2>1. ASSUME NEW p \in DOMAIN sz1, p # n, NEW a \in Words(sz1, p), a # slot
        PROVE  Mem(g)[a] = Mem(h1)[a]
    <3>1. a \notin Words(sz1, n)
      BY <1>8, <2>1, OneOwner
    <3>2. a \notin X
      BY <1>8, <1>11, <2>1, <3>1
    <3>3. a \in DOMAIN Mem(h1)
      BY <1>10, <2>1, PlacedMapped
    <3>. QED  BY <1>13, <3>2, <3>3 DEF Wrote
  <2>. QED  BY <2>1
<1>16. PICK m1, m : m1 = Mem(h1) /\ m = Mem(g)
  OBVIOUS
<1>17. PICK k \in {PageUse, FreeUse} : k = PageUse
  OBVIOUS
<1>f. PICK F : \A p : p \in F <=> p = n
  <2>1. \A p : p \in {n} <=> p = n
    OBVIOUS
  <2>. QED  BY <2>1
<1>x. /\ Layout(sz1, us1) /\ Layout(sz1, us2) /\ Trie(m1, sz1, us1, r, k)
      /\ slot \in Slots(r, L1_SIZE) /\ m1[slot] = 0 /\ sz1[n] = NodeSize
      /\ Becomes(us1, us2, n, k.node) /\ m[slot] = n /\ \A a \in Words(sz1, n) : m[a] = 0
      /\ \A p \in DOMAIN sz1 : p # n => \A a \in Words(sz1, p) : a # slot => m[a] = m1[a]
  BY <1>4, <1>8, <1>9, <1>10, <1>13, <1>15, <1>16, <1>17
<1>18. /\ Trie(m, sz1, us2, r, k)
       /\ \A x \in Nat : /\ LeavesOf(m, r, x) = LeavesOf(m1, r, x)
                         /\ Get(m, r, x) = Get(m1, r, x)
  BY <1>x, NodeLinked
<1>19. Counts(m, Of(us2, k.node), L2_SIZE, F) /\ Counts(m, Of(us2, k.leaf), L3_SIZE, F)
  <2>1. Counts(m1, Of(us1, k.node), L2_SIZE, E) /\ Counts(m1, Of(us1, k.leaf), L3_SIZE, E)
    BY <1>10, <1>16, <1>17
  <2>2. n \in F /\ \A p \in E : p \in F
    BY <1>0, <1>f
  <2>3. /\ Layout(sz1, us1) /\ Trie(m1, sz1, us1, r, k) /\ slot \in Slots(r, L1_SIZE)
        /\ n \in DOMAIN sz1 /\ sz1[n] = NodeSize /\ Becomes(us1, us2, n, k.node)
        /\ \A a \in Words(sz1, n) : m[a] = 0
        /\ \A p \in DOMAIN sz1 : p # n => \A a \in Words(sz1, p) : a # slot => m[a] = m1[a]
    BY <1>8, <1>x
  <2>. QED  BY <2>1, <2>2, <2>3, NodeCounts
<1>20. /\ PageOK(Mem(g), Pgm(h), sz1, us2, F)
       /\ \A x \in Nat : Get(Mem(g), Pgm(h), x) = Get(Mem(h1), Pgm(h), x)
  BY <1>4, <1>16, <1>17, <1>18, <1>19 DEF PageOK
<1>21. HInv(g, sz1, us2, F) /\ SameUsers(us, us2) /\ Pgm(g) = Pgm(h)
  <2>1. PICK v : v = PageUse.node
    OBVIOUS
  <2>2. /\ Owns(h, sz, us, h1, n, NodeSize, v, sz1, us1, us2) /\ v \in Uses(PageUse)
        /\ r \in DOMAIN us /\ us[r] \in Uses(PageUse) /\ Wrote(h1, g, X)
        /\ PageOK(Mem(g), Pgm(h), sz1, us2, F) /\ Pgm(h) # 0
    BY <1>1, <1>2, <1>6, <1>13, <1>20, <2>1
  <2>. QED  BY <1>h, <1>14, <2>2, PageLinked
<1>22. PageStep(h, sz, us, g, sz1, us2, F)
  BY <1>p, <1>20, <1>21 DEF PageStep
<1>23. Mem(g)[slot] # 0 /\ \A p \in F : p = Mem(g)[slot]
  BY <1>10, <1>13, <1>f
<1>. QED  BY <1>22, <1>23

LEMMA PageLeafNode ==
  ASSUME NEW h, NEW sz, NEW us, NEW E, HInv(h, sz, us, E), Pgm(h) # 0,
         NEW node \in Of(us, PageUse.node), \A p \in E : p = node,
         NEW slot \in Slots(node, L2_SIZE), Mem(h)[slot] = 0,
         NEW g, IsWithLeaf(h, node, slot, g)
  PROVE  /\ \E sz2, us2, F : /\ PageStep(h, sz, us, g, sz2, us2, F)
                             /\ \A p \in F : p = Mem(g)[slot]
         /\ Mem(g)[slot] # 0 /\ \A a \in Slots(Pgm(h), L1_SIZE) : Mem(g)[a] = Mem(h)[a]
<1>1. PageUse.leaf \in UserUses \cup ArenaUses /\ PageUse.leaf # "listed"
      /\ PageUse.leaf \in UserUses /\ PageUse.leaf \in Uses(PageUse)
  BY UseSets, KindNames DEF UserUses
<1>3. /\ Trie(Mem(h), sz, us, Pgm(h), PageUse) /\ Layout(sz, us) /\ AInv(h, sz, us)
  BY PageTrie
<1>s. LeafNodeSize \in {NodeSize, LeafNodeSize}
  OBVIOUS
<1>2. PICK h1, n, sz1, us1, us2 :
        /\ IsAlloc(h, LeafNodeSize, h1, n)
        /\ Owns(h, sz, us, h1, n, LeafNodeSize, PageUse.leaf, sz1, us1, us2)
  BY <1>1, <1>3, <1>s, NewObject
<1>4. PICK r : r = Pgm(h)
  OBVIOUS
<1>c. PICK c : c = node + L2_SIZE
  OBVIOUS
<1>5. slot \in Words(sz, node) /\ c \in Words(sz, node) /\ c # slot /\ node \in DOMAIN sz
  BY <1>3, <1>c, TrieWords
<1>6. /\ node \in DOMAIN us /\ us[node] # "listed" /\ us[node] # "free_leaf"
      /\ us[node] \in Uses(PageUse)
  BY UseSets, KindNames DEF Of
<1>7. Owned(h, sz, us, h1, n, LeafNodeSize, PageUse.leaf, sz1, us1, us2)
  BY <1>2, OwnObject
<1>8. /\ AInv(h1, sz1, us1) /\ Layout(sz1, us1) /\ Layout(sz1, us2) /\ sz1[n] = LeafNodeSize
      /\ Words(sz1, n) = Slots(n, LeafNodeSize) /\ n \in DOMAIN sz1
      /\ Becomes(us1, us2, n, PageUse.leaf)
      /\ \A u : \A p : p \in Of(us1, u) <=> IF p = n THEN u = "span" ELSE p \in Of(us, u)
  BY <1>7 DEF Owned
<1>9. Apart(h, h1, sz1, n, LeafNodeSize, node, slot) /\ Apart(h, h1, sz1, n, LeafNodeSize, node, c)
  BY <1>2, <1>5, <1>6, ObjectApart
<1>p. /\ PageOK(Mem(h1), Pgm(h), sz1, us1, E)
      /\ \A key \in Nat : Get(Mem(h1), Pgm(h), key) = Get(Mem(h), Pgm(h), key)
  BY <1>2, PageAlloc
<1>10. h1 \in Heaps /\ n \in Nat \ {0} /\ Pgm(h1) = r /\ ArenaOK(h1, sz1, us1)
       /\ Trie(Mem(h1), sz1, us1, r, PageUse)
       /\ Counts(Mem(h1), Of(us1, PageUse.node), L2_SIZE, E)
       /\ Counts(Mem(h1), Of(us1, PageUse.leaf), L3_SIZE, E)
  <2>1. n \in Nat \ {0} /\ Pgm(h1) = Pgm(h)
    BY <1>2 DEF Owns, Allocated
  <2>2. h1 \in Heaps /\ ArenaOK(h1, sz1, us1)
    BY <1>8 DEF AInv, ArenaOK
  <2>. QED  BY <1>4, <1>p, <2>1, <2>2 DEF PageOK
<1>11. PICK X : \A a : a \in X <=> a = slot \/ a = c \/ a \in Slots(n, LeafNodeSize)
  <2>1. \A a : a \in {slot, c} \cup Slots(n, LeafNodeSize)
                 <=> a = slot \/ a = c \/ a \in Slots(n, LeafNodeSize)
    OBVIOUS
  <2>. QED  BY <2>1
<1>12. Linked(h1, g, slot, n, LeafNodeSize, X) /\ Mem(g)[c] = Mem(h1)[c] + 1
  <2>1. slot \in X /\ c \in X /\ \A a \in Slots(n, LeafNodeSize) : a \in X
    BY <1>11
  <2>2. /\ slot \in DOMAIN Mem(h1) /\ slot \notin Slots(n, LeafNodeSize)
        /\ c \in DOMAIN Mem(h1) /\ c \notin Slots(n, LeafNodeSize)
    BY <1>9 DEF Apart
  <2>3. LeafLinked(h1, g, slot, n, X, c)
    BY <1>2, <1>c, <1>5, <1>10, <2>1, <2>2, NewLeafNode
  <2>. QED  BY <2>3 DEF LeafLinked
<1>13. /\ Wrote(h1, g, X) /\ Mem(g)[slot] = n
       /\ \A a \in Words(sz1, n) : Mem(g)[a] = 0
  <2>1. \A a \in Words(sz1, n) : a \in DOMAIN Mem(h1)
    BY <1>8, <1>10, PlacedMapped
  <2>. QED  BY <1>8, <1>12, <2>1 DEF Linked
<1>14. \A a \in X : a \in Words(sz1, node) \/ a \in Words(sz1, n)
  BY <1>8, <1>9, <1>11 DEF Apart
<1>15. \A p \in DOMAIN sz1 : p # n => \A a \in Words(sz1, p) :
         a # slot /\ a # c => Mem(g)[a] = Mem(h1)[a]
  <2>1. ASSUME NEW p \in DOMAIN sz1, p # n, NEW a \in Words(sz1, p), a # slot, a # c
        PROVE  Mem(g)[a] = Mem(h1)[a]
    <3>1. a \notin Words(sz1, n)
      BY <1>8, <2>1, OneOwner
    <3>2. a \notin X
      BY <1>8, <1>11, <2>1, <3>1
    <3>3. a \in DOMAIN Mem(h1)
      BY <1>10, <2>1, PlacedMapped
    <3>. QED  BY <1>13, <3>2, <3>3 DEF Wrote
  <2>. QED  BY <2>1
<1>16. PICK m1, m : m1 = Mem(h1) /\ m = Mem(g)
  OBVIOUS
<1>17. PICK k \in {PageUse, FreeUse} : k = PageUse
  OBVIOUS
<1>f. PICK F : \A p : p \in F <=> p = n
  <2>1. \A p : p \in {n} <=> p = n
    OBVIOUS
  <2>. QED  BY <2>1
<1>w. m1[slot] = 0 /\ node # n
  BY <1>9, <1>16 DEF Apart
<1>v. node \in Of(us1, k.node)
  BY <1>8, <1>17, <1>w
<1>x. /\ Layout(sz1, us1) /\ Layout(sz1, us2) /\ Trie(m1, sz1, us1, r, k)
      /\ sz1[n] = LeafNodeSize
      /\ Becomes(us1, us2, n, k.leaf) /\ m[slot] = n /\ \A a \in Words(sz1, n) : m[a] = 0
      /\ \A p \in DOMAIN sz1 : p # n => \A a \in Words(sz1, p) :
           a # slot /\ a # node + L2_SIZE => m[a] = m1[a]
  BY <1>c, <1>8, <1>10, <1>13, <1>15, <1>16, <1>17
<1>18. /\ Trie(m, sz1, us2, r, k)
       /\ \A x \in Nat : Get(m, r, x) = Get(m1, r, x)
  BY <1>v, <1>w, <1>x, LeafNodeLinked
<1>19. Counts(m, Of(us2, k.node), L2_SIZE, F) /\ Counts(m, Of(us2, k.leaf), L3_SIZE, F)
  <2>1. Counts(m1, Of(us1, k.node), L2_SIZE, E) /\ Counts(m1, Of(us1, k.leaf), L3_SIZE, E)
    BY <1>10, <1>16, <1>17
  <2>2. n \in F /\ \A p \in E : p \in F \/ p = node
    BY <1>f
  <2>3. m[slot] # 0 /\ m[node + L2_SIZE] = m1[node + L2_SIZE] + 1
    BY <1>10, <1>12, <1>13, <1>16, <1>c
  <2>4. LeafNodeAdded(m1, sz1, us1, r, k, us2, m, node, slot, n)
    BY <1>8, <1>v, <1>w, <1>x, <2>3 DEF LeafNodeAdded
  <2>5. ExactBefore(m1, us1, k, node, n, E, F)
    BY <2>1, <2>2 DEF ExactBefore
  <2>. QED  BY <2>4, <2>5, LeafNodeCounts
<1>20. /\ PageOK(Mem(g), Pgm(h), sz1, us2, F)
       /\ \A x \in Nat : Get(Mem(g), Pgm(h), x) = Get(Mem(h1), Pgm(h), x)
  BY <1>4, <1>16, <1>17, <1>18, <1>19 DEF PageOK
<1>21. HInv(g, sz1, us2, F) /\ SameUsers(us, us2) /\ Pgm(g) = Pgm(h)
  <2>1. PICK v : v = PageUse.leaf
    OBVIOUS
  <2>2. /\ Owns(h, sz, us, h1, n, LeafNodeSize, v, sz1, us1, us2) /\ v \in Uses(PageUse)
        /\ node \in DOMAIN us /\ us[node] \in Uses(PageUse) /\ Wrote(h1, g, X)
        /\ PageOK(Mem(g), Pgm(h), sz1, us2, F) /\ Pgm(h) # 0
    BY <1>1, <1>2, <1>6, <1>13, <1>20, <2>1
  <2>. QED  BY <1>14, <2>2, PageLinked
<1>22. PageStep(h, sz, us, g, sz1, us2, F)
  BY <1>p, <1>20, <1>21 DEF PageStep
<1>23. Mem(g)[slot] # 0 /\ \A p \in F : p = Mem(g)[slot]
  BY <1>10, <1>13, <1>f
<1>24. ASSUME NEW a \in Slots(r, L1_SIZE) PROVE Mem(g)[a] = Mem(h)[a]
  <2>1. r \in Of(us, PageUse.root) /\ r \in DOMAIN sz /\ a \in Words(sz, r)
    BY <1>3, <1>4, TrieWords
  <2>2. r \in DOMAIN us /\ us[r] # "listed" /\ us[r] # "free_leaf" /\ r # node
    BY <2>1, UseSets DEF Of
  <2>3. Apart(h, h1, sz1, n, LeafNodeSize, r, a)
    BY <1>2, <2>1, <2>2, ObjectApart
  <2>4. a # slot /\ a # c
    BY <1>3, <1>5, <2>1, <2>2, OneOwner
  <2>. QED  BY <1>15, <2>3, <2>4 DEF Apart
<1>. QED  BY <1>4, <1>22, <1>23, <1>24

LEMMA PageTwice ==
  ASSUME NEW h, NEW sz, NEW us, NEW k, NEW sz1, NEW us1, NEW F1, NEW g, NEW sz2, NEW us2, NEW F2,
         PageStep(h, sz, us, k, sz1, us1, F1), PageStep(k, sz1, us1, g, sz2, us2, F2)
  PROVE  PageStep(h, sz, us, g, sz2, us2, F2)
BY DEF PageStep, SameUsers

\* A node with an entry is not empty.
LEMMA NodeFull ==
  ASSUME NEW h, NEW sz, NEW us, NEW E, HInv(h, sz, us, E), Pgm(h) # 0,
         NEW node \in Of(us, PageUse.node), \A p \in E : p = node,
         NEW slot \in Slots(node, L2_SIZE), Mem(h)[slot] # 0
  PROVE  HInv(h, sz, us, {})
<1>1. PICK k \in {PageUse, FreeUse} : k = PageUse
  OBVIOUS
<1>2. PICK m : m = Mem(h)
  OBVIOUS
<1>3. Counts(m, Of(us, k.node), L2_SIZE, E) /\ Counts(m, Of(us, k.leaf), L3_SIZE, E)
  BY <1>1, <1>2, PageTrie
<1>4. Used(m, node, L2_SIZE) # {} /\ node \notin Of(us, k.leaf)
  BY <1>1, <1>2, UseNames DEF Used, Of
<1>5. Counts(m, Of(us, k.node), L2_SIZE, {}) /\ Counts(m, Of(us, k.leaf), L3_SIZE, {})
  BY <1>3, <1>4 DEF Counts
<1>6. PageOK(Mem(h), Pgm(h), sz, us, {})
  BY <1>1, <1>2, <1>5, PageTrie DEF PageOK
<1>. QED  BY <1>6 DEF HInv

\* After the first steps of cmalloc_map the leaf node is there, perhaps empty.
LEMMA PagePath ==
  ASSUME NEW h, NEW sz, NEW us, HInv(h, sz, us, {}), Pgm(h) # 0, NEW key \in Keys,
         NEW g, IsPath(h, Pgm(h), key, g)
  PROVE  /\ \E sz2, us2, F : /\ PageStep(h, sz, us, g, sz2, us2, F)
                             /\ \A p \in F : p = LeavesOf(Mem(g), Pgm(h), key)
         /\ LeavesOf(Mem(g), Pgm(h), key) # 0
<1>1. PICK k, slot, node : /\ slot = Pgm(h) + L1Index(key) /\ IsWith(h, slot, NodeSize, k)
                           /\ node = Mem(k)[slot] /\ g = WithLeafNode(k, node, key)
  BY DEF IsPath
<1>2. key \in Nat
  BY KeyRange
<1>3. slot \in Slots(Pgm(h), L1_SIZE)
  BY <1>1, <1>2, PageTrie, TriePath
<1>4. PICK sz1, us1, E : /\ PageStep(h, sz, us, k, sz1, us1, E)
                         /\ (\A p \in E : p = node) /\ node # 0
  <2>1. CASE Mem(h)[slot] = 0
    BY <1>1, <1>3, <2>1, PageNode
  <2>2. CASE Mem(h)[slot] # 0
    <3>1. k = h
      BY <1>1, <2>2 DEF IsWith, WithNode, Mem, NULL
    <3>2. PageStep(h, sz, us, k, sz, us, {})
      BY <3>1 DEF PageStep, SameUsers
    <3>. QED  BY <1>1, <2>2, <3>1, <3>2
  <2>. QED  BY <2>1, <2>2
<1>5. HInv(k, sz1, us1, E) /\ Pgm(k) = Pgm(h) /\ Pgm(k) # 0
  BY <1>4 DEF PageStep
<1>6. PICK b : b = node + L2Index(key)
  OBVIOUS
<1>7. node \in Of(us1, PageUse.node) /\ b \in Slots(node, L2_SIZE)
  <2>1. Trie(Mem(k), sz1, us1, Pgm(k), PageUse) /\ Layout(sz1, us1)
    BY <1>5, PageTrie
  <2>2. node \in Of(us1, PageUse.node)
    BY <1>1, <1>2, <1>4, <1>5, <2>1, TriePath
  <2>3. b \in Slots(node, L2_SIZE)
    BY <1>2, <1>6, <2>1, <2>2, TriePath
  <2>. QED  BY <2>2, <2>3
<1>8. CASE Mem(k)[b] = 0
  <2>2. IsWithLeaf(k, node, b, g)
    BY <1>1, <1>2, <1>6 DEF IsWithLeaf
  <2>3. /\ \E sz2, us2, F : /\ PageStep(k, sz1, us1, g, sz2, us2, F)
                            /\ \A p \in F : p = Mem(g)[b]
        /\ Mem(g)[b] # 0 /\ \A a \in Slots(Pgm(k), L1_SIZE) : Mem(g)[a] = Mem(k)[a]
    BY <1>4, <1>5, <1>7, <1>8, <2>2, PageLeafNode
  <2>4. PICK sz2, us2, F : PageStep(k, sz1, us1, g, sz2, us2, F) /\ \A p \in F : p = Mem(g)[b]
    BY <2>3
  <2>5. PageStep(h, sz, us, g, sz2, us2, F)
    BY <1>4, <2>4, PageTwice
  <2>6. Mem(g)[slot] = node
    BY <1>1, <1>3, <1>5, <2>3
  <2>7. LeavesOf(Mem(g), Pgm(h), key) = Mem(g)[b]
    BY <1>1, <1>4, <1>6, <2>6, NoPath
  <2>. QED  BY <2>3, <2>4, <2>5, <2>7
<1>9. CASE Mem(k)[b] # 0
  <2>1. g = k
    BY <1>1, <1>6, <1>9 DEF WithLeafNode, Mem, NULL
  <2>2. LeavesOf(Mem(g), Pgm(h), key) # 0
    BY <1>1, <1>4, <1>6, <1>9, <2>1, NoPath
  <2>3. HInv(k, sz1, us1, {})
    BY <1>4, <1>5, <1>7, <1>9, NodeFull
  <2>4. PageStep(h, sz, us, g, sz1, us1, {})
    BY <1>4, <2>1, <2>3 DEF PageStep
  <2>. QED  BY <2>2, <2>4
<1>. QED  BY <1>8, <1>9

\* A slot is overwritten.
LEMMA CountsPut ==
  ASSUME NEW m, NEW S, NEW n \in Nat, NEW E, Counts(m, S, n, E), NEW m2,
         NEW x \in S, NEW slot \in Slots(x, n), m[slot] # 0, m2[slot] # 0,
         m2[x + n] = m[x + n], \A a \in Slots(x, n) : a # slot => m2[a] = m[a],
         \A p \in S : /\ p \in Nat
                      /\ p # x => m2[p + n] = m[p + n] /\ \A a \in Slots(p, n) : m2[a] = m[a],
         NEW F, \A p \in E : p \in F \/ p = x
  PROVE  Counts(m2, S, n, F)
<1>1. Used(m2, x, n) = Used(m, x, n) /\ Used(m2, x, n) # {}
  BY DEF Used
<1>3. ASSUME NEW p \in S, p # x
      PROVE  Counted(m2, p, n) /\ (p \notin F => Used(m2, p, n) # {})
  <2>1. Used(m2, p, n) = Used(m, p, n)
    BY <1>3, CountSame
  <2>. QED  BY <1>3, <2>1 DEF Counted, Counts
<1>4. Counted(m2, x, n)
  BY <1>1 DEF Counted, Counts
<1>. QED  BY <1>1, <1>3, <1>4 DEF Counts

\* What is found after a write for a key.
FoundPut(h, g, key, value) ==
  /\ Pgm(g) = Pgm(h)
  /\ \A other \in Keys : Get(Mem(g), Pgm(h), other) =
                           IF other = key THEN value ELSE Get(Mem(h), Pgm(h), other)

\* A word of a leaf node of the page map and its count are written.
LeafWritten(h, sz, us, g, l, a, c) ==
  /\ AInv(g, sz, us) /\ Pgm(g) = Pgm(h) /\ Flm(g) = Flm(h) /\ Steady(h, g)
  /\ Trie(Mem(g), sz, us, Pgm(h), PageUse)
  /\ \A p \in DOMAIN sz : p # l => \A b \in Words(sz, p) : Mem(g)[b] = Mem(h)[b]
  /\ \A b \in Words(sz, l) : b # a /\ b # c => Mem(g)[b] = Mem(h)[b]

\* The words of the leaf of a key.
LeafOf(h, root, key, l, a, c) ==
  l = LeavesOf(Mem(h), root, key) /\ l # 0 /\ a = l + L3Index(key) /\ c = l + L3_SIZE

LEMMA LeafWrites ==
  ASSUME NEW h, NEW sz, NEW us, NEW E, HInv(h, sz, us, E), Pgm(h) # 0, NEW key \in Keys,
         NEW l, NEW a, NEW c, LeafOf(h, Pgm(h), key, l, a, c),
         NEW g, Wrote(h, g, {a, c})
  PROVE  /\ LeafWritten(h, sz, us, g, l, a, c)
         /\ FoundPut(h, g, key, Mem(g)[a])
<1>1. PICK m, m2, r : m = Mem(h) /\ m2 = Mem(g) /\ r = Pgm(h)
  OBVIOUS
<1>2. PICK X : X = {a, c}
  OBVIOUS
<1>3. /\ Trie(m, sz, us, r, PageUse) /\ Layout(sz, us) /\ ArenaOK(h, sz, us)
      /\ h \in Heaps /\ AInv(h, sz, us) /\ key \in Nat
  BY <1>1, PageTrie, KeyRange
<1>4. /\ l \in Of(us, PageUse.leaf) /\ l \in DOMAIN sz
      /\ a \in Words(sz, l) /\ c \in Words(sz, l)
  <2>1. Trie(Mem(h), sz, us, r, PageUse) /\ l = LeavesOf(Mem(h), r, key)
    BY <1>1, <1>3 DEF LeafOf
  <2>2. /\ l \in Of(us, PageUse.leaf) /\ l \in DOMAIN sz
        /\ l + L3Index(key) \in Words(sz, l) /\ l + L3_SIZE \in Words(sz, l)
    BY <1>3, <2>1, LeafWords DEF LeafOf
  <2>. QED  BY <2>2 DEF LeafOf
<1>5. l \in DOMAIN us /\ us[l] \in UserUses
  BY <1>4, UseSets, KindNames DEF Of
<1>6. Wrote(h, g, X) /\ \A b \in X : b \in Words(sz, l)
  BY <1>2, <1>4
<1>7. UserWrite(h, sz, us, g, l)
  BY <1>3, <1>5, <1>6, UserWrites
<1>8. /\ AInv(g, sz, us) /\ Pgm(g) = Pgm(h) /\ Flm(g) = Flm(h) /\ Steady(h, g)
      /\ \A p \in DOMAIN sz : p # l => \A b \in Words(sz, p) : Mem(g)[b] = Mem(h)[b]
  BY <1>7 DEF UserWrite, Steady
<1>9. \A p \in DOMAIN sz : \A b \in Words(sz, p) : b \notin X => m2[b] = m[b]
  BY <1>1, <1>3, <1>6, PlacedMapped DEF Wrote
<1>10. SameTrie(m, sz, us, m2, sz, us, PageUse, X)
  <2>1. \A v \in Uses(PageUse) : \A q \in Of(us, v) : q \in DOMAIN sz
    BY <1>3 DEF Of, Layout
  <2>. QED  BY <1>9, <2>1 DEF SameTrie
<1>11. PICK k \in {PageUse, FreeUse} : k = PageUse
  OBVIOUS
<1>12. LeafPut(m, m2, sz, us, r, k, key, l)
  <2>1. SameTrie(m, sz, us, m2, sz, us, k, X) /\ \A b \in X : b = l + L3Index(key) \/ b = l + L3_SIZE
    BY <1>2, <1>10, <1>11 DEF LeafOf
  <2>2. IsLeaf(m, r, key, l) /\ Layout(sz, us) /\ Trie(m, sz, us, r, k)
    BY <1>1, <1>3, <1>11 DEF LeafOf, IsLeaf
  <2>. QED  BY <2>1, <2>2, PutLeaf
<1>13. Trie(Mem(g), sz, us, Pgm(h), PageUse)
  BY <1>1, <1>11, <1>12 DEF LeafPut
<1>14. FoundPut(h, g, key, Mem(g)[a])
  BY <1>1, <1>8, <1>12 DEF FoundPut, LeafOf, LeafPut
<1>15. \A b \in Words(sz, l) : b # a /\ b # c => Mem(g)[b] = Mem(h)[b]
  BY <1>1, <1>2, <1>4, <1>9
<1>. QED  BY <1>8, <1>13, <1>14, <1>15 DEF LeafWritten

\* The invariant once a word of a leaf node is written, if its count is right.
LEMMA LeafInv ==
  ASSUME NEW h, NEW sz, NEW us, NEW E, HInv(h, sz, us, E), Pgm(h) # 0,
         NEW l \in Of(us, PageUse.leaf), \A p \in E : p = l,
         NEW g, NEW a, NEW c, LeafWritten(h, sz, us, g, l, a, c),
         NEW F, Counts(Mem(g), Of(us, PageUse.leaf), L3_SIZE, F)
  PROVE  HInv(g, sz, us, F)
<1>1. /\ AInv(g, sz, us) /\ Pgm(g) = Pgm(h) /\ Flm(g) = Flm(h)
      /\ Trie(Mem(g), sz, us, Pgm(h), PageUse)
      /\ \A p \in DOMAIN sz : p # l => \A b \in Words(sz, p) : Mem(g)[b] = Mem(h)[b]
  BY DEF LeafWritten
<1>2. PICK m, m2, r : m = Mem(h) /\ m2 = Mem(g) /\ r = Pgm(h)
  OBVIOUS
<1>3. PICK k \in {PageUse, FreeUse} : k = PageUse
  OBVIOUS
<1>4. /\ Counts(m, Of(us, k.node), L2_SIZE, E) /\ Trie(m, sz, us, r, k) /\ Layout(sz, us)
      /\ \A p \in DOMAIN sz : p # l => \A b \in Words(sz, p) : m2[b] = m[b]
  BY <1>1, <1>2, <1>3, PageTrie
<1>5. \A p \in Of(us, k.node) : p # l
  BY <1>3, UseNames DEF Of
<1>6. \A p \in Of(us, k.node) : /\ p \in Nat /\ m2[p + L2_SIZE] = m[p + L2_SIZE]
                                /\ \A b \in Slots(p, L2_SIZE) : m2[b] = m[b]
  BY <1>4, <1>5, TrieWords
<1>7. Counts(m2, Of(us, k.node), L2_SIZE, E)
  BY <1>4, <1>6, CountsSame, Constants
<1>8. Counts(m2, Of(us, k.node), L2_SIZE, F)
  BY <1>5, <1>7 DEF Counts
<1>9. PageOK(Mem(g), Pgm(g), sz, us, F)
  BY <1>1, <1>2, <1>3, <1>8 DEF PageOK
<1>. QED  BY <1>1, <1>9 DEF HInv

\* Where the word of a key and the count lie, and what the others hold.
LeafSlots(m, m2, S, l, a, c) ==
  /\ l \in S /\ a \in Slots(l, L3_SIZE) /\ c = l + L3_SIZE
  /\ \A b \in Slots(l, L3_SIZE) : b # a => m2[b] = m[b]
  /\ \A p \in S : /\ p \in Nat
                  /\ p # l => /\ m2[p + L3_SIZE] = m[p + L3_SIZE]
                              /\ \A b \in Slots(p, L3_SIZE) : m2[b] = m[b]

LEMMA LeafPlace ==
  ASSUME NEW h, NEW sz, NEW us, NEW E, HInv(h, sz, us, E), Pgm(h) # 0, NEW key \in Keys,
         NEW l, NEW a, NEW c, LeafOf(h, Pgm(h), key, l, a, c),
         NEW g, LeafWritten(h, sz, us, g, l, a, c)
  PROVE  /\ LeafSlots(Mem(h), Mem(g), Of(us, PageUse.leaf), l, a, c)
         /\ a \in DOMAIN Mem(h) /\ c \in DOMAIN Mem(h) /\ a # c
<1>2. PICK m, m2, r : m = Mem(h) /\ m2 = Mem(g) /\ r = Pgm(h)
  OBVIOUS
<1>3. PICK k : k = PageUse
  OBVIOUS
<1>4. /\ Trie(m, sz, us, r, k) /\ Layout(sz, us) /\ key \in Nat
      /\ \A p \in DOMAIN sz : p # l => \A b \in Words(sz, p) : m2[b] = m[b]
      /\ \A b \in Words(sz, l) : b # a /\ b # c => m2[b] = m[b]
  BY <1>2, <1>3, PageTrie, KeyRange DEF LeafWritten
<1>5. l \in Of(us, k.leaf) /\ a \in Slots(l, L3_SIZE)
  BY <1>2, <1>4, TriePath DEF LeafOf
<1>6. c = l + L3_SIZE
  BY DEF LeafOf
<1>7. c \in Words(sz, l) /\ c \notin Slots(l, L3_SIZE) /\ Slots(l, L3_SIZE) \subseteq Words(sz, l)
      /\ l \in DOMAIN sz
  BY <1>4, <1>5, <1>6, TrieWords
<1>8. \A b \in Slots(l, L3_SIZE) : b # a => m2[b] = m[b]
  BY <1>4, <1>7
<1>9. \A p \in Of(us, k.leaf) :
        /\ p \in Nat
        /\ p # l => /\ m2[p + L3_SIZE] = m[p + L3_SIZE]
                    /\ \A b \in Slots(p, L3_SIZE) : m2[b] = m[b]
  BY <1>4, TrieWords
<1>10. LeafSlots(m, m2, Of(us, k.leaf), l, a, c)
  BY <1>5, <1>6, <1>8, <1>9 DEF LeafSlots
<1>11. a \in DOMAIN Mem(h) /\ c \in DOMAIN Mem(h) /\ a # c
  <2>1. ArenaOK(h, sz, us)
    BY PageTrie
  <2>. QED  BY <1>5, <1>7, <2>1, PlacedMapped
<1>. QED  BY <1>2, <1>3, <1>10, <1>11

\* The words of a leaf, before they are written.
LEMMA LeafOfWords ==
  ASSUME NEW h, NEW sz, NEW us, NEW E, HInv(h, sz, us, E), Pgm(h) # 0, NEW key \in Keys,
         NEW l, NEW a, NEW c, LeafOf(h, Pgm(h), key, l, a, c)
  PROVE  a \in DOMAIN Mem(h) /\ c \in DOMAIN Mem(h) /\ a # c /\ l \in Of(us, PageUse.leaf)
<1>1. PICK r, k : r = Pgm(h) /\ k = PageUse
  OBVIOUS
<1>2. Trie(Mem(h), sz, us, r, k) /\ ArenaOK(h, sz, us) /\ key \in Nat
  BY <1>1, PageTrie, KeyRange
<1>3. l = LeavesOf(Mem(h), r, key) /\ l # 0
  BY <1>1 DEF LeafOf
<1>4. /\ l \in Of(us, k.leaf)
      /\ l + L3Index(key) # l + L3_SIZE
      /\ l + L3Index(key) \in DOMAIN Mem(h) /\ l + L3_SIZE \in DOMAIN Mem(h)
  BY <1>2, <1>3, LeafWords
<1>. QED  BY <1>1, <1>4 DEF LeafOf

\* The last step of cmalloc_map: the leaf is set, and counted if it was NULL.
LEMMA PageSet ==
  ASSUME NEW h, NEW sz, NEW us, NEW E, HInv(h, sz, us, E), Pgm(h) # 0, NEW key \in Keys,
         NEW value \in Nat \ {0}, LeavesOf(Mem(h), Pgm(h), key) # 0,
         \A p \in E : p = LeavesOf(Mem(h), Pgm(h), key),
         NEW g, IsSet(h, Pgm(h), key, value, g)
  PROVE  HInv(g, sz, us, {}) /\ FoundPut(h, g, key, value)
<1>1. PICK l, a, c : LeafOf(h, Pgm(h), key, l, a, c) /\ \A p \in E : p = l
  BY DEF LeafOf
<1>2. a \in DOMAIN Mem(h) /\ c \in DOMAIN Mem(h) /\ a # c /\ l \in Of(us, PageUse.leaf)
  BY <1>1, LeafOfWords
<1>3. PICK X : X = {a, c}
  OBVIOUS
<1>4. /\ Wrote(h, g, X) /\ Mem(g)[a] = value
      /\ Mem(g)[c] = IF Mem(h)[a] = 0 THEN Mem(h)[c] + 1 ELSE Mem(h)[c]
  <2>1. l = LeavesOf(Mem(h), Pgm(h), key) /\ a = l + L3Index(key) /\ c = l + L3_SIZE
        /\ g = SetLeaf(h, Pgm(h), key, value)
    BY <1>1 DEF LeafOf, IsSet
  <2>2. l + L3Index(key) \in X /\ l + L3_SIZE \in X /\ l + L3Index(key) \in DOMAIN Mem(h)
        /\ l + L3_SIZE \in DOMAIN Mem(h) /\ l + L3Index(key) # l + L3_SIZE
    BY <1>2, <1>3, <2>1
  <2>3. h \in Heaps
    BY PageTrie
  <2>4. /\ Wrote(h, SetLeaf(h, Pgm(h), key, value), X)
        /\ Mem(SetLeaf(h, Pgm(h), key, value))[l + L3Index(key)] = value
        /\ Mem(SetLeaf(h, Pgm(h), key, value))[l + L3_SIZE] =
             IF Mem(h)[l + L3Index(key)] = 0
               THEN Mem(h)[l + L3_SIZE] + 1 ELSE Mem(h)[l + L3_SIZE]
    BY <2>1, <2>2, <2>3, SetLeafFacts
  <2>. QED  BY <2>1, <2>4
<1>5. LeafWritten(h, sz, us, g, l, a, c) /\ FoundPut(h, g, key, Mem(g)[a])
  BY <1>1, <1>3, <1>4, LeafWrites
<1>6. LeafSlots(Mem(h), Mem(g), Of(us, PageUse.leaf), l, a, c)
  BY <1>1, <1>5, LeafPlace
<1>7. PICK m, m2, S : m = Mem(h) /\ m2 = Mem(g) /\ S = Of(us, PageUse.leaf)
  OBVIOUS
<1>8. Counts(m2, S, L3_SIZE, {})
  <2>1. Counts(m, S, L3_SIZE, E)
    BY <1>7, PageTrie
  <2>2. /\ l \in S /\ a \in Slots(l, L3_SIZE)
        /\ \A b \in Slots(l, L3_SIZE) : b # a => m2[b] = m[b]
        /\ \A p \in S : /\ p \in Nat
                        /\ p # l => /\ m2[p + L3_SIZE] = m[p + L3_SIZE]
                                    /\ \A b \in Slots(p, L3_SIZE) : m2[b] = m[b]
    BY <1>6, <1>7 DEF LeafSlots
  <2>3. m2[a] # 0 /\ m2[l + L3_SIZE] = IF m[a] = 0 THEN m[l + L3_SIZE] + 1 ELSE m[l + L3_SIZE]
    BY <1>4, <1>6, <1>7 DEF LeafSlots
  <2>4. PICK F : F = {}
    OBVIOUS
  <2>5. \A p \in E : p \in F \/ p = l
    BY <1>1
  <2>6. CASE m[a] = 0
    <3>1. m2[l + L3_SIZE] = m[l + L3_SIZE] + 1
      BY <2>3, <2>6
    <3>2. Counts(m2, S, L3_SIZE, F)
      BY <2>1, <2>2, <2>3, <2>5, <2>6, <3>1, CountsFill, Constants
    <3>. QED  BY <2>4, <3>2
  <2>7. CASE m[a] # 0
    <3>1. m2[l + L3_SIZE] = m[l + L3_SIZE]
      BY <2>3, <2>7
    <3>2. Counts(m2, S, L3_SIZE, F)
      BY <2>1, <2>2, <2>3, <2>5, <2>7, <3>1, CountsPut, Constants
    <3>. QED  BY <2>4, <3>2
  <2>. QED  BY <2>6, <2>7
<1>9. HInv(g, sz, us, {})
  BY <1>1, <1>2, <1>5, <1>7, <1>8, LeafInv
<1>. QED  BY <1>4, <1>5, <1>9

\* The result of cmalloc_map on the page map.
IsMap(h, key, value, g) == g = Map(h, Pgm(h), value, key)

LEMMA MapOK ==
  ASSUME NEW h, NEW sz, NEW us, HInv(h, sz, us, {}), Pgm(h) # 0, NEW key \in Keys,
         NEW value \in Nat \ {0}, NEW g, IsMap(h, key, value, g)
  PROVE  /\ \E sz2, us2 : HInv(g, sz2, us2, {}) /\ SameUsers(us, us2)
         /\ FoundPut(h, g, key, value)
<1>1. PICK k : IsPath(h, Pgm(h), key, k) /\ g = SetLeaf(k, Pgm(h), key, value)
  BY MapSteps DEF IsMap
<1>2. /\ \E sz1, us1, F : /\ PageStep(h, sz, us, k, sz1, us1, F)
                          /\ \A p \in F : p = LeavesOf(Mem(k), Pgm(h), key)
      /\ LeavesOf(Mem(k), Pgm(h), key) # 0
  BY <1>1, PagePath
<1>3. PICK sz1, us1, F : /\ PageStep(h, sz, us, k, sz1, us1, F)
                         /\ \A p \in F : p = LeavesOf(Mem(k), Pgm(h), key)
  BY <1>2
<1>4. HInv(k, sz1, us1, F) /\ SameUsers(us, us1) /\ Pgm(k) = Pgm(h)
      /\ \A x \in Keys : Get(Mem(k), Pgm(h), x) = Get(Mem(h), Pgm(h), x)
  BY <1>3, KeyRange DEF PageStep
<1>5. HInv(g, sz1, us1, {}) /\ FoundPut(k, g, key, value)
  <2>1. IsSet(k, Pgm(k), key, value, g)
    BY <1>1, <1>4 DEF IsSet
  <2>2. Pgm(k) # 0 /\ LeavesOf(Mem(k), Pgm(k), key) # 0
        /\ \A p \in F : p = LeavesOf(Mem(k), Pgm(k), key)
    BY <1>2, <1>3, <1>4
  <2>. QED  BY <1>4, <2>1, <2>2, PageSet
<1>. QED  BY <1>4, <1>5 DEF FoundPut

-----------------------------------------------------------------------------
(* cmalloc_unmap                                                           *)

\* Two words are written.
Wrote2(h, g, a, v, c, w) ==
  Wrote(h, g, {a, c}) /\ Mem(g)[a] = v /\ Mem(g)[c] = w

Write2(h, a, v, c, w) == [h EXCEPT !.mem[a] = v, !.mem[c] = w]

LEMMA WriteTwo ==
  ASSUME NEW h \in Heaps, NEW a \in DOMAIN Mem(h), NEW c \in DOMAIN Mem(h), a # c,
         NEW v \in Nat, NEW w \in Nat
  PROVE  Wrote2(h, Write2(h, a, v, c, w), a, v, c, w)
<1>1. PICK m : m = [Mem(h) EXCEPT ![a] = v, ![c] = w]
  OBVIOUS
<1>2. PICK X : X = {a, c}
  OBVIOUS
<1>3. /\ m \in [DOMAIN Mem(h) -> Nat] /\ m[a] = v /\ m[c] = w
      /\ \A b \in DOMAIN Mem(h) : b \notin X => m[b] = Mem(h)[b]
  BY <1>1, <1>2, WordType
<1>4. Write2(h, a, v, c, w) = PutMem(h, m)
  BY <1>1 DEF Write2, PutMem, Mem
<1>5. Wrote(h, PutMem(h, m), X) /\ Mem(PutMem(h, m)) = m
  BY <1>3, WriteMemory
<1>. QED  BY <1>2, <1>3, <1>4, <1>5 DEF Wrote2

IsClear(h, node, l, key, g)       == g = ClearLeaf(h, node, l, key)
IsReleaseLeaf(h, node, l, key, g) == g = ReleaseLeafNode(h, node, l, key)
IsReleaseNode(h, node, key, g)    == g = ReleaseNode(h, Pgm(h), node, key)
IsUnmap(h, key, g)                == g = Unmap(h, Pgm(h), key)

\* The node and the leaf node of a key, the slot of the leaf node and its count.
OnPath(h, key, node, l, b, d) ==
  /\ node = Mem(h)[Pgm(h) + L1Index(key)] /\ node # 0
  /\ b = node + L2Index(key) /\ d = node + L2_SIZE /\ l = Mem(h)[b]

LEMMA UnmapSteps ==
  ASSUME NEW h, NEW key, NEW g, IsUnmap(h, key, g), Get(Mem(h), Pgm(h), key) # 0
  PROVE  \E node, l, b, d, h1, h2 :
           /\ OnPath(h, key, node, l, b, d) /\ l # 0
           /\ IsClear(h, node, l, key, h1) /\ IsReleaseLeaf(h1, node, l, key, h2)
           /\ g = ReleaseNode(h2, Pgm(h), node, key)
<1>1. PICK node, l, b, d : /\ node = Mem(h)[Pgm(h) + L1Index(key)] /\ b = node + L2Index(key)
                           /\ l = Mem(h)[b] /\ d = node + L2_SIZE
  OBVIOUS
<1>2. LeavesOf(Mem(h), Pgm(h), key) # 0
  BY NoPath
<1>3. node # 0 /\ l # 0
  BY <1>1, <1>2, NoPath
<1>4. PICK h1, h2 : /\ IsClear(h, node, l, key, h1) /\ IsReleaseLeaf(h1, node, l, key, h2)
                    /\ g = ReleaseNode(h2, Pgm(h), node, key)
  BY <1>1 DEF IsUnmap, Unmap, IsClear, IsReleaseLeaf, Mem
<1>. QED  BY <1>1, <1>3, <1>4 DEF OnPath

\* Where they lie.
Path(sz, us, r, key, node, l, b, d) ==
  /\ node \in Of(us, PageUse.node) /\ l \in Of(us, PageUse.leaf)
  /\ node \in DOMAIN sz /\ l \in DOMAIN sz /\ node # l
  /\ r \in Of(us, PageUse.root) /\ r \in DOMAIN sz /\ r # l /\ r # node
  /\ r + L1Index(key) \in Slots(r, L1_SIZE) /\ r + L1Index(key) \in Words(sz, r)
  /\ b \in Slots(node, L2_SIZE) /\ b \in Words(sz, node) /\ d \in Words(sz, node)
  /\ b # d /\ d = node + L2_SIZE /\ node \in Nat /\ l \in Nat

LEMMA PathPlace ==
  ASSUME NEW h, NEW sz, NEW us, NEW E, HInv(h, sz, us, E), Pgm(h) # 0, NEW key \in Keys,
         NEW node, NEW l, NEW b, NEW d, OnPath(h, key, node, l, b, d), l # 0
  PROVE  Path(sz, us, Pgm(h), key, node, l, b, d)
<1>1. PICK m, r : m = Mem(h) /\ r = Pgm(h)
  OBVIOUS
<1>2. PICK k \in {PageUse, FreeUse} : k = PageUse
  OBVIOUS
<1>3. /\ Trie(m, sz, us, r, k) /\ Layout(sz, us) /\ key \in Nat
  BY <1>1, <1>2, PageTrie, KeyRange
<1>4. /\ node = m[r + L1Index(key)] /\ node # 0
      /\ b = node + L2Index(key) /\ d = node + L2_SIZE /\ l = m[b]
  BY <1>1 DEF OnPath
<1>5. r + L1Index(key) \in Slots(r, L1_SIZE) /\ node \in Of(us, k.node)
  BY <1>3, <1>4, TriePath
<1>6. b \in Slots(node, L2_SIZE) /\ b \in NodeSlotsIn(us, k)
  BY <1>3, <1>4, <1>5, TriePath
<1>7. l \in Of(us, k.leaf)
  BY <1>3, <1>4, <1>6 DEF Trie, Links
<1>8. /\ node \in DOMAIN sz /\ l \in DOMAIN sz /\ r \in DOMAIN sz /\ r \in Of(us, k.root)
      /\ node \in Nat /\ l \in Nat
      /\ b \in Words(sz, node) /\ d \in Words(sz, node) /\ d \notin Slots(node, L2_SIZE)
      /\ r + L1Index(key) \in Words(sz, r)
  BY <1>3, <1>4, <1>5, <1>6, <1>7, TrieWords
<1>9. node # l /\ r # l /\ r # node
  BY <1>5, <1>7, <1>8, UseNames DEF Of
<1>. QED  BY <1>1, <1>2, <1>4, <1>5, <1>6, <1>7, <1>8, <1>9 DEF Path

\* After a step of the release the path to the nodes that may be empty is there,
\* and no free list's leaf node is new or gone.
Unmapped(h, sz, us, g, sz2, us2, F, key) ==
  /\ HInv(g, sz2, us2, F) /\ SameUsers(us, us2) /\ FoundPut(h, g, key, 0)

Ready(h) == Flm(h) # 0 /\ \A s \in FreeSizes : LeavesOf(Mem(h), Flm(h), s) # 0

LEMMA ClearOK ==
  ASSUME NEW h, NEW sz, NEW us, HInv(h, sz, us, {}), Pgm(h) # 0, NEW key \in Keys,
         Get(Mem(h), Pgm(h), key) # 0,
         NEW node, NEW l, NEW b, NEW d, OnPath(h, key, node, l, b, d), l # 0,
         NEW g, IsClear(h, node, l, key, g)
  PROVE  /\ \E F : Unmapped(h, sz, us, g, sz, us, F, key) /\ \A p \in F : p = l
         /\ OnPath(g, key, node, l, b, d) /\ Steady(h, g)
<1>0. PICK E : E = {}
  OBVIOUS
<1>1. HInv(h, sz, us, E)
  BY <1>0
<1>2. Path(sz, us, Pgm(h), key, node, l, b, d)
  BY <1>1, PathPlace
<1>3. PICK a, c : a = l + L3Index(key) /\ c = l + L3_SIZE
  OBVIOUS
<1>4. LeafOf(h, Pgm(h), key, l, a, c)
  <2>1. LeavesOf(Mem(h), Pgm(h), key) = l
    BY NoPath DEF OnPath
  <2>. QED  BY <1>3, <2>1 DEF LeafOf
<1>5. a \in DOMAIN Mem(h) /\ c \in DOMAIN Mem(h) /\ a # c /\ l \in Of(us, PageUse.leaf)
  BY <1>1, <1>4, LeafOfWords
<1>6. Mem(h)[a] # 0
  BY <1>3, <1>4 DEF LeafOf, Get, NULL
<1>7. a \in Slots(l, L3_SIZE) /\ l \in Nat
  <2>1. l \in Nat /\ L3Index(key) \in 0 .. L3_SIZE - 1
    BY <1>2, IndexRange, KeyRange DEF Path
  <2>. QED  BY <1>3, <2>1, Constants DEF Slots
<1>8. PICK v \in Nat : v = Mem(h)[c] - 1
  <2>1. Counted(Mem(h), l, L3_SIZE)
    BY <1>1, <1>5, PageTrie DEF Counts
  <2>2. Cardinality(Used(Mem(h), l, L3_SIZE)) \in Nat \ {0}
    <3>1. Used(Mem(h), l, L3_SIZE) # {}
      BY <1>6, <1>7 DEF Used
    <3>. QED  BY <1>7, <3>1, UsedFinite, Constants
  <2>3. Mem(h)[c] \in Nat \ {0}
    BY <1>3, <2>1, <2>2 DEF Counted
  <2>4. Mem(h)[c] - 1 \in Nat
    BY <2>3
  <2>. QED  BY <2>4
<1>9. Wrote2(h, g, a, 0, c, v)
  <2>1. g = Write2(h, a, 0, c, v)
    BY <1>3, <1>5, <1>8 DEF IsClear, ClearLeaf, Write2, Mem, NULL
  <2>2. h \in Heaps
    BY <1>1, PageTrie
  <2>. QED  BY <1>5, <2>1, <2>2, WriteTwo
<1>10. LeafWritten(h, sz, us, g, l, a, c) /\ FoundPut(h, g, key, 0)
  <2>1. Wrote(h, g, {a, c}) /\ Mem(g)[a] = 0
    BY <1>9 DEF Wrote2
  <2>2. LeafWritten(h, sz, us, g, l, a, c) /\ FoundPut(h, g, key, Mem(g)[a])
    BY <1>1, <1>4, <2>1, LeafWrites
  <2>. QED  BY <2>1, <2>2
<1>11. LeafSlots(Mem(h), Mem(g), Of(us, PageUse.leaf), l, a, c)
  BY <1>1, <1>4, <1>10, LeafPlace
<1>12. PICK m, m2, S : m = Mem(h) /\ m2 = Mem(g) /\ S = Of(us, PageUse.leaf)
  OBVIOUS
<1>f. PICK F : \A p : p \in F <=> p = l
  <2>1. \A p : p \in {l} <=> p = l
    OBVIOUS
  <2>. QED  BY <2>1
<1>13. Counts(m2, S, L3_SIZE, F)
  <2>1. Counts(m, S, L3_SIZE, E)
    BY <1>1, <1>12, PageTrie
  <2>2. /\ l \in S /\ a \in Slots(l, L3_SIZE)
        /\ \A x \in Slots(l, L3_SIZE) : x # a => m2[x] = m[x]
        /\ \A p \in S : /\ p \in Nat
                        /\ p # l => /\ m2[p + L3_SIZE] = m[p + L3_SIZE]
                                    /\ \A x \in Slots(p, L3_SIZE) : m2[x] = m[x]
    BY <1>11, <1>12 DEF LeafSlots
  <2>3. m[a] # 0 /\ m2[a] = 0 /\ m2[l + L3_SIZE] = m[l + L3_SIZE] - 1
    BY <1>3, <1>6, <1>8, <1>9, <1>12 DEF Wrote2
  <2>4. l \in F /\ \A p \in E : p \in F
    BY <1>0, <1>f
  <2>. QED  BY <2>1, <2>2, <2>3, <2>4, CountsClear, Constants
<1>14. HInv(g, sz, us, F)
  <2>1. \A p \in E : p = l
    BY <1>0
  <2>. QED  BY <1>1, <1>5, <1>10, <1>12, <1>13, <2>1, LeafInv
<1>15. OnPath(g, key, node, l, b, d) /\ Steady(h, g)
  <2>1. /\ \A p \in DOMAIN sz : p # l => \A x \in Words(sz, p) : Mem(g)[x] = Mem(h)[x]
        /\ Pgm(g) = Pgm(h) /\ Steady(h, g)
    BY <1>10 DEF LeafWritten
  <2>2. Mem(g)[Pgm(h) + L1Index(key)] = Mem(h)[Pgm(h) + L1Index(key)] /\ Mem(g)[b] = Mem(h)[b]
    BY <1>2, <2>1 DEF Path
  <2>. QED  BY <2>1, <2>2 DEF OnPath
<1>16. Unmapped(h, sz, us, g, sz, us, F, key)
  BY <1>10, <1>14 DEF Unmapped, SameUsers
<1>. QED  BY <1>15, <1>16, <1>f

\* The object l of the page map has been released and words X of another
\* object of it written.
Freed(h, sz, us, g, sz2, us2, l, X) ==
  /\ AInv(g, sz2, us2) /\ Pgm(g) = Pgm(h) /\ Layout(sz2, us2)
  /\ \A u \in Uses(PageUse) : \A p : p \in Of(us2, u) <=> p \in Of(us, u) /\ p # l
  /\ \A u \in Uses(PageUse) : \A p \in Of(us, u) : p # l =>
       /\ p \in DOMAIN sz2 /\ sz2[p] = sz[p]
       /\ \A a \in Words(sz, p) : a \notin X => Mem(g)[a] = Mem(h)[a]
  /\ SameUsers(us, us2)
  /\ \A p \in Of(us2, "span") : sz2[p] = SpanSize
  /\ \A p \in Of(us2, "chunk") : sz2[p] = DataChunkSize

LEMMA FreedFacts ==
  ASSUME NEW h, NEW sz, NEW us, NEW E, HInv(h, sz, us, E),
         NEW l \in DOMAIN us, us[l] \in Uses(PageUse),
         NEW f, NEW sz2, NEW us2, Released(h, sz, us, f, sz2, us2, l),
         NEW o \in DOMAIN us, o # l, us[o] \in Uses(PageUse),
         NEW g, NEW X, Wrote(f, g, X), \A a \in X : a \in Words(sz2, o)
  PROVE  Freed(h, sz, us, g, sz2, us2, l, X) /\ Steady(f, g)
<1>1. /\ AInv(f, sz2, us2) /\ Pgm(f) = Pgm(h) /\ us2[l] = "listed" /\ Layout(sz2, us2)
      /\ Kept(h, sz, us, f, sz2, us2, {l})
  BY DEF Released, AInv, ArenaOK
<1>2. /\ \A u \in UserUses : \A p : p # l => (p \in Of(us2, u) <=> p \in Of(us, u))
      /\ \A p \in DOMAIN us : us[p] \in UserUses /\ p # l =>
           sz2[p] = sz[p] /\ \A a \in Words(sz, p) : Mem(f)[a] = Mem(h)[a]
  BY <1>1 DEF Kept
<1>3. \A u \in UserUses : l \notin Of(us2, u)
  BY <1>1, UseSets DEF Of
<1>4. us[o] \in UserUses /\ o \in DOMAIN us2 /\ us2[o] = us[o]
  <2>1. us[o] \in UserUses /\ o \in Of(us, us[o])
    BY UseSets DEF Of
  <2>2. o \in Of(us2, us[o])
    BY <1>2, <2>1
  <2>. QED  BY <2>1, <2>2 DEF Of
<1>5. UserWrite(f, sz2, us2, g, o)
  BY <1>1, <1>4, UserWrites
<1>6. AInv(g, sz2, us2) /\ Pgm(g) = Pgm(h) /\ Steady(f, g)
  BY <1>1, <1>5 DEF UserWrite
<1>7. \A u \in Uses(PageUse) : \A p : p \in Of(us2, u) <=> p \in Of(us, u) /\ p # l
  BY <1>2, <1>3, UseSets
<1>8. ASSUME NEW u \in Uses(PageUse), NEW p \in Of(us, u), p # l
      PROVE  /\ p \in DOMAIN sz2 /\ sz2[p] = sz[p]
             /\ \A a \in Words(sz, p) : a \notin X => Mem(g)[a] = Mem(h)[a]
  <2>1. p \in DOMAIN us /\ us[p] \in UserUses
    BY UseSets DEF Of
  <2>2. p \in DOMAIN sz2
    BY <1>1, <1>7, <1>8 DEF Of, Layout
  <2>3. sz2[p] = sz[p] /\ \A a \in Words(sz, p) : Mem(f)[a] = Mem(h)[a]
    BY <1>2, <1>8, <2>1
  <2>4. ASSUME NEW a \in Words(sz, p), a \notin X PROVE Mem(g)[a] = Mem(h)[a]
    <3>1. a \in Words(sz2, p) /\ ArenaOK(f, sz2, us2)
      BY <1>1, <2>3 DEF Words, AInv
    <3>2. a \in DOMAIN Mem(f)
      BY <2>2, <3>1, PlacedMapped
    <3>. QED  BY <2>3, <2>4, <3>2 DEF Wrote
  <2>. QED  BY <2>2, <2>3, <2>4
<1>9. ASSUME NEW u \in {"span", "chunk"}, NEW p
      PROVE  /\ p \in Of(us2, u) <=> p \in Of(us, u)
             /\ p \in Of(us, u) => sz2[p] = sz[p]
  <2>1. u \in UserUses /\ u \notin Uses(PageUse)
    BY KindNames DEF UserUses
  <2>2. l \notin Of(us, u) /\ l \notin Of(us2, u)
    BY <1>3, <2>1 DEF Of
  <2>3. p \in Of(us2, u) <=> p \in Of(us, u)
    BY <1>2, <2>1, <2>2
  <2>4. ASSUME p \in Of(us, u) PROVE sz2[p] = sz[p]
    <3>1. p \in DOMAIN us /\ us[p] \in UserUses /\ p # l
      BY <2>1, <2>2, <2>4 DEF Of
    <3>. QED  BY <1>2, <3>1
  <2>. QED  BY <2>3, <2>4
<1>10. SameUsers(us, us2)
  BY <1>9 DEF SameUsers
<1>11. /\ \A p \in Of(us2, "span") : sz2[p] = SpanSize
       /\ \A p \in Of(us2, "chunk") : sz2[p] = DataChunkSize
  BY <1>9 DEF HInv
<1>12. Freed(h, sz, us, g, sz2, us2, l, X)
  BY <1>1, <1>6, <1>7, <1>8, <1>10, <1>11 DEF Freed
<1>. QED  BY <1>6, <1>12

\* The other words of the page map, before they are written.
LEMMA FreedWords ==
  ASSUME NEW h, NEW sz, NEW us, NEW f, NEW sz2, NEW us2, NEW l, Released(h, sz, us, f, sz2, us2, l),
         NEW o \in DOMAIN us, o # l, us[o] \in Uses(PageUse), NEW a \in Words(sz, o)
  PROVE  a \in DOMAIN Mem(f) /\ Mem(f)[a] = Mem(h)[a] /\ a \in Words(sz2, o) /\ f \in Heaps
<1>1. /\ AInv(f, sz2, us2) /\ Layout(sz2, us2) /\ ArenaOK(f, sz2, us2) /\ f \in Heaps
      /\ Kept(h, sz, us, f, sz2, us2, {l})
  BY DEF Released, AInv, ArenaOK
<1>2. us[o] \in UserUses /\ o \in Of(us, us[o])
  BY UseSets DEF Of
<1>3. sz2[o] = sz[o] /\ Mem(f)[a] = Mem(h)[a] /\ o \in Of(us2, us[o])
  BY <1>1, <1>2 DEF Kept
<1>4. o \in DOMAIN sz2 /\ a \in Words(sz2, o)
  BY <1>1, <1>3 DEF Of, Layout, Words
<1>. QED  BY <1>1, <1>3, <1>4, PlacedMapped

\* An empty leaf node is released, and unlinked.
LEMMA LeafUnlinked ==
  ASSUME NEW h, NEW sz, NEW us, NEW E, HInv(h, sz, us, E), Pgm(h) # 0,
         NEW key \in Keys, NEW node, NEW l, NEW b, NEW d,
         Path(sz, us, Pgm(h), key, node, l, b, d), Holds(Mem(h), b, l), \A p \in E : p = l,
         \A a \in Slots(l, L3_SIZE) : Mem(h)[a] = 0,
         NEW g, NEW sz2, NEW us2, NEW X, Freed(h, sz, us, g, sz2, us2, l, X),
         \A a \in X : a = b \/ a = d,
         Mem(g)[b] = 0, Mem(g)[d] = Mem(h)[d] - 1,
         NEW F, node \in F
  PROVE  /\ HInv(g, sz2, us2, F) /\ SameUsers(us, us2) /\ Pgm(g) = Pgm(h)
         /\ \A k \in Nat : Get(Mem(g), Pgm(h), k) = Get(Mem(h), Pgm(h), k)
<1>1. PICK m, m2, r : m = Mem(h) /\ m2 = Mem(g) /\ r = Pgm(h)
  OBVIOUS
<1>2. PICK k \in {PageUse, FreeUse} : k = PageUse
  OBVIOUS
<1>3. /\ k.root \in Uses(k) /\ k.node \in Uses(k) /\ k.leaf \in Uses(k)
      /\ k.root # k.leaf /\ k.node # k.leaf
  BY KindNames, UseNames
<1>4. /\ node \in Of(us, k.node) /\ l \in Of(us, k.leaf) /\ b \in Slots(node, L2_SIZE)
      /\ d = node + L2_SIZE /\ node \in DOMAIN sz /\ l \in DOMAIN sz /\ node # l
      /\ b \in Words(sz, node) /\ d \in Words(sz, node) /\ b # d
  BY <1>2 DEF Path
<1>5. /\ Trie(m, sz, us, r, k) /\ Layout(sz, us)
      /\ Counts(m, Of(us, k.node), L2_SIZE, E) /\ Counts(m, Of(us, k.leaf), L3_SIZE, E)
  BY <1>1, <1>2, PageTrie
<1>6. /\ \A u \in Uses(k) : \A p : p \in Of(us2, u) <=> p \in Of(us, u) /\ p # l
      /\ \A u \in Uses(k) : \A p \in Of(us, u) : p # l =>
           sz2[p] = sz[p] /\ \A a \in Words(sz, p) : a # b /\ a # d => m2[a] = m[a]
  BY <1>1, <1>2 DEF Freed
<1>7. l \notin Of(us, k.root) /\ l \notin Of(us, k.node)
  BY <1>3, <1>4 DEF Of
<1>8. Of(us2, k.root) = Of(us, k.root)
  <2>1. \A p : p \in Of(us2, k.root) <=> p \in Of(us, k.root)
    BY <1>3, <1>6, <1>7
  <2>. QED  BY <2>1
<1>9. Of(us2, k.node) = Of(us, k.node)
  <2>1. \A p : p \in Of(us2, k.node) <=> p \in Of(us, k.node)
    BY <1>3, <1>6, <1>7
  <2>. QED  BY <2>1
<1>t. \A p : p \in Of(us2, k.leaf) <=> p \in Of(us, k.leaf) /\ p # l
  BY <1>3, <1>6
<1>10. Of(us2, k.leaf) = Of(us, k.leaf) \ {l}
  <2>1. \A p : p \in Of(us2, k.leaf) <=> p \in Of(us, k.leaf) /\ p # l
    BY <1>3, <1>6
  <2>. QED  BY <2>1
<1>11. m2[b] = 0 /\ m2[d] = m[d] - 1 /\ Holds(m, b, l) /\ \A a \in Slots(l, L3_SIZE) : m[a] = 0
  BY <1>1
<1>12. \A u \in Uses(k) : \A p \in Of(us, u) : p # l =>
         sz2[p] = sz[p] /\ \A a \in Words(sz, p) :
           a # b /\ a # node + L2_SIZE => m2[a] = m[a]
  BY <1>4, <1>6
<1>13. /\ Trie(m2, sz2, us2, r, k)
       /\ \A x \in Nat : Get(m2, r, x) = Get(m, r, x)
  <2>1. Unlinked(m, m2, sz2, us2, r, k)
    <3>1. LessLeaf(m, sz, us, m2, sz2, us2, k, node, b, l)
      BY <1>4, <1>8, <1>9, <1>11, <1>12, <1>t DEF LessLeaf
    <3>. QED  BY <1>5, <3>1, UnlinkLeafNode
  <2>. QED  BY <2>1 DEF Unlinked
<1>14. ASSUME NEW u \in Uses(k), NEW p \in Of(us, u), p # node, p # l, NEW a \in Words(sz, p)
       PROVE  m2[a] = m[a]
  <2>1. p \in DOMAIN sz
    BY <1>5 DEF Of, Layout
  <2>2. a # b /\ a # d
    BY <1>4, <1>5, <1>14, <2>1, OneOwner
  <2>. QED  BY <1>6, <1>14, <2>2
<1>15. Counts(m2, Of(us2, k.node), L2_SIZE, F)
  <2>1. \A p \in Of(us, k.node) : /\ p \in Nat
                                  /\ p # node => /\ m2[p + L2_SIZE] = m[p + L2_SIZE]
                                                 /\ \A a \in Slots(p, L2_SIZE) : m2[a] = m[a]
    BY <1>3, <1>5, <1>7, <1>14, TrieWords
  <2>2. \A a \in Slots(node, L2_SIZE) : a # b => m2[a] = m[a]
    <3>1. d \notin Slots(node, L2_SIZE) /\ Slots(node, L2_SIZE) \subseteq Words(sz, node)
      BY <1>4, <1>5, TrieWords
    <3>. QED  BY <1>3, <1>4, <1>6, <3>1
  <2>3. m[b] # 0 /\ m2[b] = 0 /\ m2[node + L2_SIZE] = m[node + L2_SIZE] - 1
    BY <1>4, <1>11 DEF Holds
  <2>4. Counts(m, Of(us, k.node), L2_SIZE, {})
    BY <1>5, <1>7 DEF Counts
  <2>5. PICK G : G = {}
    OBVIOUS
  <2>6. Counts(m, Of(us, k.node), L2_SIZE, G) /\ \A p \in G : p \in F
    BY <2>4, <2>5
  <2>7. Counts(m2, Of(us, k.node), L2_SIZE, F)
    BY <1>4, <2>1, <2>2, <2>3, <2>6, CountsClear, Constants
  <2>. QED  BY <1>9, <2>7
<1>16. Counts(m2, Of(us2, k.leaf), L3_SIZE, F)
  <2>1. PICK T : T = Of(us2, k.leaf)
    OBVIOUS
  <2>2. \A p \in T : p \in Of(us, k.leaf) /\ p # l
    BY <1>10, <2>1
  <2>3. Counts(m, T, L3_SIZE, F)
    BY <1>5, <2>2 DEF Counts
  <2>4. \A p \in T : p # node
    BY <1>3, <1>4, <2>2 DEF Of
  <2>5. \A p \in T : /\ p \in Nat /\ m2[p + L3_SIZE] = m[p + L3_SIZE]
                     /\ \A a \in Slots(p, L3_SIZE) : m2[a] = m[a]
    BY <1>3, <1>5, <1>14, <2>2, <2>4, TrieWords
  <2>6. Counts(m2, T, L3_SIZE, F)
    BY <2>3, <2>5, CountsSame, Constants
  <2>. QED  BY <2>1, <2>6
<1>17. PageOK(Mem(g), Pgm(h), sz2, us2, F)
  BY <1>1, <1>2, <1>13, <1>15, <1>16 DEF PageOK
<1>18. HInv(g, sz2, us2, F) /\ SameUsers(us, us2) /\ Pgm(g) = Pgm(h)
  BY <1>17 DEF Freed, HInv
<1>. QED  BY <1>1, <1>13, <1>18

\* An empty node is released, and unlinked.
LEMMA NodeUnlinked ==
  ASSUME NEW h, NEW sz, NEW us, NEW E, HInv(h, sz, us, E), Pgm(h) # 0,
         NEW n \in Of(us, PageUse.node), NEW b \in Slots(Pgm(h), L1_SIZE),
         Holds(Mem(h), b, n), \A p \in E : p = n,
         \A a \in Slots(n, L2_SIZE) : Mem(h)[a] = 0,
         NEW g, NEW sz2, NEW us2, NEW X, Freed(h, sz, us, g, sz2, us2, n, X),
         \A a \in X : a = b, Mem(g)[b] = 0,
         NEW F
  PROVE  /\ HInv(g, sz2, us2, F) /\ SameUsers(us, us2) /\ Pgm(g) = Pgm(h)
         /\ \A k \in Nat : Get(Mem(g), Pgm(h), k) = Get(Mem(h), Pgm(h), k)
<1>1. PICK m, m2, r : m = Mem(h) /\ m2 = Mem(g) /\ r = Pgm(h)
  OBVIOUS
<1>2. PICK k \in {PageUse, FreeUse} : k = PageUse
  OBVIOUS
<1>3. /\ k.root \in Uses(k) /\ k.node \in Uses(k) /\ k.leaf \in Uses(k)
      /\ k.root # k.node /\ k.root # k.leaf /\ k.node # k.leaf
  BY KindNames, UseNames
<1>4. /\ n \in Of(us, k.node) /\ b \in Slots(r, L1_SIZE)
      /\ m2[b] = 0 /\ Holds(m, b, n) /\ \A a \in Slots(n, L2_SIZE) : m[a] = 0
  BY <1>1, <1>2
<1>5. /\ Trie(m, sz, us, r, k) /\ Layout(sz, us)
      /\ Counts(m, Of(us, k.node), L2_SIZE, E) /\ Counts(m, Of(us, k.leaf), L3_SIZE, E)
  BY <1>1, <1>2, PageTrie
<1>6. /\ \A u \in Uses(k) : \A p : p \in Of(us2, u) <=> p \in Of(us, u) /\ p # n
      /\ \A u \in Uses(k) : \A p \in Of(us, u) : p # n =>
           sz2[p] = sz[p] /\ \A a \in Words(sz, p) : a # b => m2[a] = m[a]
  BY <1>1, <1>2 DEF Freed
<1>7. n \notin Of(us, k.root) /\ n \notin Of(us, k.leaf)
  BY <1>3, <1>4 DEF Of
<1>8. Of(us2, k.root) = Of(us, k.root)
  <2>1. \A p : p \in Of(us2, k.root) <=> p \in Of(us, k.root)
    BY <1>3, <1>6, <1>7
  <2>. QED  BY <2>1
<1>9. Of(us2, k.leaf) = Of(us, k.leaf)
  <2>1. \A p : p \in Of(us2, k.leaf) <=> p \in Of(us, k.leaf)
    BY <1>3, <1>6, <1>7
  <2>. QED  BY <2>1
<1>10. \A p : p \in Of(us2, k.node) <=> p \in Of(us, k.node) /\ p # n
  BY <1>3, <1>6
<1>11. /\ Trie(m2, sz2, us2, r, k)
       /\ \A x \in Nat : Get(m2, r, x) = Get(m, r, x)
  <2>1. LessNode(m, sz, us, m2, sz2, us2, r, k, b, n)
    BY <1>4, <1>6, <1>8, <1>9, <1>10 DEF LessNode
  <2>2. Unlinked(m, m2, sz2, us2, r, k)
    BY <1>5, <2>1, UnlinkNode
  <2>. QED  BY <2>2 DEF Unlinked
<1>12. r \in Of(us, k.root) /\ r \in DOMAIN sz /\ b \in Words(sz, r)
  BY <1>4, <1>5, TrieWords
<1>13. ASSUME NEW u \in Uses(k), NEW p \in Of(us, u), p # r, p # n, NEW a \in Words(sz, p)
       PROVE  m2[a] = m[a]
  <2>1. p \in DOMAIN sz
    BY <1>5 DEF Of, Layout
  <2>2. a # b
    BY <1>5, <1>12, <1>13, <2>1, OneOwner
  <2>. QED  BY <1>6, <1>13, <2>2
<1>14. r \notin Of(us, k.node) /\ r \notin Of(us, k.leaf)
  BY <1>3, <1>12 DEF Of
<1>15. PICK G : G = {}
  OBVIOUS
<1>16. Counts(m2, Of(us2, k.node), L2_SIZE, F)
  <2>1. PICK T : T = Of(us2, k.node)
    OBVIOUS
  <2>2. \A p \in T : p \in Of(us, k.node) /\ p # n
    BY <1>10, <2>1
  <2>3. Counts(m, T, L2_SIZE, F)
    BY <1>5, <2>2 DEF Counts
  <2>5. \A p \in T : /\ p \in Nat /\ m2[p + L2_SIZE] = m[p + L2_SIZE]
                     /\ \A a \in Slots(p, L2_SIZE) : m2[a] = m[a]
    <3>1. ASSUME NEW p \in T
          PROVE  /\ p \in Nat /\ m2[p + L2_SIZE] = m[p + L2_SIZE]
                 /\ \A a \in Slots(p, L2_SIZE) : m2[a] = m[a]
      <4>1. p \in Of(us, k.node) /\ p # n /\ p # r
        BY <1>14, <2>2
      <4>2. \A a \in Words(sz, p) : m2[a] = m[a]
        BY <1>3, <1>13, <4>1
      <4>. QED  BY <1>5, <4>1, <4>2, TrieWords
    <3>. QED  BY <3>1
  <2>6. Counts(m2, T, L2_SIZE, F)
    BY <2>3, <2>5, CountsSame, Constants
  <2>. QED  BY <2>1, <2>6
<1>17. Counts(m2, Of(us2, k.leaf), L3_SIZE, F)
  <2>1. PICK T : T = Of(us, k.leaf)
    OBVIOUS
  <2>2. \A p \in T : p # n /\ p # r
    BY <1>7, <1>14, <2>1
  <2>3. Counts(m, T, L3_SIZE, F)
    BY <1>5, <2>1, <2>2 DEF Counts
  <2>5. \A p \in T : /\ p \in Nat /\ m2[p + L3_SIZE] = m[p + L3_SIZE]
                     /\ \A a \in Slots(p, L3_SIZE) : m2[a] = m[a]
    <3>1. ASSUME NEW p \in T
          PROVE  /\ p \in Nat /\ m2[p + L3_SIZE] = m[p + L3_SIZE]
                 /\ \A a \in Slots(p, L3_SIZE) : m2[a] = m[a]
      <4>1. p \in Of(us, k.leaf) /\ p # n /\ p # r
        BY <2>1, <2>2
      <4>2. \A a \in Words(sz, p) : m2[a] = m[a]
        BY <1>3, <1>13, <4>1
      <4>. QED  BY <1>5, <4>1, <4>2, TrieWords
    <3>. QED  BY <3>1
  <2>6. Counts(m2, T, L3_SIZE, F)
    BY <2>3, <2>5, CountsSame, Constants
  <2>. QED  BY <1>9, <2>1, <2>6
<1>18. PageOK(Mem(g), Pgm(h), sz2, us2, F)
  BY <1>1, <1>2, <1>11, <1>16, <1>17 DEF PageOK
<1>19. HInv(g, sz2, us2, F) /\ SameUsers(us, us2) /\ Pgm(g) = Pgm(h)
  BY <1>18 DEF Freed, HInv
<1>. QED  BY <1>1, <1>11, <1>19

\* The call went that far: the page map may have the empty node only, whose slot
\* in the root holds it still.
Cleared(h, sz, us, g, sz2, us2, key, node) ==
  /\ \E F : HInv(g, sz2, us2, F) /\ \A p \in F : p = node
  /\ SameUsers(us, us2) /\ Pgm(g) = Pgm(h)
  /\ \A k \in Nat : Get(Mem(g), Pgm(h), k) = Get(Mem(h), Pgm(h), k)
  /\ Mem(g)[Pgm(h) + L1Index(key)] = node

LEMMA SteadyTwice ==
  ASSUME NEW h, NEW g, NEW k, Steady(h, g), Steady(g, k)
  PROVE  Steady(h, k)
BY DEF Steady

\* The leaf node is not empty.
LEMMA LeafKept ==
  ASSUME NEW h, NEW sz, NEW us, NEW E, HInv(h, sz, us, E), Pgm(h) # 0, NEW key \in Keys,
         NEW node, NEW l, NEW b, NEW d, OnPath(h, key, node, l, b, d), l # 0,
         \A p \in E : p = l, Mem(h)[l + L3_SIZE] # 0
  PROVE  Cleared(h, sz, us, h, sz, us, key, node)
<1>1. PICK m, r : m = Mem(h) /\ r = Pgm(h)
  OBVIOUS
<1>2. PICK k \in {PageUse, FreeUse} : k = PageUse
  OBVIOUS
<1>3. /\ Trie(m, sz, us, r, k) /\ Layout(sz, us) /\ m[l + L3_SIZE] # 0
      /\ Counts(m, Of(us, k.node), L2_SIZE, E) /\ Counts(m, Of(us, k.leaf), L3_SIZE, E)
  BY <1>1, <1>2, PageTrie
<1>4. l \in Of(us, k.leaf) /\ l \in Nat /\ l \notin Of(us, k.node)
  <2>1. l \in Of(us, k.leaf) /\ l \in Nat
    BY <1>2, PathPlace DEF Path
  <2>. QED  BY <2>1, UseNames DEF Of
<1>5. Counts(m, Of(us, k.leaf), L3_SIZE, {})
  <2>1. \A p \in E : p \in {l}
    OBVIOUS
  <2>2. Counts(m, Of(us, k.leaf), L3_SIZE, {l})
    BY <1>3, <2>1, CountsMore
  <2>. QED  BY <1>3, <1>4, <2>2, CountsFull, Constants
<1>6. Counts(m, Of(us, k.node), L2_SIZE, {})
  BY <1>3, <1>4 DEF Counts
<1>7. PageOK(Mem(h), Pgm(h), sz, us, {})
  BY <1>1, <1>2, <1>3, <1>5, <1>6 DEF PageOK
<1>8. HInv(h, sz, us, {})
  BY <1>7 DEF HInv
<1>9. Mem(h)[Pgm(h) + L1Index(key)] = node
  BY DEF OnPath
<1>. QED  BY <1>8, <1>9 DEF Cleared, SameUsers

LEMMA ReleaseLeafOK ==
  ASSUME NEW h, NEW sz, NEW us, NEW E, HInv(h, sz, us, E), Pgm(h) # 0, NEW key \in Keys,
         NEW node, NEW l, NEW b, NEW d, OnPath(h, key, node, l, b, d), l # 0,
         \A p \in E : p = l, NEW g, IsReleaseLeaf(h, node, l, key, g)
  PROVE  /\ \E sz2, us2 : Cleared(h, sz, us, g, sz2, us2, key, node)
         /\ Ready(h) => Steady(h, g)
<1>1. Path(sz, us, Pgm(h), key, node, l, b, d)
  BY PathPlace
<1>2. CASE Mem(h)[l + L3_SIZE] # 0
  <2>1. g = h
    BY <1>2 DEF IsReleaseLeaf, ReleaseLeafNode, Mem
  <2>2. Cleared(h, sz, us, h, sz, us, key, node)
    BY <1>2, LeafKept
  <2>. QED  BY <2>1, <2>2 DEF Steady
<1>3. CASE Mem(h)[l + L3_SIZE] = 0
  <2>1. PICK k \in {PageUse, FreeUse} : k = PageUse
    OBVIOUS
  <2>2. /\ Trie(Mem(h), sz, us, Pgm(h), k) /\ Layout(sz, us) /\ AInv(h, sz, us)
        /\ Counts(Mem(h), Of(us, k.node), L2_SIZE, E) /\ Counts(Mem(h), Of(us, k.leaf), L3_SIZE, E)
    BY <2>1, PageTrie
  <2>3. /\ l \in Of(us, k.leaf) /\ l \in Nat /\ node \in Of(us, k.node) /\ node \in Nat
        /\ b \in Slots(node, L2_SIZE) /\ b \in Words(sz, node)
        /\ d \in Words(sz, node) /\ b # d /\ d = node + L2_SIZE /\ node # l
    BY <1>1, <2>1 DEF Path
  <2>4. Mem(h)[b] = l /\ Holds(Mem(h), b, l)
    BY DEF OnPath, Holds
  <2>5. /\ l \in DOMAIN us /\ us[l] \in Uses(PageUse) /\ us[l] \in UserUses /\ sz[l] = LeafNodeSize
        /\ node \in DOMAIN us /\ us[node] \in Uses(PageUse)
    <3>1. us[l] \in Uses(PageUse) /\ us[node] \in Uses(PageUse)
      BY <2>1, <2>3 DEF Of, Uses
    <3>. QED  BY <2>2, <2>3, <3>1, UseSets DEF Of, Trie
  <2>6. \A a \in Slots(l, L3_SIZE) : Mem(h)[a] = 0
    <3>1. \A p \in E : p \in {l}
      OBVIOUS
    <3>2. Counts(Mem(h), Of(us, k.leaf), L3_SIZE, {l})
      BY <2>2, <3>1, CountsMore
    <3>. QED  BY <1>3, <2>3, <3>2, CountsFull, Constants
  <2>7. PICK f : IsFree(h, l, LeafNodeSize, f)
    BY DEF IsFree
  <2>8. /\ \E sz2, us2 : Released(h, sz, us, f, sz2, us2, l)
        /\ Flm(h) # 0 /\ LeavesOf(Mem(h), Flm(h), LeafNodeSize) # 0 => Steady(h, f)
    <3>1. PICK s \in FreeSizes : s = LeafNodeSize
      BY DEF FreeSizes
    <3>. QED  BY <2>2, <2>5, <2>7, <3>1, FreeOK
  <2>9. PICK sz2, us2 : Released(h, sz, us, f, sz2, us2, l)
    BY <2>8
  <2>10. /\ b \in DOMAIN Mem(f) /\ b \in Words(sz2, node)
         /\ d \in DOMAIN Mem(f) /\ Mem(f)[d] = Mem(h)[d] /\ d \in Words(sz2, node) /\ f \in Heaps
    <3>1. node # l
      BY <2>3
    <3>2. ASSUME NEW a \in Words(sz, node)
          PROVE  a \in DOMAIN Mem(f) /\ Mem(f)[a] = Mem(h)[a] /\ a \in Words(sz2, node) /\ f \in Heaps
      BY <2>5, <2>9, <3>1, FreedWords
    <3>. QED  BY <2>3, <3>2
  <2>11. PICK v \in Nat : v = Mem(h)[d] - 1
    <3>1. Counted(Mem(h), node, L2_SIZE)
      BY <2>2, <2>3 DEF Counts
    <3>2. Cardinality(Used(Mem(h), node, L2_SIZE)) \in Nat \ {0}
      <4>1. Used(Mem(h), node, L2_SIZE) # {}
        BY <2>3, <2>4 DEF Used
      <4>. QED  BY <2>3, <4>1, UsedFinite, Constants
    <3>3. Mem(h)[d] \in Nat \ {0}
      BY <2>3, <3>1, <3>2 DEF Counted
    <3>4. Mem(h)[d] - 1 \in Nat
      BY <3>3
    <3>. QED  BY <3>4
  <2>12. Wrote2(f, g, b, 0, d, v)
    <3>1. g = Write2(f, b, 0, d, v)
      <4>1. b = node + L2Index(key) /\ d = node + L2_SIZE
        BY DEF OnPath
      <4>. QED  BY <1>3, <2>3, <2>7, <2>10, <2>11, <4>1
                DEF IsReleaseLeaf, ReleaseLeafNode, IsFree, Write2, Mem, NULL
    <3>. QED  BY <2>3, <2>10, <3>1, WriteTwo
  <2>13. PICK X : (\A a \in X : a = b \/ a = d) /\ Wrote(f, g, X)
    <3>1. \A a \in {b, d} : a = b \/ a = d
      OBVIOUS
    <3>. QED  BY <2>12, <3>1 DEF Wrote2
  <2>14. Freed(h, sz, us, g, sz2, us2, l, X) /\ Steady(f, g)
    <3>1. \A a \in X : a \in Words(sz2, node)
      BY <2>10, <2>13
    <3>. QED  BY <2>3, <2>5, <2>9, <2>13, <3>1, FreedFacts
  <2>15. PICK F : node \in F /\ \A p \in F : p = node
    <3>1. node \in {node} /\ \A p \in {node} : p = node
      OBVIOUS
    <3>. QED  BY <3>1
  <2>16. Mem(g)[b] = 0 /\ Mem(g)[d] = Mem(h)[d] - 1
    BY <2>11, <2>12 DEF Wrote2
  <2>17. /\ HInv(g, sz2, us2, F) /\ SameUsers(us, us2) /\ Pgm(g) = Pgm(h)
         /\ \A x \in Nat : Get(Mem(g), Pgm(h), x) = Get(Mem(h), Pgm(h), x)
    BY <1>1, <2>4, <2>6, <2>13, <2>14, <2>15, <2>16, LeafUnlinked
  <2>18. Mem(g)[Pgm(h) + L1Index(key)] = node
    <3>1. PICK r, a : r = Pgm(h) /\ a = r + L1Index(key)
      OBVIOUS
    <3>2. /\ r \in Of(us, PageUse.root) /\ r \in DOMAIN sz /\ r # l /\ r # node
          /\ a \in Words(sz, r) /\ node \in DOMAIN sz
      BY <1>1, <3>1 DEF Path
    <3>3. a # b /\ a # d
      BY <2>2, <2>3, <3>2, OneOwner
    <3>4. PageUse.root \in Uses(PageUse) /\ a \notin X
      BY <2>13, <3>3 DEF Uses
    <3>5. Mem(g)[a] = Mem(h)[a]
      BY <2>14, <3>2, <3>4 DEF Freed
    <3>. QED  BY <3>1, <3>5 DEF OnPath
  <2>19. Cleared(h, sz, us, g, sz2, us2, key, node)
    BY <2>15, <2>17, <2>18 DEF Cleared
  <2>20. Ready(h) => Steady(h, g)
    <3>1. LeafNodeSize \in FreeSizes
      BY DEF FreeSizes
    <3>. QED  BY <2>8, <2>14, <3>1, SteadyTwice DEF Ready
  <2>. QED  BY <2>19, <2>20
<1>. QED  BY <1>2, <1>3

LEMMA ReleaseNodeOK ==
  ASSUME NEW h, NEW sz, NEW us, NEW E, HInv(h, sz, us, E), Pgm(h) # 0, NEW key \in Keys,
         NEW node, Holds(Mem(h), Pgm(h) + L1Index(key), node),
         \A p \in E : p = node, NEW g, IsReleaseNode(h, node, key, g)
  PROVE  /\ \E sz2, us2 : HInv(g, sz2, us2, {}) /\ SameUsers(us, us2)
         /\ Pgm(g) = Pgm(h)
         /\ \A k \in Nat : Get(Mem(g), Pgm(h), k) = Get(Mem(h), Pgm(h), k)
         /\ Ready(h) => Steady(h, g)
<1>1. PICK m, r : m = Mem(h) /\ r = Pgm(h)
  OBVIOUS
<1>2. PICK k \in {PageUse, FreeUse} : k = PageUse
  OBVIOUS
<1>3. PICK b : b = r + L1Index(key)
  OBVIOUS
<1>4. /\ Trie(m, sz, us, r, k) /\ Layout(sz, us) /\ AInv(h, sz, us) /\ key \in Nat
      /\ Counts(m, Of(us, k.node), L2_SIZE, E) /\ Counts(m, Of(us, k.leaf), L3_SIZE, E)
  BY <1>1, <1>2, PageTrie, KeyRange
<1>5. m[b] = node /\ node # 0 /\ Holds(m, b, node)
  BY <1>1, <1>3 DEF Holds
<1>6. b \in Slots(r, L1_SIZE) /\ node \in Of(us, k.node)
  <2>1. r + L1Index(key) \in Slots(r, L1_SIZE)
    BY <1>4, TriePath
  <2>. QED  BY <1>3, <1>4, <1>5, <2>1 DEF Trie, Links
<1>7. /\ r \in Of(us, k.root) /\ r \in DOMAIN sz /\ b \in Words(sz, r)
      /\ node \in Nat /\ node \in DOMAIN sz
  BY <1>4, <1>6, TrieWords
<1>8. node \notin Of(us, k.leaf) /\ r # node
  BY <1>6, <1>7, UseNames DEF Of
<1>9. Counts(m, Of(us, k.node), L2_SIZE, {node})
  <2>1. \A p \in E : p \in {node}
    OBVIOUS
  <2>. QED  BY <1>4, <2>1, CountsMore
<1>10. CASE m[node + L2_SIZE] # 0
  <2>1. g = h
    BY <1>1, <1>10 DEF IsReleaseNode, ReleaseNode, Mem
  <2>2. Counts(m, Of(us, k.node), L2_SIZE, {})
    BY <1>6, <1>7, <1>9, <1>10, CountsFull, Constants
  <2>3. Counts(m, Of(us, k.leaf), L3_SIZE, {})
    BY <1>4, <1>8 DEF Counts
  <2>4. PageOK(Mem(h), Pgm(h), sz, us, {})
    BY <1>1, <1>2, <1>4, <2>2, <2>3 DEF PageOK
  <2>5. HInv(h, sz, us, {}) /\ SameUsers(us, us)
    BY <2>4 DEF HInv, SameUsers
  <2>6. Steady(h, h)
    BY DEF Steady
  <2>. QED  BY <2>1, <2>5, <2>6
<1>11. CASE m[node + L2_SIZE] = 0
  <2>1. \A a \in Slots(node, L2_SIZE) : Mem(h)[a] = 0
    <3>1. \A a \in Slots(node, L2_SIZE) : m[a] = 0
      BY <1>6, <1>7, <1>9, <1>11, CountsFull, Constants
    <3>. QED  BY <1>1, <3>1
  <2>2. /\ node \in DOMAIN us /\ us[node] \in Uses(PageUse) /\ us[node] \in UserUses
        /\ sz[node] = NodeSize /\ r \in DOMAIN us /\ us[r] \in Uses(PageUse)
    <3>1. us[node] \in Uses(PageUse) /\ us[r] \in Uses(PageUse)
      BY <1>2, <1>6, <1>7 DEF Of, Uses
    <3>. QED  BY <1>4, <1>6, <1>7, <3>1, UseSets DEF Of, Trie
  <2>3. PICK f : IsFree(h, node, NodeSize, f)
    BY DEF IsFree
  <2>4. /\ \E sz2, us2 : Released(h, sz, us, f, sz2, us2, node)
        /\ Flm(h) # 0 /\ LeavesOf(Mem(h), Flm(h), NodeSize) # 0 => Steady(h, f)
    <3>1. PICK s \in FreeSizes : s = NodeSize
      BY DEF FreeSizes
    <3>. QED  BY <1>4, <2>2, <2>3, <3>1, FreeOK
  <2>5. PICK sz2, us2 : Released(h, sz, us, f, sz2, us2, node)
    BY <2>4
  <2>6. b \in DOMAIN Mem(f) /\ b \in Words(sz2, r) /\ f \in Heaps
    BY <1>7, <1>8, <2>2, <2>5, FreedWords
  <2>x. PICK X : X = {b}
    OBVIOUS
  <2>7. b \in X /\ \A a \in X : a = b
    BY <2>x
  <2>8. Wrote(f, g, X) /\ Mem(g)[b] = 0
    <3>1. g = Write1(f, b, 0)
      BY <1>1, <1>3, <1>11, <2>3
         DEF IsReleaseNode, ReleaseNode, IsFree, Write1, Mem, NULL
    <3>2. PICK v \in Nat : v = 0
      OBVIOUS
    <3>3. Wrote(f, Write1(f, b, v), X) /\ Mem(Write1(f, b, v))[b] = v
      BY <2>6, <2>7, WriteWord
    <3>. QED  BY <3>1, <3>2, <3>3
  <2>9. Freed(h, sz, us, g, sz2, us2, node, X) /\ Steady(f, g)
    <3>1. \A a \in X : a \in Words(sz2, r)
      BY <2>6, <2>7
    <3>. QED  BY <1>8, <2>2, <2>5, <2>8, <3>1, FreedFacts
  <2>10. PICK F : F = {}
    OBVIOUS
  <2>11. /\ HInv(g, sz2, us2, F) /\ SameUsers(us, us2) /\ Pgm(g) = Pgm(h)
         /\ \A x \in Nat : Get(Mem(g), Pgm(h), x) = Get(Mem(h), Pgm(h), x)
    <3>1. node \in Of(us, PageUse.node) /\ b \in Slots(Pgm(h), L1_SIZE) /\ Holds(Mem(h), b, node)
      BY <1>1, <1>2, <1>5, <1>6
    <3>. QED  BY <2>1, <2>7, <2>8, <2>9, <3>1, NodeUnlinked
  <2>12. Ready(h) => Steady(h, g)
    <3>1. NodeSize \in FreeSizes
      BY DEF FreeSizes
    <3>. QED  BY <2>4, <2>9, <3>1, SteadyTwice DEF Ready
  <2>. QED  BY <2>10, <2>11, <2>12
<1>. QED  BY <1>10, <1>11

LEMMA ReadySteady ==
  ASSUME NEW h, NEW g, Ready(h), Steady(h, g)
  PROVE  Ready(g)
BY KeyRange, Constants DEF Ready, Steady, FreeSizes

\* A key is unmapped.
LEMMA UnmapOK ==
  ASSUME NEW h, NEW sz, NEW us, HInv(h, sz, us, {}), Pgm(h) # 0, NEW key \in Keys,
         Get(Mem(h), Pgm(h), key) # 0, NEW g, IsUnmap(h, key, g)
  PROVE  /\ \E sz2, us2 : HInv(g, sz2, us2, {}) /\ SameUsers(us, us2)
         /\ FoundPut(h, g, key, 0)
         /\ Ready(h) => Steady(h, g)
<1>1. PICK node, l, b, d, h1, h2 :
        /\ OnPath(h, key, node, l, b, d) /\ l # 0
        /\ IsClear(h, node, l, key, h1) /\ IsReleaseLeaf(h1, node, l, key, h2)
        /\ g = ReleaseNode(h2, Pgm(h), node, key)
  BY UnmapSteps
<1>2. /\ \E F : Unmapped(h, sz, us, h1, sz, us, F, key) /\ \A p \in F : p = l
      /\ OnPath(h1, key, node, l, b, d) /\ Steady(h, h1)
  BY <1>1, ClearOK
<1>3. PICK F : Unmapped(h, sz, us, h1, sz, us, F, key) /\ \A p \in F : p = l
  BY <1>2
<1>4. HInv(h1, sz, us, F) /\ FoundPut(h, h1, key, 0) /\ Pgm(h1) = Pgm(h) /\ Pgm(h1) # 0
  BY <1>3 DEF Unmapped, FoundPut
<1>5. /\ \E sz2, us2 : Cleared(h1, sz, us, h2, sz2, us2, key, node)
      /\ Ready(h1) => Steady(h1, h2)
  BY <1>1, <1>2, <1>3, <1>4, ReleaseLeafOK
<1>6. PICK sz2, us2 : Cleared(h1, sz, us, h2, sz2, us2, key, node)
  BY <1>5
<1>7. /\ SameUsers(us, us2) /\ Pgm(h2) = Pgm(h)
      /\ \A k \in Nat : Get(Mem(h2), Pgm(h), k) = Get(Mem(h1), Pgm(h), k)
      /\ Mem(h2)[Pgm(h2) + L1Index(key)] = node
  BY <1>4, <1>6 DEF Cleared
<1>8. PICK G : HInv(h2, sz2, us2, G) /\ \A p \in G : p = node
  BY <1>6 DEF Cleared
<1>9. node # 0 /\ Pgm(h2) # 0 /\ IsReleaseNode(h2, node, key, g)
      /\ Holds(Mem(h2), Pgm(h2) + L1Index(key), node)
  BY <1>1, <1>7 DEF OnPath, IsReleaseNode, Holds
<1>10. /\ \E sz3, us3 : HInv(g, sz3, us3, {}) /\ SameUsers(us2, us3)
       /\ Pgm(g) = Pgm(h2)
       /\ \A k \in Nat : Get(Mem(g), Pgm(h2), k) = Get(Mem(h2), Pgm(h2), k)
       /\ Ready(h2) => Steady(h2, g)
  BY <1>8, <1>9, ReleaseNodeOK
<1>11. PICK sz3, us3 : HInv(g, sz3, us3, {}) /\ SameUsers(us2, us3)
  BY <1>10
<1>12. SameUsers(us, us3)
  BY <1>7, <1>11 DEF SameUsers
<1>13. FoundPut(h, g, key, 0)
  BY <1>4, <1>7, <1>10, KeyRange DEF FoundPut
<1>14. ASSUME Ready(h) PROVE Steady(h, g)
  <2>1. Steady(h, h1) /\ Ready(h1)
    BY <1>2, <1>14, ReadySteady
  <2>2. Steady(h1, h2) /\ Ready(h2)
    BY <1>5, <2>1, ReadySteady
  <2>3. Steady(h, h2)
    BY <2>1, <2>2, SteadyTwice
  <2>. QED  BY <1>10, <2>2, <2>3, SteadyTwice
<1>. QED  BY <1>11, <1>12, <1>13, <1>14

-----------------------------------------------------------------------------
(* Ranges of keys                                                          *)

\* Induction on Nat, stated with a set.
LEMMA NatSetInduction ==
  ASSUME NEW T \in SUBSET Nat, 0 \in T, \A k \in Nat : k \in T => k + 1 \in T
  PROVE  T = Nat
<1>. DEFINE R == {ss \in Nat \X Nat : ss[1] < ss[2]}
<1>1. IsWellFoundedOn(R, Nat)
  BY NatLessThanWellFounded DEF OpToRel
<1>2. SUFFICES ASSUME Nat \ T # {} PROVE FALSE
  OBVIOUS
<1>3. PICK m \in Nat \ T : \A j \in Nat \ T : <<j, m>> \notin R
  <2>. HIDE DEF R
  <2>. QED  BY <1>1, <1>2, WFMin
<1>4. m - 1 \in Nat /\ m = (m - 1) + 1 /\ m - 1 < m
  BY <1>3
<1>5. m - 1 \notin T
  BY <1>3, <1>4
<1>6. <<m - 1, m>> \in R
  BY <1>4
<1>. QED  BY <1>3, <1>4, <1>5, <1>6

\* One call of cmalloc_map, or (0) of cmalloc_unmap.
Step(b, h, root, value, key) == IF b = 1 THEN Map(h, root, value, key) ELSE Unmap(h, root, key)

\* The calls for from .. to - 1, one after the other.
Calls(b, f, h, root, value, from, to) ==
  f = [k \in from .. to |-> IF k = from THEN h ELSE Step(b, f[k - 1], root, value, k - 1)]

LEMMA CallsExist ==
  ASSUME NEW b, NEW h, NEW root, NEW value, NEW from \in Nat, NEW n \in Nat
  PROVE  \E f : Calls(b, f, h, root, value, from, from + n)
<1>. DEFINE T == {i \in Nat : \E f : Calls(b, f, h, root, value, from, from + i)}
<1>1. 0 \in T
  <2>1. PICK f : f = [k \in from .. from + 0 |-> h]
    OBVIOUS
  <2>2. f = [k \in from .. from + 0 |->
               IF k = from THEN h ELSE Step(b, f[k - 1], root, value, k - 1)]
    BY <2>1
  <2>. QED  BY <2>2 DEF Calls
<1>2. ASSUME NEW i \in Nat, i \in T PROVE i + 1 \in T
  <2>1. PICK f : Calls(b, f, h, root, value, from, from + i)
    BY <1>2
  <2>2. \A k \in from .. from + i :
          f[k] = IF k = from THEN h ELSE Step(b, f[k - 1], root, value, k - 1)
    BY <2>1 DEF Calls
  <2>3. PICK g : g = [k \in from .. from + (i + 1) |->
                        IF k = from + (i + 1) THEN Step(b, f[k - 1], root, value, k - 1) ELSE f[k]]
    OBVIOUS
  <2>4. ASSUME NEW k \in from .. from + (i + 1)
        PROVE  g[k] = IF k = from THEN h ELSE Step(b, g[k - 1], root, value, k - 1)
    <3>1. CASE k = from + (i + 1)
      <4>1. k # from /\ k - 1 \in from .. from + (i + 1) /\ k - 1 # from + (i + 1)
        BY <3>1
      <4>2. g[k - 1] = f[k - 1] /\ g[k] = Step(b, f[k - 1], root, value, k - 1)
        BY <2>3, <3>1, <4>1
      <4>. QED  BY <4>1, <4>2
    <3>2. CASE k = from
      <4>1. k \in from .. from + i /\ k # from + (i + 1)
        BY <3>2
      <4>2. f[k] = h
        BY <2>2, <3>2, <4>1
      <4>. QED  BY <2>3, <3>2, <4>1, <4>2
    <3>3. CASE k # from /\ k # from + (i + 1)
      <4>1. k \in from .. from + i /\ k - 1 \in from .. from + (i + 1) /\ k - 1 # from + (i + 1)
        BY <3>3
      <4>2. g[k - 1] = f[k - 1] /\ g[k] = f[k]
        BY <2>3, <3>3, <4>1
      <4>. QED  BY <2>2, <3>3, <4>1, <4>2
    <3>. QED  BY <3>1, <3>2, <3>3
  <2>5. g = [k \in from .. from + (i + 1) |->
               IF k = from THEN h ELSE Step(b, g[k - 1], root, value, k - 1)]
    BY <2>3, <2>4
  <2>. QED  BY <2>5 DEF Calls
<1>3. T \in SUBSET Nat
  OBVIOUS
<1>. HIDE DEF T
<1>4. T = Nat
  BY <1>1, <1>2, <1>3, NatSetInduction
<1>. QED  BY <1>4 DEF T

\* The heaps in between.
Stepped(b, f, h, root, value, from, to) ==
  /\ f[from] = h
  /\ \A i \in Nat : from + i < to =>
       f[from + (i + 1)] = Step(b, f[from + i], root, value, from + i)

LEMMA CallsSteps ==
  ASSUME NEW b, NEW f, NEW h, NEW root, NEW value, NEW from \in Nat, NEW to \in Nat, from <= to,
         Calls(b, f, h, root, value, from, to)
  PROVE  Stepped(b, f, h, root, value, from, to)
<1>1. \A k \in from .. to :
        f[k] = IF k = from THEN h ELSE Step(b, f[k - 1], root, value, k - 1)
  BY DEF Calls
<1>2. from \in from .. to
  OBVIOUS
<1>3. ASSUME NEW i \in Nat, from + i < to
      PROVE  f[from + (i + 1)] = Step(b, f[from + i], root, value, from + i)
  <2>1. PICK k : k = from + (i + 1)
    OBVIOUS
  <2>2. k \in from .. to /\ k # from /\ k - 1 = from + i
    BY <1>3, <2>1
  <2>3. f[k] = Step(b, f[k - 1], root, value, k - 1)
    BY <1>1, <2>2
  <2>. QED  BY <2>1, <2>2, <2>3
<1>. QED  BY <1>1, <1>2, <1>3 DEF Stepped

IsMapRange(h, value, from, to, g) == g = MapRange(h, value, from, to)
IsUnmapRange(h, from, to, g)      == g = UnmapRange(h, from, to)

LEMMA MapRangeCalls ==
  ASSUME NEW h, NEW value, NEW from \in Nat, NEW to \in Nat, from <= to,
         NEW g, IsMapRange(h, value, from, to, g)
  PROVE  \E f : Calls(1, f, h, Pgm(h), value, from, to) /\ g = f[to]
<1>. DEFINE upTo[k \in from .. to] ==
              IF k = from THEN h ELSE Map(upTo[k - 1], h.page_map, value, k - 1)
            body(f) == [k \in from .. to |->
                          IF k = from THEN h ELSE Map(f[k - 1], h.page_map, value, k - 1)]
<1>1. upTo = CHOOSE f : f = body(f)
  OBVIOUS
<1>2. g = upTo[to]
  BY DEF IsMapRange, MapRange, upTo
<1>3. \A f : f = body(f) <=> Calls(1, f, h, Pgm(h), value, from, to)
  BY DEF Calls, Step, Pgm
<1>4. \E f : Calls(1, f, h, Pgm(h), value, from, to)
  <2>1. to - from \in Nat /\ from + (to - from) = to
    OBVIOUS
  <2>2. PICK n \in Nat : n = to - from /\ from + n = to
    BY <2>1
  <2>. QED  BY <2>2, CallsExist
<1>. HIDE DEF upTo, body
<1>5. upTo = body(upTo)
  BY <1>1, <1>3, <1>4, Zenon
<1>. QED  BY <1>2, <1>3, <1>5

LEMMA UnmapRangeCalls ==
  ASSUME NEW h, NEW from \in Nat, NEW to \in Nat, from <= to,
         NEW g, IsUnmapRange(h, from, to, g)
  PROVE  \E f : Calls(0, f, h, Pgm(h), 0, from, to) /\ g = f[to]
<1>. DEFINE upTo[k \in from .. to] ==
              IF k = from THEN h ELSE Unmap(upTo[k - 1], h.page_map, k - 1)
            body(f) == [k \in from .. to |->
                          IF k = from THEN h ELSE Unmap(f[k - 1], h.page_map, k - 1)]
<1>1. upTo = CHOOSE f : f = body(f)
  OBVIOUS
<1>2. g = upTo[to]
  BY DEF IsUnmapRange, UnmapRange, upTo
<1>3. \A f : f = body(f) <=> Calls(0, f, h, Pgm(h), 0, from, to)
  BY DEF Calls, Step, Pgm
<1>4. \E f : Calls(0, f, h, Pgm(h), 0, from, to)
  <2>1. to - from \in Nat /\ from + (to - from) = to
    OBVIOUS
  <2>2. PICK n \in Nat : n = to - from /\ from + n = to
    BY <2>1
  <2>. QED  BY <2>2, CallsExist
<1>. HIDE DEF upTo, body
<1>5. upTo = body(upTo)
  BY <1>1, <1>3, <1>4, Zenon
<1>. QED  BY <1>2, <1>3, <1>5

\* The keys from .. to - 1 yield the value, the others what they did.
Ranged(h, sz, us, g, from, to, value) ==
  /\ \E sz2, us2 : HInv(g, sz2, us2, {}) /\ SameUsers(us, us2)
  /\ Pgm(g) = Pgm(h)
  /\ \A key \in Keys : Get(Mem(g), Pgm(h), key) =
       IF from <= key /\ key < to THEN value ELSE Get(Mem(h), Pgm(h), key)

LEMMA RangedNone ==
  ASSUME NEW h, NEW sz, NEW us, HInv(h, sz, us, {}), NEW from \in Nat, NEW value
  PROVE  Ranged(h, sz, us, h, from, from + 0, value)
<1>1. \A key \in Keys : ~(from <= key /\ key < from + 0)
  BY KeyRange
<1>. QED  BY <1>1 DEF Ranged, SameUsers

LEMMA RangedMore ==
  ASSUME NEW h, NEW sz, NEW us, NEW g, NEW from \in Nat, NEW i \in Nat, NEW value,
         Ranged(h, sz, us, g, from, from + i, value),
         NEW sz1, NEW us1, SameUsers(us, us1),
         NEW k, NEW sz2, NEW us2, HInv(k, sz2, us2, {}), SameUsers(us1, us2),
         FoundPut(g, k, from + i, value)
  PROVE  Ranged(h, sz, us, k, from, from + (i + 1), value)
<1>1. SameUsers(us, us2)
  BY DEF SameUsers
<1>2. Pgm(k) = Pgm(h)
  BY DEF Ranged, FoundPut
<1>3. ASSUME NEW key \in Keys
      PROVE  Get(Mem(k), Pgm(h), key) =
               IF from <= key /\ key < from + (i + 1) THEN value ELSE Get(Mem(h), Pgm(h), key)
  <2>1. Get(Mem(k), Pgm(h), key) =
          IF key = from + i THEN value ELSE Get(Mem(g), Pgm(h), key)
    BY DEF Ranged, FoundPut
  <2>2. Get(Mem(g), Pgm(h), key) =
          IF from <= key /\ key < from + i THEN value ELSE Get(Mem(h), Pgm(h), key)
    BY DEF Ranged
  <2>3. from <= key /\ key < from + (i + 1) <=> key = from + i \/ (from <= key /\ key < from + i)
    BY KeyRange
  <2>. QED  BY <2>1, <2>2, <2>3
<1>. QED  BY <1>1, <1>2, <1>3 DEF Ranged

LEMMA MapRangeOK ==
  ASSUME NEW h, NEW sz, NEW us, HInv(h, sz, us, {}), Pgm(h) # 0,
         NEW value \in Nat \ {0}, NEW from \in Nat, NEW to \in Nat, from <= to,
         \A k \in from .. to - 1 : k \in Keys, NEW g, IsMapRange(h, value, from, to, g)
  PROVE  Ranged(h, sz, us, g, from, to, value)
<1>1. PICK f : Calls(1, f, h, Pgm(h), value, from, to) /\ g = f[to]
  BY MapRangeCalls
<1>2. /\ f[from] = h
      /\ \A i \in Nat : from + i < to =>
           f[from + (i + 1)] = Step(1, f[from + i], Pgm(h), value, from + i)
  <2>1. Stepped(1, f, h, Pgm(h), value, from, to)
    BY <1>1, CallsSteps
  <2>. QED  BY <2>1 DEF Stepped
<1>. DEFINE T == {i \in Nat : from + i <= to =>
                                Ranged(h, sz, us, f[from + i], from, from + i, value)}
<1>3. 0 \in T
  <2>1. f[from + 0] = h
    BY <1>2
  <2>2. Ranged(h, sz, us, h, from, from + 0, value)
    BY RangedNone
  <2>. QED  BY <2>1, <2>2
<1>4. ASSUME NEW i \in Nat, i \in T PROVE i + 1 \in T
  <2>1. SUFFICES ASSUME from + (i + 1) <= to
                 PROVE  Ranged(h, sz, us, f[from + (i + 1)], from, from + (i + 1), value)
    OBVIOUS
  <2>2. from + i < to /\ from + i <= to /\ from + i \in from .. to - 1
    BY <2>1
  <2>3. PICK x, y : x = f[from + i] /\ y = f[from + (i + 1)] /\ \E key \in Keys : key = from + i
    BY <2>2
  <2>k. PICK key \in Keys : key = from + i
    BY <2>3
  <2>4. Ranged(h, sz, us, x, from, from + i, value)
    BY <1>4, <2>2, <2>3
  <2>5. IsMap(x, key, value, y) /\ Pgm(x) # 0
    <3>1. Pgm(x) = Pgm(h)
      BY <2>4 DEF Ranged
    <3>. QED  BY <1>2, <2>2, <2>3, <2>k, <3>1 DEF IsMap, Step
  <2>6. PICK sz1, us1 : HInv(x, sz1, us1, {}) /\ SameUsers(us, us1)
    BY <2>4 DEF Ranged
  <2>7. /\ \E sz2, us2 : HInv(y, sz2, us2, {}) /\ SameUsers(us1, us2)
        /\ FoundPut(x, y, key, value)
    BY <2>5, <2>6, MapOK
  <2>8. PICK sz2, us2 : HInv(y, sz2, us2, {}) /\ SameUsers(us1, us2)
    BY <2>7
  <2>9. FoundPut(x, y, from + i, value)
    BY <2>k, <2>7
  <2>10. Ranged(h, sz, us, y, from, from + (i + 1), value)
    BY <2>4, <2>6, <2>8, <2>9, RangedMore
  <2>. QED  BY <2>3, <2>10
<1>5. T \in SUBSET Nat
  OBVIOUS
<1>6. \A i \in Nat : from + i <= to => Ranged(h, sz, us, f[from + i], from, from + i, value)
  <2>. HIDE DEF T
  <2>1. T = Nat
    BY <1>3, <1>4, <1>5, NatSetInduction
  <2>. QED  BY <2>1 DEF T
<1>7. to - from \in Nat /\ from + (to - from) = to
  OBVIOUS
<1>8. PICK n \in Nat : from + n = to
  BY <1>7
<1>. QED  BY <1>1, <1>6, <1>8

LEMMA UnmapRangeOK ==
  ASSUME NEW h, NEW sz, NEW us, HInv(h, sz, us, {}), Pgm(h) # 0,
         NEW from \in Nat, NEW to \in Nat, from <= to,
         \A k \in from .. to - 1 : k \in Keys /\ Get(Mem(h), Pgm(h), k) # 0,
         NEW g, IsUnmapRange(h, from, to, g)
  PROVE  Ranged(h, sz, us, g, from, to, 0) /\ (Ready(h) => Steady(h, g))
<1>1. PICK f : Calls(0, f, h, Pgm(h), 0, from, to) /\ g = f[to]
  BY UnmapRangeCalls
<1>2. /\ f[from] = h
      /\ \A i \in Nat : from + i < to =>
           f[from + (i + 1)] = Step(0, f[from + i], Pgm(h), 0, from + i)
  <2>1. Stepped(0, f, h, Pgm(h), 0, from, to)
    BY <1>1, CallsSteps
  <2>. QED  BY <2>1 DEF Stepped
<1>. DEFINE T == {i \in Nat : from + i <= to =>
                                /\ Ranged(h, sz, us, f[from + i], from, from + i, 0)
                                /\ Ready(h) => Steady(h, f[from + i])}
<1>3. 0 \in T
  <2>1. f[from + 0] = h
    BY <1>2
  <2>2. Ranged(h, sz, us, h, from, from + 0, 0) /\ Steady(h, h)
    BY RangedNone DEF Steady
  <2>. QED  BY <2>1, <2>2
<1>4. ASSUME NEW i \in Nat, i \in T PROVE i + 1 \in T
  <2>1. SUFFICES ASSUME from + (i + 1) <= to
                 PROVE  /\ Ranged(h, sz, us, f[from + (i + 1)], from, from + (i + 1), 0)
                        /\ Ready(h) => Steady(h, f[from + (i + 1)])
    OBVIOUS
  <2>2. from + i < to /\ from + i <= to /\ from + i \in from .. to - 1
    BY <2>1
  <2>3. PICK x, y : x = f[from + i] /\ y = f[from + (i + 1)] /\ \E key \in Keys : key = from + i
    BY <2>2
  <2>k. PICK key \in Keys : key = from + i
    BY <2>3
  <2>4. Ranged(h, sz, us, x, from, from + i, 0) /\ (Ready(h) => Steady(h, x))
    BY <1>4, <2>2, <2>3
  <2>5. IsUnmap(x, key, y) /\ Pgm(x) # 0 /\ Pgm(x) = Pgm(h)
    <3>1. Pgm(x) = Pgm(h)
      BY <2>4 DEF Ranged
    <3>. QED  BY <1>2, <2>2, <2>3, <2>k, <3>1 DEF IsUnmap, Step
  <2>6. PICK sz1, us1 : HInv(x, sz1, us1, {}) /\ SameUsers(us, us1)
    BY <2>4 DEF Ranged
  <2>m. Get(Mem(x), Pgm(x), key) # 0
    <3>1. Get(Mem(h), Pgm(h), key) # 0 /\ ~(key < from + i)
      BY <2>2, <2>k
    <3>2. Get(Mem(x), Pgm(h), key) = Get(Mem(h), Pgm(h), key)
      BY <2>4, <3>1 DEF Ranged
    <3>. QED  BY <2>5, <3>1, <3>2
  <2>7. /\ \E sz2, us2 : HInv(y, sz2, us2, {}) /\ SameUsers(us1, us2)
        /\ FoundPut(x, y, key, 0)
        /\ Ready(x) => Steady(x, y)
    BY <2>5, <2>6, <2>m, UnmapOK
  <2>8. PICK sz2, us2 : HInv(y, sz2, us2, {}) /\ SameUsers(us1, us2)
    BY <2>7
  <2>9. FoundPut(x, y, from + i, 0)
    BY <2>k, <2>7
  <2>10. Ranged(h, sz, us, y, from, from + (i + 1), 0)
    BY <2>4, <2>6, <2>8, <2>9, RangedMore
  <2>11. Ready(h) => Steady(h, y)
    BY <2>4, <2>7, ReadySteady, SteadyTwice
  <2>. QED  BY <2>3, <2>10, <2>11
<1>5. T \in SUBSET Nat
  OBVIOUS
<1>6. \A i \in Nat : from + i <= to => /\ Ranged(h, sz, us, f[from + i], from, from + i, 0)
                                       /\ Ready(h) => Steady(h, f[from + i])
  <2>. HIDE DEF T
  <2>1. T = Nat
    BY <1>3, <1>4, <1>5, NatSetInduction
  <2>. QED  BY <2>1 DEF T
<1>7. to - from \in Nat /\ from + (to - from) = to
  OBVIOUS
<1>8. PICK n \in Nat : from + n = to
  BY <1>7
<1>. QED  BY <1>1, <1>6, <1>8

-----------------------------------------------------------------------------
(* What the span layer does                                                *)

Covers(sp, s, k) == sp[s].from <= k /\ k < sp[s].to

RunOK(sp, s) ==
  /\ sp[s].from \in Nat /\ sp[s].to \in Nat /\ sp[s].from < sp[s].to
  /\ \A k \in sp[s].from .. sp[s].to - 1 : k \in Keys

\* A lookup is right: it finds the span that has the key, and nothing else.
Exact(h, sp, k) ==
  /\ Found(h, k) # 0 => Found(h, k) \in DOMAIN sp
  /\ \A s \in DOMAIN sp : Covers(sp, s, k) <=> Found(h, k) = s

MapInv(h, sp, C) ==
  /\ HeapOK(h, DOMAIN sp, C)
  /\ \A s \in DOMAIN sp : RunOK(sp, s)
  /\ \A k \in Keys : Exact(h, sp, k)

\* The objects behind it.
Objects(h, sp, C, sz, us) ==
  /\ HInv(h, sz, us, {})
  /\ \A p : p \in DOMAIN sp <=> p \in Of(us, "span")
  /\ \A p : p \in C <=> p \in Of(us, "chunk")

LEMMA MapObjects ==
  ASSUME NEW h, NEW sp, NEW C, MapInv(h, sp, C)
  PROVE  \E sz, us : Objects(h, sp, C, sz, us)
BY DEF MapInv, HeapOK, Objects

LEMMA NoZero ==
  ASSUME NEW h, NEW sp, NEW C, NEW sz, NEW us, Objects(h, sp, C, sz, us)
  PROVE  0 \notin DOMAIN sp /\ 0 \notin C
BY DEF Objects, HInv, AInv, ArenaOK, Layout, Of

LEMMA PageMapOK ==
  ASSUME NEW h, NEW sp, NEW C, MapInv(h, sp, C), NEW g, IsWithPgm(h, g)
  PROVE  MapInv(g, sp, C) /\ Pgm(g) # 0
<1>1. CASE Pgm(h) # 0
  BY <1>1 DEF IsWithPgm, WithPageMap, Pgm, NULL
<1>2. CASE Pgm(h) = 0
  <2>1. PICK sz, us : Objects(h, sp, C, sz, us)
    BY MapObjects
  <2>2. /\ \E sz2, us2 : HInv(g, sz2, us2, {}) /\ SameUsers(us, us2)
        /\ Pgm(g) # 0 /\ \A key \in Keys : Found(g, key) = Found(h, key)
    BY <1>2, <2>1, PageRoot DEF Objects
  <2>3. PICK sz2, us2 : HInv(g, sz2, us2, {}) /\ SameUsers(us, us2)
    BY <2>2
  <2>4. HeapOK(g, DOMAIN sp, C)
    BY <2>1, <2>3 DEF HeapOK, Objects, SameUsers
  <2>5. \A k \in Keys : Exact(g, sp, k)
    BY <2>2 DEF MapInv, Exact
  <2>. QED  BY <2>2, <2>4, <2>5 DEF MapInv
<1>. QED  BY <1>1, <1>2

\* A data_chunk_t more.
LEMMA ChunkRecord ==
  ASSUME NEW h, NEW sp, NEW C, MapInv(h, sp, C), Pgm(h) # 0,
         NEW g, NEW p, IsAlloc(h, DataChunkSize, g, p)
  PROVE  MapInv(g, sp, C \cup {p}) /\ Pgm(g) # 0
<1>1. PICK sz, us : Objects(h, sp, C, sz, us)
  BY MapObjects
<1>2. PICK u : u = "chunk"
  OBVIOUS
<1>3. /\ \E sz2, us2 :
           /\ HInv(g, sz2, us2, {})
           /\ \A v \in {"span", "chunk"} : \A q :
                q \in Of(us2, v) <=> IF q = p THEN v = u ELSE q \in Of(us, v)
      /\ p \notin Of(us, "span") /\ SameFound(h, g)
  <2>1. PICK size : size = DataChunkSize
    OBVIOUS
  <2>. QED  BY <1>1, <1>2, <2>1, UserAlloc DEF Objects
<1>4. PICK sz2, us2 :
        /\ HInv(g, sz2, us2, {})
        /\ \A v \in {"span", "chunk"} : \A q :
             q \in Of(us2, v) <=> IF q = p THEN v = u ELSE q \in Of(us, v)
  BY <1>3
<1>5. "span" # u
  BY <1>2
<1>6. \A q : q \in Of(us2, "span") <=> q \in Of(us, "span")
  BY <1>3, <1>4, <1>5
<1>7. \A q : q \in Of(us2, "chunk") <=> q \in C \/ q = p
  BY <1>1, <1>2, <1>4 DEF Objects
<1>8. HeapOK(g, DOMAIN sp, C \cup {p})
  BY <1>1, <1>4, <1>6, <1>7 DEF HeapOK, Objects
<1>9. Pgm(g) # 0 /\ \A k \in Keys : Exact(g, sp, k)
  BY <1>3 DEF MapInv, Exact, SameFound
<1>. QED  BY <1>8, <1>9 DEF MapInv

\* The spans sp2 are those of sp, less the keys from .. to - 1, and p with those.
Grown(sp, sp2, p, from, to) ==
  /\ \A s : s \in DOMAIN sp2 <=> s \in DOMAIN sp \/ s = p
  /\ \A s \in DOMAIN sp2 : RunOK(sp2, s)
  /\ sp2[p].from = from /\ sp2[p].to = to
  /\ \A s \in DOMAIN sp : \A k \in Keys :
       Covers(sp2, s, k) <=> Covers(sp, s, k) /\ ~(from <= k /\ k < to)

LEMMA SpanPlace ==
  ASSUME NEW h, NEW sp, NEW C, MapInv(h, sp, C), Pgm(h) # 0,
         NEW g, NEW p, IsAlloc(h, SpanSize, g, p)
  PROVE  p \notin DOMAIN sp /\ p \in Nat \ {0}
<1>1. PICK sz, us : Objects(h, sp, C, sz, us)
  BY MapObjects
<1>2. PICK u, size : u = "span" /\ size = SpanSize
  OBVIOUS
<1>3. p \in Nat \ {0} /\ p \notin Of(us, "span")
  BY <1>1, <1>2, UserAlloc DEF Objects
<1>. QED  BY <1>1, <1>3 DEF Objects

LEMMA NewSpan ==
  ASSUME NEW h, NEW sp, NEW C, MapInv(h, sp, C), Pgm(h) # 0,
         NEW h1, NEW p, IsAlloc(h, SpanSize, h1, p), NEW from \in Nat, NEW to \in Nat, from <= to,
         \A k \in from .. to - 1 : k \in Keys,
         NEW g, IsMapRange(h1, p, from, to, g), NEW sp2, Grown(sp, sp2, p, from, to)
  PROVE  MapInv(g, sp2, C) /\ Pgm(g) # 0
<1>1. PICK sz, us : Objects(h, sp, C, sz, us)
  BY MapObjects
<1>2. PICK u : u = "span"
  OBVIOUS
<1>3. /\ \E sz1, us1 :
           /\ HInv(h1, sz1, us1, {})
           /\ \A v \in {"span", "chunk"} : \A q :
                q \in Of(us1, v) <=> IF q = p THEN v = u ELSE q \in Of(us, v)
      /\ p \in Nat \ {0} /\ p \notin Of(us, "span") /\ p \notin Of(us, "chunk") /\ SameFound(h, h1)
  <2>1. PICK size : size = SpanSize
    OBVIOUS
  <2>. QED  BY <1>1, <1>2, <2>1, UserAlloc DEF Objects
<1>4. PICK sz1, us1 :
        /\ HInv(h1, sz1, us1, {})
        /\ \A v \in {"span", "chunk"} : \A q :
             q \in Of(us1, v) <=> IF q = p THEN v = u ELSE q \in Of(us, v)
  BY <1>3
<1>5. Pgm(h1) = Pgm(h) /\ \A key \in Keys : Get(Mem(h1), Pgm(h), key) = Found(h, key)
  BY <1>3 DEF SameFound, Found
<1>6. Ranged(h1, sz1, us1, g, from, to, p)
  BY <1>3, <1>4, <1>5, MapRangeOK
<1>7. PICK sz2, us2 : HInv(g, sz2, us2, {}) /\ SameUsers(us1, us2)
  BY <1>6 DEF Ranged
<1>8. /\ Pgm(g) = Pgm(h)
      /\ \A key \in Keys : Found(g, key) =
           IF from <= key /\ key < to THEN p ELSE Found(h, key)
  BY <1>5, <1>6 DEF Ranged, Found
<1>9. HeapOK(g, DOMAIN sp2, C)
  <2>1. "chunk" # u
    BY <1>2
  <2>2. \A q : q \in DOMAIN sp2 <=> q \in Of(us1, "span")
    BY <1>1, <1>2, <1>4 DEF Grown, Objects
  <2>3. \A q : q \in C <=> q \in Of(us1, "chunk")
    BY <1>1, <1>3, <1>4, <2>1 DEF Objects
  <2>. QED  BY <1>7, <2>2, <2>3 DEF HeapOK, SameUsers
<1>10. ASSUME NEW k \in Keys PROVE Exact(g, sp2, k)
  <2>1. Exact(h, sp, k) /\ p \notin DOMAIN sp /\ p # 0
    BY <1>1, <1>3 DEF MapInv, Objects
  <2>2. Covers(sp2, p, k) <=> from <= k /\ k < to
    BY DEF Grown, Covers
  <2>3. \A s \in DOMAIN sp2 : Covers(sp2, s, k) <=> Found(g, k) = s
    <3>1. ASSUME NEW s \in DOMAIN sp2 PROVE Covers(sp2, s, k) <=> Found(g, k) = s
      <4>1. CASE s = p
        <5>1. Found(h, k) # p
          BY <2>1 DEF Exact
        <5>. QED  BY <1>8, <2>2, <4>1, <5>1
      <4>2. CASE s # p
        <5>1. s \in DOMAIN sp
          BY <4>2 DEF Grown
        <5>2. Covers(sp2, s, k) <=> Covers(sp, s, k) /\ ~(from <= k /\ k < to)
          BY <5>1 DEF Grown
        <5>3. Covers(sp, s, k) <=> Found(h, k) = s
          BY <2>1, <5>1 DEF Exact
        <5>. QED  BY <1>8, <4>2, <5>2, <5>3
      <4>. QED  BY <4>1, <4>2
    <3>. QED  BY <3>1
  <2>4. Found(g, k) # 0 => Found(g, k) \in DOMAIN sp2
    BY <1>8, <2>1 DEF Exact, Grown
  <2>. QED  BY <2>3, <2>4 DEF Exact
<1>11. \A s \in DOMAIN sp2 : RunOK(sp2, s)
  BY DEF Grown
<1>. QED  BY <1>8, <1>9, <1>10, <1>11 DEF MapInv

\* A span is given back.
LEMMA SpanGone ==
  ASSUME NEW h, NEW sp, NEW C, MapInv(h, sp, C), NEW s \in DOMAIN sp,
         NEW h1, IsUnmapRange(h, sp[s].from, sp[s].to, h1),
         NEW g, IsFree(h1, s, SpanSize, g),
         NEW sp2, \A q : q \in DOMAIN sp2 <=> q \in DOMAIN sp /\ q # s,
         \A q \in DOMAIN sp2 : sp2[q] = sp[q]
  PROVE  MapInv(g, sp2, C) /\ (Ready(h) => Steady(h, g))
<1>1. PICK sz, us : Objects(h, sp, C, sz, us)
  BY MapObjects
<1>2. PICK from, to : from = sp[s].from /\ to = sp[s].to
  OBVIOUS
<1>3. /\ from \in Nat /\ to \in Nat /\ from < to /\ \A k \in from .. to - 1 : k \in Keys
      /\ \A k : Covers(sp, s, k) <=> from <= k /\ k < to
  BY <1>2 DEF MapInv, RunOK, Covers
<1>4. \A k \in from .. to - 1 : Found(h, k) = s
  <2>1. ASSUME NEW k \in from .. to - 1 PROVE Found(h, k) = s
    <3>1. k \in Keys /\ Covers(sp, s, k)
      BY <1>3
    <3>. QED  BY <3>1 DEF MapInv, Exact
  <2>. QED  BY <2>1
<1>5. s # 0 /\ Pgm(h) # 0
  <2>1. s # 0
    BY <1>1, NoZero
  <2>2. Found(h, from) = s
    BY <1>3, <1>4
  <2>. QED  BY <2>1, <2>2 DEF Found
<1>6. \A k \in from .. to - 1 : k \in Keys /\ Get(Mem(h), Pgm(h), k) # 0
  BY <1>3, <1>4, <1>5 DEF Found
<1>7. Ranged(h, sz, us, h1, from, to, 0) /\ (Ready(h) => Steady(h, h1))
  <2>1. IsUnmapRange(h, from, to, h1) /\ HInv(h, sz, us, {}) /\ from <= to
    BY <1>1, <1>2, <1>3 DEF Objects
  <2>. QED  BY <1>3, <1>5, <1>6, <2>1, UnmapRangeOK
<1>8. PICK sz1, us1 : HInv(h1, sz1, us1, {}) /\ SameUsers(us, us1)
  BY <1>7 DEF Ranged
<1>9. /\ s \in DOMAIN us1 /\ us1[s] = "span" /\ us1[s] \in UserUses /\ sz1[s] = SpanSize
      /\ AInv(h1, sz1, us1)
  <2>1. s \in Of(us1, "span")
    BY <1>1, <1>8 DEF Objects, SameUsers
  <2>. QED  BY <1>8, <2>1 DEF HInv, Of, UserUses
<1>10. /\ \E sz2, us2 : Released(h1, sz1, us1, g, sz2, us2, s)
       /\ Flm(h1) # 0 /\ LeavesOf(Mem(h1), Flm(h1), SpanSize) # 0 => Steady(h1, g)
  <2>1. PICK size \in FreeSizes : size = SpanSize
    BY DEF FreeSizes
  <2>. QED  BY <1>9, <2>1, FreeOK
<1>11. PICK sz2, us2 : Released(h1, sz1, us1, g, sz2, us2, s)
  BY <1>10
<1>12. /\ AInv(g, sz2, us2) /\ Kept(h1, sz1, us1, g, sz2, us2, {s}) /\ Pgm(g) = Pgm(h1)
       /\ s \in DOMAIN us2 /\ us2[s] = "listed"
  BY <1>11 DEF Released
<1>13. \A u \in UserUses : s \notin Of(us2, u)
  BY <1>12, UseSets DEF Of
<1>14. NoPage(us1, s) /\ NoPage(us2, s)
  <2>1. "span" \notin Uses(PageUse)
    BY DEF Uses, PageUse
  <2>. QED  BY <1>9, <1>13, <2>1, UseSets DEF NoPage, Of
<1>15. "span" \in UserUses /\ "chunk" \in UserUses
  BY DEF UserUses
<1>16. HInv(g, sz2, us2, {}) /\ SameFound(h1, g)
  <2>1. s \notin Of(us2, "span") /\ s \notin Of(us2, "chunk")
    BY <1>13, <1>15
  <2>2. Pgm(h1) # 0
    BY <1>5, <1>7 DEF Ranged
  <2>. QED  BY <1>8, <1>12, <1>14, <2>1, <2>2, HKept
<1>17. \A u \in {"span", "chunk"} : \A q : q \in Of(us2, u) <=> q \in Of(us1, u) /\ q # s
  <2>1. ASSUME NEW u \in {"span", "chunk"}, NEW q
        PROVE  q \in Of(us2, u) <=> q \in Of(us1, u) /\ q # s
    <3>1. u \in UserUses
      BY <1>15
    <3>2. CASE q = s
      BY <1>13, <3>1, <3>2
    <3>3. CASE q # s
      BY <1>12, <3>1, <3>3 DEF Kept
    <3>. QED  BY <3>2, <3>3
  <2>. QED  BY <2>1
<1>18. HeapOK(g, DOMAIN sp2, C)
  <2>1. \A q : q \in DOMAIN sp2 <=> q \in Of(us2, "span")
    BY <1>1, <1>8, <1>17 DEF Objects, SameUsers
  <2>2. s \notin Of(us1, "chunk")
    <3>1. us1[s] # "chunk"
      BY <1>9
    <3>. QED  BY <3>1 DEF Of
  <2>3. \A q : q \in C <=> q \in Of(us2, "chunk")
    BY <1>1, <1>8, <1>17, <2>2 DEF Objects, SameUsers
  <2>. QED  BY <1>16, <2>1, <2>3 DEF HeapOK
<1>19. \A k \in Keys : Found(g, k) = IF from <= k /\ k < to THEN 0 ELSE Found(h, k)
  <2>1. Pgm(h1) = Pgm(h)
    BY <1>7 DEF Ranged
  <2>2. \A k \in Keys : Found(g, k) = Get(Mem(h1), Pgm(h), k)
    BY <1>5, <1>16, <2>1 DEF SameFound, Found
  <2>. QED  BY <1>5, <1>7, <2>2 DEF Ranged, Found
<1>20. ASSUME NEW k \in Keys PROVE Exact(g, sp2, k)
  <2>1. Exact(h, sp, k)
    BY DEF MapInv
  <2>2. Found(h, k) = s <=> from <= k /\ k < to
    BY <1>3, <2>1 DEF Exact
  <2>3. \A q \in DOMAIN sp2 : q \in DOMAIN sp /\ q # s /\ q # 0
    BY <1>1, NoZero
  <2>4. \A q \in DOMAIN sp2 : Covers(sp2, q, k) <=> Covers(sp, q, k)
    BY DEF Covers
  <2>5. \A q \in DOMAIN sp2 : Covers(sp2, q, k) <=> Found(g, k) = q
    BY <1>19, <2>1, <2>2, <2>3, <2>4 DEF Exact
  <2>6. Found(g, k) # 0 => Found(g, k) \in DOMAIN sp2
    BY <1>19, <2>1, <2>2 DEF Exact
  <2>. QED  BY <2>5, <2>6 DEF Exact
<1>21. \A q \in DOMAIN sp2 : RunOK(sp2, q)
  <2>1. \A q \in DOMAIN sp2 : RunOK(sp, q)
    BY DEF MapInv
  <2>. QED  BY <2>1 DEF RunOK
<1>22. ASSUME Ready(h) PROVE Steady(h, g)
  <2>1. SpanSize \in FreeSizes
    BY DEF FreeSizes
  <2>2. Steady(h, h1) /\ Ready(h1)
    BY <1>7, <1>22, ReadySteady
  <2>3. Steady(h1, g)
    BY <1>10, <2>1, <2>2 DEF Ready
  <2>. QED  BY <2>2, <2>3, SteadyTwice
<1>. QED  BY <1>18, <1>20, <1>21, <1>22 DEF MapInv

-----------------------------------------------------------------------------
(* The invariant                                                           *)

SpanTypes(sp) == \A s \in DOMAIN sp : sp[s] \in [from : Nat, to : Nat, direct : BOOLEAN]

\* The inductive invariant.
Inv ==
  /\ MapInv(heap, spans, chunks) /\ SpanTypes(spans)
  /\ heap.count <= MaxChunks /\ failed \in BOOLEAN

LEMMA KeyBelow ==
  ASSUME NEW a \in Keys, NEW k \in Nat, k <= a
  PROVE  k \in Keys
<1>1. L1_SIZE * L2_SIZE * L3_SIZE \in Nat
  BY Constants
<1>2. PICK n \in Nat : n = L1_SIZE * L2_SIZE * L3_SIZE
  BY <1>1
<1>3. Keys = 0 .. n - 1
  BY <1>2 DEF Keys
<1>. QED  BY <1>3

LEMMA RunKeys ==
  ASSUME NEW run \in ChunkRuns \cup DirectRuns
  PROVE  /\ run[1] \in Nat /\ run[2] \in Nat /\ run[1] < run[2]
         /\ \A k \in run[1] .. run[2] - 1 : k \in Keys
<1>1. /\ run \in Nat \X Nat /\ run[1] < run[2] /\ run[2] - 1 \in Keys
  BY RangeMapAssumption
<1>2. PICK a, b \in Nat : a = run[1] /\ b = run[2] /\ a < b /\ b - 1 \in Keys
  BY <1>1
<1>3. \A k \in a .. b - 1 : k \in Keys
  BY <1>2, KeyBelow
<1>. QED  BY <1>2, <1>3

\* The spans sp are apart from the keys from .. to - 1.
Unspanned(sp, from, to) == \A s \in DOMAIN sp : ~(from < sp[s].to /\ sp[s].from < to)

Added(sp, sp2, p, from, to, direct) ==
  sp2 = [r \in DOMAIN sp \cup {p} |->
           IF r = p THEN [from |-> from, to |-> to, direct |-> direct] ELSE sp[r]]

LEMMA AddedGrown ==
  ASSUME NEW sp, SpanTypes(sp), \A s \in DOMAIN sp : RunOK(sp, s), NEW p, p \notin DOMAIN sp,
         NEW from \in Nat, NEW to \in Nat, from < to, \A k \in from .. to - 1 : k \in Keys,
         Unspanned(sp, from, to), NEW direct \in BOOLEAN, NEW sp2, Added(sp, sp2, p, from, to, direct)
  PROVE  Grown(sp, sp2, p, from, to) /\ SpanTypes(sp2)
<1>1. /\ \A s : s \in DOMAIN sp2 <=> s \in DOMAIN sp \/ s = p
      /\ sp2[p] = [from |-> from, to |-> to, direct |-> direct]
      /\ \A s \in DOMAIN sp : sp2[s] = sp[s]
  BY DEF Added
<1>2. sp2[p].from = from /\ sp2[p].to = to
  BY <1>1
<1>3. RunOK(sp2, p)
  BY <1>2 DEF RunOK
<1>4. \A s \in DOMAIN sp : RunOK(sp2, s)
  <2>1. ASSUME NEW s \in DOMAIN sp PROVE RunOK(sp2, s)
    <3>1. RunOK(sp, s) /\ sp2[s] = sp[s]
      BY <1>1
    <3>. QED  BY <3>1 DEF RunOK
  <2>. QED  BY <2>1
<1>5. \A s \in DOMAIN sp2 : RunOK(sp2, s)
  BY <1>1, <1>3, <1>4
<1>6. ASSUME NEW s \in DOMAIN sp, NEW k \in Keys
      PROVE  Covers(sp2, s, k) <=> Covers(sp, s, k) /\ ~(from <= k /\ k < to)
  <2>1. PICK a \in Nat, b \in Nat : a = sp[s].from /\ b = sp[s].to
    BY DEF RunOK
  <2>2. ~(from < b /\ a < to)
    BY <2>1 DEF Unspanned
  <2>3. Covers(sp, s, k) <=> a <= k /\ k < b
    BY <2>1 DEF Covers
  <2>4. Covers(sp2, s, k) <=> a <= k /\ k < b
    BY <1>1, <2>1 DEF Covers
  <2>. QED  BY <2>2, <2>3, <2>4, KeyRange
<1>7. Grown(sp, sp2, p, from, to)
  BY <1>1, <1>2, <1>5, <1>6 DEF Grown
<1>8. SpanTypes(sp2)
  <2>1. sp2[p] \in [from : Nat, to : Nat, direct : BOOLEAN]
    BY <1>1
  <2>. QED  BY <1>1, <2>1 DEF SpanTypes
<1>. QED  BY <1>7, <1>8

\* What is committed keeps the invariant.
LEMMA CommitInv ==
  ASSUME Inv, NEW new, NEW newSpans, NEW newChunks, MapInv(new, newSpans, newChunks),
         SpanTypes(newSpans), Commit(new, newSpans, newChunks)
  PROVE  Inv'
<1>1. CASE /\ new.count <= MaxChunks /\ heap' = new /\ spans' = newSpans
           /\ chunks' = newChunks /\ UNCHANGED failed
  BY <1>1 DEF Inv
<1>2. CASE failed' = TRUE /\ UNCHANGED <<heap, spans, chunks>>
  BY <1>2 DEF Inv
<1>. QED  BY <1>1, <1>2 DEF Commit

LEMMA InitInv == Init => Inv
<1>. SUFFICES ASSUME Init PROVE Inv
  OBVIOUS
<1>1. PICK h : h = heap
  OBVIOUS
<1>2. /\ Mem(h) = [a \in {} |-> 0] /\ Cur(h) = 0 /\ End(h) = 0 /\ Count(h) = 0
      /\ Pgm(h) = 0 /\ Flm(h) = 0 /\ Objs(h) = {}
  BY <1>1 DEF Init, Mem, Cur, End, Count, Pgm, Flm, Objs, NULL
<1>3. h \in Heaps
  <2>1. [a \in {} |-> 0] \in [{} -> Nat] /\ {} \in SUBSET Nat
    OBVIOUS
  <2>2. [a \in {} |-> 0] \in Memory
    BY <2>1, IsMemory
  <2>. QED  BY <1>1, <2>2 DEF Init, Heaps, NULL
<1>4. PICK sz, us : sz = [p \in {} |-> 0] /\ us = [p \in {} |-> 0]
  OBVIOUS
<1>5. DOMAIN sz = {} /\ DOMAIN us = {} /\ \A u : \A p : p \notin Of(us, u)
  BY <1>4 DEF Of
<1>6. Chunked(h)
  <2>1. ChunkBase(0 + 1) = ALIGNMENT
    BY Constants DEF ChunkBase
  <2>2. ALIGNMENT .. ALIGNMENT - 1 = {} /\ 0 % ALIGNMENT = 0
    <3>1. 0 = ALIGNMENT * 0
      BY Constants
    <3>2. 0 % ALIGNMENT = 0
      BY <3>1, Aligned
    <3>. QED  BY <3>2, Constants
  <2>. QED  BY <1>2, <2>1, <2>2 DEF Chunked
<1>7. ArenaOK(h, sz, us)
  <2>1. Layout(sz, us) /\ IsFiniteSet(DOMAIN sz)
    BY <1>5, FS_EmptySet DEF Layout
  <2>2. Objs(h) = {<<p, sz[p]>> : p \in DOMAIN sz}
    BY <1>2, <1>5
  <2>3. DOMAIN Mem(h) = {}
    BY <1>2
  <2>. QED  BY <1>3, <1>5, <1>6, <2>1, <2>2, <2>3 DEF ArenaOK
<1>8. AInv(h, sz, us)
  BY <1>2, <1>5, <1>7 DEF AInv, FreeInv
<1>9. HInv(h, sz, us, {})
  BY <1>2, <1>5, <1>8 DEF HInv, PageOK
<1>10. DOMAIN spans = {} /\ chunks = {} /\ failed = FALSE
  BY DEF Init
<1>11. HeapOK(h, DOMAIN spans, chunks)
  BY <1>5, <1>9, <1>10 DEF HeapOK
<1>12. \A k \in Keys : Exact(h, spans, k)
  BY <1>2, <1>10 DEF Exact, Found
<1>13. heap.count <= MaxChunks
  BY <1>1, <1>2, Constants DEF Count
<1>. QED  BY <1>1, <1>10, <1>11, <1>12, <1>13 DEF Inv, MapInv, SpanTypes

\* A span for keys that no span has.
LEMMA SpanAdded ==
  ASSUME NEW h, NEW sp, NEW C, MapInv(h, sp, C), SpanTypes(sp), Pgm(h) # 0,
         NEW h1, NEW p, IsAlloc(h, SpanSize, h1, p),
         NEW from \in Nat, NEW to \in Nat, from < to, \A k \in from .. to - 1 : k \in Keys,
         NEW g, IsMapRange(h1, p, from, to, g), Unspanned(sp, from, to), NEW direct \in BOOLEAN,
         NEW sp2, Added(sp, sp2, p, from, to, direct)
  PROVE  MapInv(g, sp2, C) /\ SpanTypes(sp2) /\ Pgm(g) # 0
<1>1. p \notin DOMAIN sp
  BY SpanPlace
<1>2. \A s \in DOMAIN sp : RunOK(sp, s)
  BY DEF MapInv
<1>3. Grown(sp, sp2, p, from, to) /\ SpanTypes(sp2)
  BY <1>1, <1>2, AddedGrown
<1>4. from <= to
  OBVIOUS
<1>. QED  BY <1>3, <1>4, NewSpan

LEMMA MapDirectInv ==
  ASSUME Inv, NEW run \in DirectRuns, ~Overlaps(run), MapDirect(run[1], run[2])
  PROVE  Inv'
<1>1. PICK from, to : from = run[1] /\ to = run[2]
  OBVIOUS
<1>2. from \in Nat /\ to \in Nat /\ from < to /\ \A k \in from .. to - 1 : k \in Keys
  BY <1>1, RunKeys
<1>3. PICK h, h1, p, g, sp2 :
        /\ IsWithPgm(heap, h) /\ IsAlloc(h, SpanSize, h1, p) /\ IsMapRange(h1, p, from, to, g)
        /\ sp2 = With(p, from, to, TRUE) /\ Commit(g, sp2, chunks)
  BY <1>1 DEF MapDirect, IsWithPgm, IsAlloc, IsMapRange
<1>4. Unspanned(spans, from, to)
  BY <1>1 DEF Overlaps, Unspanned
<1>5. MapInv(heap, spans, chunks) /\ SpanTypes(spans)
  BY DEF Inv
<1>6. PICK direct \in BOOLEAN : direct = TRUE
  OBVIOUS
<1>7. Added(spans, sp2, p, from, to, direct)
  BY <1>3, <1>6 DEF Added, With
<1>8. MapInv(h, spans, chunks) /\ Pgm(h) # 0
  BY <1>3, <1>5, PageMapOK
<1>9. MapInv(g, sp2, chunks) /\ SpanTypes(sp2)
  BY <1>2, <1>3, <1>4, <1>5, <1>7, <1>8, SpanAdded
<1>. QED  BY <1>3, <1>9, CommitInv

LEMMA MapChunkInv ==
  ASSUME Inv, NEW run \in ChunkRuns, NEW mid \in run[1] + 1 .. run[2], ~Overlaps(run),
         MapChunk(run[1], mid, run[2])
  PROVE  Inv'
<1>1. PICK from, to : from = run[1] /\ to = run[2]
  OBVIOUS
<1>2. from \in Nat /\ to \in Nat /\ from < to /\ \A k \in from .. to - 1 : k \in Keys
  BY <1>1, RunKeys
<1>3. mid \in Nat /\ from < mid /\ mid <= to
  <2>1. mid \in from + 1 .. to
    BY <1>1
  <2>. QED  BY <1>2, <2>1
<1>a. PICK h, h1, c : IsWithPgm(heap, h) /\ IsAlloc(h, DataChunkSize, h1, c)
  BY DEF IsWithPgm, IsAlloc
<1>b. PICK h2, p : IsAlloc(h1, SpanSize, h2, p)
  BY DEF IsAlloc
<1>c. PICK h3 : IsMapRange(h2, p, from, mid, h3)
  BY DEF IsMapRange
<1>d. PICK h4, q : IsAlloc(h3, SpanSize, h4, q)
  BY DEF IsAlloc
<1>e. PICK g : IsMapRange(h4, q, mid, to, g)
  BY DEF IsMapRange
<1>f. PICK sp1 : sp1 = With(p, from, mid, FALSE)
  OBVIOUS
<1>g. PICK sp2 : sp2 = [r \in DOMAIN sp1 \cup {q} |->
                    IF r = q THEN [from |-> mid, to |-> to, direct |-> FALSE] ELSE sp1[r]]
  OBVIOUS
<1>4. IF mid = to THEN Commit(h3, sp1, chunks \cup {c}) ELSE Commit(g, sp2, chunks \cup {c})
  BY <1>1, <1>a, <1>b, <1>c, <1>d, <1>e, <1>f, <1>g
     DEF MapChunk, IsWithPgm, IsAlloc, IsMapRange
<1>5. MapInv(heap, spans, chunks) /\ SpanTypes(spans)
  BY DEF Inv
<1>6. PICK C : C = chunks \cup {c}
  OBVIOUS
<1>7. MapInv(h1, spans, C) /\ Pgm(h1) # 0
  <2>1. MapInv(h, spans, chunks) /\ Pgm(h) # 0
    BY <1>a, <1>5, PageMapOK
  <2>. QED  BY <1>a, <1>6, <2>1, ChunkRecord
<1>8. Unspanned(spans, from, to) /\ Unspanned(spans, from, mid) /\ Unspanned(spans, mid, to)
  <2>1. \A s \in DOMAIN spans : ~(from < spans[s].to /\ spans[s].from < to)
    BY <1>1 DEF Overlaps
  <2>2. \A s \in DOMAIN spans : spans[s].from \in Nat /\ spans[s].to \in Nat
    BY <1>5 DEF SpanTypes
  <2>. QED  BY <1>2, <1>3, <2>1, <2>2 DEF Unspanned
<1>9. PICK direct \in BOOLEAN : direct = FALSE
  OBVIOUS
<1>10. Added(spans, sp1, p, from, mid, direct) /\ Added(sp1, sp2, q, mid, to, direct)
  BY <1>f, <1>g, <1>9 DEF Added, With
<1>11. MapInv(h3, sp1, C) /\ SpanTypes(sp1) /\ Pgm(h3) # 0
  <2>1. \A k \in from .. mid - 1 : k \in Keys
    BY <1>2, <1>3
  <2>. QED  BY <1>2, <1>3, <1>b, <1>c, <1>5, <1>7, <1>8, <1>10, <2>1, SpanAdded
<1>12. CASE mid = to
  BY <1>4, <1>6, <1>11, <1>12, CommitInv
<1>13. CASE mid # to
  <2>1. Unspanned(sp1, mid, to)
    <3>1. ASSUME NEW s \in DOMAIN sp1 PROVE ~(mid < sp1[s].to /\ sp1[s].from < to)
      <4>1. CASE s = p
        <5>1. sp1[s].to = mid
          BY <1>10, <4>1 DEF Added
        <5>. QED  BY <1>3, <5>1
      <4>2. CASE s # p
        <5>1. s \in DOMAIN spans /\ sp1[s] = spans[s]
          BY <1>10, <4>2 DEF Added
        <5>. QED  BY <1>8, <5>1 DEF Unspanned
      <4>. QED  BY <4>1, <4>2
    <3>. QED  BY <3>1 DEF Unspanned
  <2>2. mid < to /\ \A k \in mid .. to - 1 : k \in Keys
    BY <1>2, <1>3, <1>13
  <2>3. MapInv(g, sp2, C) /\ SpanTypes(sp2)
    BY <1>2, <1>3, <1>d, <1>e, <1>10, <1>11, <2>1, <2>2, SpanAdded
  <2>. QED  BY <1>4, <1>6, <1>13, <2>3, CommitInv
<1>. QED  BY <1>12, <1>13

LEMMA SplitSpanInv ==
  ASSUME Inv, NEW s \in DOMAIN spans, NEW mid \in spans[s].from + 1 .. spans[s].to - 1,
         SplitSpan(s, mid)
  PROVE  Inv'
<1>1. MapInv(heap, spans, chunks) /\ SpanTypes(spans)
  BY DEF Inv
<1>2. PICK from, to, old : from = spans[s].from /\ to = spans[s].to /\ old = spans
  OBVIOUS
<1>3. /\ from \in Nat /\ to \in Nat /\ from < to /\ \A k \in from .. to - 1 : k \in Keys
      /\ mid \in Nat /\ from < mid /\ mid < to
  <2>1. from \in Nat /\ to \in Nat /\ from < to /\ \A k \in from .. to - 1 : k \in Keys
    BY <1>1, <1>2 DEF MapInv, RunOK
  <2>2. mid \in from + 1 .. to - 1
    BY <1>2
  <2>. QED  BY <2>1, <2>2
<1>4. PICK h1, p, g, sp2 :
        /\ IsAlloc(heap, SpanSize, h1, p) /\ IsMapRange(h1, p, mid, to, g)
        /\ sp2 = [With(p, mid, to, FALSE) EXCEPT ![s].to = mid]
        /\ Commit(g, sp2, chunks)
  BY <1>2 DEF SplitSpan, IsAlloc, IsMapRange
<1>5. Pgm(heap) # 0 /\ s # 0
  <2>1. from \in Keys /\ Covers(spans, s, from)
    BY <1>2, <1>3 DEF Covers
  <2>2. s # 0
    BY <1>1, MapObjects, NoZero
  <2>3. Found(heap, from) = s
    BY <1>1, <2>1 DEF MapInv, Exact
  <2>. QED  BY <2>2, <2>3 DEF Found
<1>6. p \notin DOMAIN spans
  BY <1>1, <1>4, <1>5, SpanPlace
<1>7. /\ \A r : r \in DOMAIN sp2 <=> r \in DOMAIN spans \/ r = p
      /\ sp2[p] = [from |-> mid, to |-> to, direct |-> FALSE]
      /\ \A r \in DOMAIN spans : r # s => sp2[r] = spans[r]
      /\ sp2[s] = [spans[s] EXCEPT !.to = mid]
  <2>1. PICK w : w = With(p, mid, to, FALSE)
    OBVIOUS
  <2>2. /\ DOMAIN w = DOMAIN spans \cup {p}
        /\ w[p] = [from |-> mid, to |-> to, direct |-> FALSE]
        /\ \A r \in DOMAIN spans : w[r] = spans[r]
    BY <1>6, <2>1 DEF With
  <2>3. sp2 = [w EXCEPT ![s].to = mid]
    BY <1>4, <2>1
  <2>4. s # p
    BY <1>6
  <2>. QED  BY <2>2, <2>3, <2>4
<1>8. /\ sp2[s] \in [from : Nat, to : Nat, direct : BOOLEAN]
      /\ sp2[s].from = from /\ sp2[s].to = mid
  <2>1. spans[s] \in [from : Nat, to : Nat, direct : BOOLEAN]
    BY <1>1 DEF SpanTypes
  <2>. QED  BY <1>2, <1>3, <1>7, <2>1
<1>9. SpanTypes(sp2)
  <2>1. sp2[p] \in [from : Nat, to : Nat, direct : BOOLEAN]
    BY <1>3, <1>7
  <2>. QED  BY <1>1, <1>7, <1>8, <2>1 DEF SpanTypes
<1>10. \A r \in DOMAIN sp2 : RunOK(sp2, r)
  <2>1. RunOK(sp2, p)
    <3>1. sp2[p].from = mid /\ sp2[p].to = to
      BY <1>7
    <3>. QED  BY <1>3, <3>1 DEF RunOK
  <2>2. RunOK(sp2, s)
    BY <1>3, <1>8 DEF RunOK
  <2>3. ASSUME NEW r \in DOMAIN spans, r # s PROVE RunOK(sp2, r)
    <3>1. RunOK(spans, r) /\ sp2[r] = spans[r]
      BY <1>1, <1>7, <2>3 DEF MapInv
    <3>. QED  BY <3>1 DEF RunOK
  <2>. QED  BY <1>7, <2>1, <2>2, <2>3
<1>11. ASSUME NEW r \in DOMAIN spans, NEW k \in Keys
       PROVE  Covers(sp2, r, k) <=> Covers(spans, r, k) /\ ~(mid <= k /\ k < to)
  <2>1. CASE r = s
    <3>1. Covers(sp2, r, k) <=> from <= k /\ k < mid
      BY <1>8, <2>1 DEF Covers
    <3>2. Covers(spans, r, k) <=> from <= k /\ k < to
      BY <1>2, <2>1 DEF Covers
    <3>. QED  BY <1>3, <3>1, <3>2, KeyRange
  <2>2. CASE r # s
    <3>1. Covers(sp2, r, k) <=> Covers(spans, r, k)
      BY <1>7, <2>2 DEF Covers
    <3>2. ~(Covers(spans, r, k) /\ Covers(spans, s, k))
      <4>1. Exact(heap, spans, k)
        BY <1>1 DEF MapInv
      <4>. QED  BY <2>2, <4>1 DEF Exact
    <3>3. mid <= k /\ k < to => Covers(spans, s, k)
      BY <1>2, <1>3, KeyRange DEF Covers
    <3>. QED  BY <3>1, <3>2, <3>3
  <2>. QED  BY <2>1, <2>2
<1>12. Grown(spans, sp2, p, mid, to)
  <2>1. sp2[p].from = mid /\ sp2[p].to = to
    BY <1>7
  <2>. QED  BY <1>7, <1>10, <1>11, <2>1 DEF Grown
<1>13. MapInv(g, sp2, chunks)
  <2>1. \A k \in mid .. to - 1 : k \in Keys
    BY <1>3
  <2>. QED  BY <1>1, <1>3, <1>4, <1>5, <1>12, <2>1, NewSpan
<1>. QED  BY <1>4, <1>9, <1>13, CommitInv

\* The heap and the spans once the span s is given back.
Given(s, g, sp2) ==
  /\ MapInv(g, sp2, chunks) /\ SpanTypes(sp2) /\ Commit(g, sp2, chunks)
  /\ Ready(heap) => Steady(heap, g)

LEMMA UnmapDirectGiven ==
  ASSUME Inv, NEW s \in DOMAIN spans, UnmapDirect(s)
  PROVE  \E g, sp2 : Given(s, g, sp2)
<1>1. MapInv(heap, spans, chunks) /\ SpanTypes(spans)
  BY DEF Inv
<1>2. PICK h1, g, sp2 :
        /\ IsUnmapRange(heap, spans[s].from, spans[s].to, h1) /\ IsFree(h1, s, SpanSize, g)
        /\ sp2 = [r \in DOMAIN spans \ {s} |-> spans[r]] /\ Commit(g, sp2, chunks)
  BY DEF UnmapDirect, IsUnmapRange, IsFree
<1>3. /\ \A q : q \in DOMAIN sp2 <=> q \in DOMAIN spans /\ q # s
      /\ \A q \in DOMAIN sp2 : sp2[q] = spans[q]
  BY <1>2
<1>4. MapInv(g, sp2, chunks) /\ (Ready(heap) => Steady(heap, g))
  BY <1>1, <1>2, <1>3, SpanGone
<1>5. SpanTypes(sp2)
  BY <1>1, <1>3 DEF SpanTypes
<1>. QED  BY <1>2, <1>4, <1>5 DEF Given

LEMMA NextInv == Inv /\ [Next]_vars => Inv'
<1>. SUFFICES ASSUME Inv, [Next]_vars PROVE Inv'
  OBVIOUS
<1>1. CASE UNCHANGED vars
  BY <1>1 DEF Inv, vars
<1>2. ASSUME NEW run \in DirectRuns, ~Overlaps(run), MapDirect(run[1], run[2]) PROVE Inv'
  BY <1>2, MapDirectInv
<1>3. ASSUME NEW s \in DOMAIN spans, UnmapDirect(s) PROVE Inv'
  <2>1. PICK g, sp2 : Given(s, g, sp2)
    BY <1>3, UnmapDirectGiven
  <2>. QED  BY <2>1, CommitInv DEF Given
<1>4. ASSUME NEW run \in ChunkRuns, NEW mid \in run[1] + 1 .. run[2], ~Overlaps(run),
             MapChunk(run[1], mid, run[2])
      PROVE  Inv'
  BY <1>4, MapChunkInv
<1>5. ASSUME NEW s \in DOMAIN spans, NEW mid \in spans[s].from + 1 .. spans[s].to - 1,
             SplitSpan(s, mid)
      PROVE  Inv'
  BY <1>5, SplitSpanInv
<1>. QED  BY <1>1, <1>2, <1>3, <1>4, <1>5 DEF Next, DirectNext, ChunkNext

THEOREM SpecInv == Spec => []Inv
BY InitInv, NextInv, PTL DEF Spec

-----------------------------------------------------------------------------
(* Lookups and counts                                                      *)

LEMMA InvObjects ==
  ASSUME Inv
  PROVE  \E h, sz, us : h = heap /\ Objects(h, spans, chunks, sz, us)
BY MapObjects DEF Inv

\* What a lookup finds is the only span with the key.
LEMMA ExactOwner ==
  ASSUME NEW h, NEW sp, NEW k, Exact(h, sp, k), 0 \notin DOMAIN sp,
         SpanTypes(sp), k \in Nat
  PROVE  {s \in DOMAIN sp : k \in sp[s].from .. sp[s].to - 1}
           = (IF Found(h, k) = 0 THEN {} ELSE {Found(h, k)})
<1>1. ASSUME NEW s \in DOMAIN sp
      PROVE  k \in sp[s].from .. sp[s].to - 1 <=> Found(h, k) = s
  <2>1. PICK a \in Nat, b \in Nat : a = sp[s].from /\ b = sp[s].to
    BY DEF SpanTypes
  <2>2. Covers(sp, s, k) <=> k \in a .. b - 1
    BY <2>1 DEF Covers
  <2>. QED  BY <2>1, <2>2 DEF Exact
<1>2. Found(h, k) # 0 => Found(h, k) \in DOMAIN sp
  BY DEF Exact
<1>. QED  BY <1>1, <1>2

\* Every lookup (cmalloc_get) is exact: a page of a span yields its span_t, any
\* other page NULL, through every mapping, split, release and reuse of nodes.
THEOREM SpecLookupExact == Spec => []LookupExact
<1>1. Inv => LookupExact
  <2>. SUFFICES ASSUME Inv, NEW k \in Keys
                PROVE  LET found == IF heap.page_map = NULL THEN NULL
                                    ELSE Get(heap.mem, heap.page_map, k)
                           owners == {s \in DOMAIN spans : k \in spans[s].from .. spans[s].to - 1}
                       IN owners = (IF found = NULL THEN {} ELSE {found})
    BY DEF LookupExact
  <2>1. 0 \notin DOMAIN spans
    BY InvObjects, NoZero
  <2>2. {s \in DOMAIN spans : k \in spans[s].from .. spans[s].to - 1}
          = (IF Found(heap, k) = 0 THEN {} ELSE {Found(heap, k)})
    BY <2>1, ExactOwner, KeyRange DEF Inv, MapInv
  <2>3. Found(heap, k) = IF heap.page_map = NULL THEN NULL
                         ELSE Get(heap.mem, heap.page_map, k)
    BY DEF Found, Pgm, Mem, NULL
  <2>. QED  BY <2>2, <2>3 DEF NULL
<1>. QED  BY <1>1, SpecInv, PTL

\* Slots that are not NULL link the nodes.
LEMMA LinkedNodes ==
  ASSUME NEW m, NEW sz, NEW us, NEW r, NEW k, Layout(sz, us), Trie(m, sz, us, r, k)
  PROVE  /\ \A a \in Slots(r, L1_SIZE) : m[a] # 0 => m[a] \in Of(us, k.node)
         /\ \A a \in Slots(r, L1_SIZE) : \A b \in Slots(m[a], L2_SIZE) :
              m[a] # 0 /\ m[b] # 0 => m[b] \in Of(us, k.leaf)
<1>1. \A a \in Slots(r, L1_SIZE) : m[a] # 0 => m[a] \in Of(us, k.node)
  BY DEF Trie, Links
<1>2. ASSUME NEW a \in Slots(r, L1_SIZE), NEW b \in Slots(m[a], L2_SIZE), m[a] # 0, m[b] # 0
      PROVE  m[b] \in Of(us, k.leaf)
  <2>1. b \in NodeSlotsIn(us, k)
    BY <1>1, <1>2, TrieWords
  <2>. QED  BY <1>2, <2>1 DEF Trie, Links
<1>. QED  BY <1>1, <1>2

\* The nodes in the slots below a root.
LEMMA SlotsLinked ==
  ASSUME NEW m, m = heap.mem, NEW r, r # 0
  PROVE  /\ \A a : a \in NodeSlots(r) <=> a \in Slots(r, L1_SIZE) /\ m[a] # 0
         /\ \A b : b \in LeafNodeSlots(r) <=>
              \E a \in Slots(r, L1_SIZE) : m[a] # 0 /\ b \in Slots(m[a], L2_SIZE) /\ m[b] # 0
<1>1. \A a : a \in NodeSlots(r) <=> a \in Slots(r, L1_SIZE) /\ m[a] # 0
  BY DEF NodeSlots, Slots, NULL
<1>2. \A a, b : b \in Slots2Of(a) <=> b \in Slots(m[a], L2_SIZE) /\ m[b] # 0
  BY DEF Slots2Of, Slots, NULL
<1>3. \A b : b \in LeafNodeSlots(r) <=> \E a \in NodeSlots(r) : b \in Slots2Of(a)
  BY DEF LeafNodeSlots
<1>. QED  BY <1>1, <1>2, <1>3

LEMMA NoSlots == NodeSlots(0) = {} /\ LeafNodeSlots(0) = {}
BY DEF NodeSlots, LeafNodeSlots, NULL

\* A node of the page map counts its entries and has at least one, so that
\* cmalloc_unmap neither releases a node that is in use nor keeps an empty one.
THEOREM SpecCountsExact == Spec => []CountsExact
<1>1. Inv => CountsExact
  <2>. SUFFICES ASSUME Inv PROVE CountsExact
    OBVIOUS
  <2>1. PICK h, sz, us : h = heap /\ Objects(h, spans, chunks, sz, us)
    BY InvObjects
  <2>2. PICK m, r : m = heap.mem /\ r = heap.page_map
    OBVIOUS
  <2>3. PageOK(m, r, sz, us, {}) /\ Layout(sz, us)
    BY <2>1, <2>2 DEF Objects, HInv, AInv, ArenaOK, Mem, Pgm
  <2>4. \A p \in Of(us, PageUse.node) : r # 0 =>
          m[p + L2_SIZE] = Cardinality(Used(m, p, L2_SIZE)) /\ Used(m, p, L2_SIZE) # {}
    BY <2>3 DEF PageOK, Counts, Counted
  <2>5. \A p \in Of(us, PageUse.leaf) : r # 0 =>
          m[p + L3_SIZE] = Cardinality(Used(m, p, L3_SIZE)) /\ Used(m, p, L3_SIZE) # {}
    BY <2>3 DEF PageOK, Counts, Counted
  <2>6. ASSUME NEW a \in NodeSlots(r) PROVE r # 0 /\ m[a] \in Of(us, PageUse.node)
    <3>1. r # 0
      BY <2>6, NoSlots
    <3>2. Trie(m, sz, us, r, PageUse)
      BY <2>3, <3>1 DEF PageOK
    <3>. QED  BY <2>2, <2>3, <2>6, <3>1, <3>2, SlotsLinked, LinkedNodes
  <2>7. ASSUME NEW b \in LeafNodeSlots(r) PROVE r # 0 /\ m[b] \in Of(us, PageUse.leaf)
    <3>1. r # 0
      BY <2>7, NoSlots
    <3>2. Trie(m, sz, us, r, PageUse)
      BY <2>3, <3>1 DEF PageOK
    <3>3. PICK a \in Slots(r, L1_SIZE) : m[a] # 0 /\ b \in Slots(m[a], L2_SIZE) /\ m[b] # 0
      BY <2>2, <2>7, <3>1, SlotsLinked
    <3>. QED  BY <2>3, <3>1, <3>2, <3>3, LinkedNodes
  <2>8. \A p, n : Used(m, p, n) = {a \in p .. p + n - 1 : heap.mem[a] # NULL}
    BY <2>2 DEF Used, Slots, NULL
  <2>9. \A a \in NodeSlots(heap.page_map) :
          /\ heap.mem[heap.mem[a] + L2_SIZE]
               = Cardinality({b \in heap.mem[a] .. heap.mem[a] + L2_SIZE - 1 : heap.mem[b] # NULL})
          /\ {b \in heap.mem[a] .. heap.mem[a] + L2_SIZE - 1 : heap.mem[b] # NULL} # {}
    BY <2>2, <2>4, <2>6, <2>8
  <2>10. \A a \in LeafNodeSlots(heap.page_map) :
          /\ heap.mem[heap.mem[a] + L3_SIZE]
               = Cardinality({b \in heap.mem[a] .. heap.mem[a] + L3_SIZE - 1 : heap.mem[b] # NULL})
          /\ {b \in heap.mem[a] .. heap.mem[a] + L3_SIZE - 1 : heap.mem[b] # NULL} # {}
    BY <2>2, <2>5, <2>7, <2>8
  <2>. QED  BY <2>9, <2>10 DEF CountsExact
<1>. QED  BY <1>1, SpecInv, PTL

-----------------------------------------------------------------------------
(* The arena                                                               *)

\* The objects of a heap.
LEMMA ObjectOf ==
  ASSUME NEW h, NEW sz, NEW us, ArenaOK(h, sz, us), NEW x \in Objs(h)
  PROVE  x[1] \in DOMAIN sz /\ x[2] = sz[x[1]] /\ x = <<x[1], x[2]>>
BY DEF ArenaOK

\* The objects of the metadata arena lie aligned inside its chunks, behind the
\* headers, and no two overlap, whatever is allocated, freed and reused.
THEOREM SpecArenaDisjoint == Spec => []ArenaDisjoint
<1>1. Inv => ArenaDisjoint
  <2>. SUFFICES ASSUME Inv, NEW x \in heap.carved
                PROVE  /\ x[1] % ALIGNMENT = 0
                       /\ \E k \in 1 .. heap.count :
                            /\ x[1] >= ChunkBase(k) + HEADER
                            /\ x[1] + x[2] <= ChunkBase(k) + META_CHUNK_SIZE
                       /\ \A y \in heap.carved :
                            x # y => x[1] + x[2] <= y[1] \/ y[1] + y[2] <= x[1]
    BY DEF ArenaDisjoint
  <2>1. PICK h, sz, us : h = heap /\ Objects(h, spans, chunks, sz, us)
    BY InvObjects
  <2>2. ArenaOK(h, sz, us) /\ Layout(sz, us) /\ heap.carved = Objs(h) /\ heap.count = Count(h)
    BY <2>1 DEF Objects, HInv, AInv, ArenaOK, Objs, Count
  <2>3. x[1] \in DOMAIN sz /\ x[2] = sz[x[1]] /\ x = <<x[1], x[2]>>
    BY <2>2, ObjectOf
  <2>4. Placed(h, x[1], x[2])
    BY <2>2, <2>3 DEF ArenaOK
  <2>5. ASSUME NEW y \in heap.carved, x # y
        PROVE  x[1] + x[2] <= y[1] \/ y[1] + y[2] <= x[1]
    <3>1. y[1] \in DOMAIN sz /\ y[2] = sz[y[1]] /\ y = <<y[1], y[2]>>
      BY <2>2, <2>5, ObjectOf
    <3>2. x[1] # y[1]
      BY <2>3, <2>5, <3>1
    <3>. QED  BY <2>2, <2>3, <3>1, <3>2 DEF Layout
  <2>. QED  BY <2>2, <2>4, <2>5 DEF Placed
<1>. QED  BY <1>1, SpecInv, PTL

\* Chunks end before the bound.
LEMMA ChunksBelow ==
  ASSUME NEW c \in 0 .. MaxChunks
  PROVE  /\ ChunkBase(c + 1) \in Nat
         /\ ChunkBase(c + 1) <= ALIGNMENT + MaxChunks * META_CHUNK_SIZE
<1>1. ChunkBase(MaxChunks + 1) = ALIGNMENT + MaxChunks * META_CHUNK_SIZE
  BY Constants DEF ChunkBase
<1>2. c \in Nat /\ MaxChunks \in Nat /\ c <= MaxChunks
  BY Constants
<1>. QED  BY <1>1, <1>2, ChunkBases

\* What the type invariant says of the arena.
LEMMA ArenaTypes ==
  ASSUME NEW h, NEW sz, NEW us, ArenaOK(h, sz, us), Count(h) <= MaxChunks
  PROVE  /\ Mem(h) \in [ALIGNMENT .. ChunkBase(Count(h) + 1) - 1 -> Nat]
         /\ Cur(h) \in Addresses /\ End(h) \in Addresses /\ 0 \in Addresses
         /\ Count(h) \in 0 .. MaxChunks
         /\ \A p \in DOMAIN sz : p \in Addresses /\ sz[p] \in 1 .. META_CHUNK_SIZE
<1>1. h \in Heaps /\ Chunked(h) /\ Layout(sz, us) /\ Count(h) \in Nat
      /\ Cur(h) \in Nat /\ End(h) \in Nat /\ Mem(h) \in Memory
  BY HeapType DEF ArenaOK
<1>2. Count(h) \in 0 .. MaxChunks
  BY <1>1, Constants
<1>3. PICK top \in Nat : top = ALIGNMENT + MaxChunks * META_CHUNK_SIZE
  <2>1. MaxChunks * META_CHUNK_SIZE \in Nat
    BY Constants
  <2>. QED  BY <2>1, Constants
<1>4. Addresses = 0 .. top
  BY <1>3 DEF Addresses
<1>5. PICK e \in Nat : e = ChunkBase(Count(h) + 1) /\ e <= top
  BY <1>2, <1>3, ChunksBelow
<1>6. Cur(h) <= top /\ End(h) <= top
  BY <1>1, <1>5 DEF Chunked
<1>7. Mem(h) \in [ALIGNMENT .. ChunkBase(Count(h) + 1) - 1 -> Nat]
  BY <1>1, MemoryType DEF Chunked
<1>8. ASSUME NEW p \in DOMAIN sz PROVE p \in Addresses /\ sz[p] \in 1 .. META_CHUNK_SIZE
  <2>1. p \in Nat \ {0} /\ sz[p] \in Nat \ {0} /\ Placed(h, p, sz[p])
    BY <1>1 DEF ArenaOK, Layout
  <2>2. p <= top
    BY <1>1, <1>6, <2>1 DEF Placed
  <2>3. PICK k \in 1 .. Count(h) :
          p >= ChunkBase(k) + HEADER /\ p + sz[p] <= ChunkBase(k) + META_CHUNK_SIZE
    BY <2>1 DEF Placed
  <2>4. PICK b \in Nat : b = ChunkBase(k)
    <3>1. k - 1 \in Nat /\ (k - 1) + 1 = k
      BY <1>1, <2>3
    <3>. QED  BY <3>1, ChunkBases
  <2>5. sz[p] <= META_CHUNK_SIZE
    BY <2>1, <2>3, <2>4, Constants DEF HEADER
  <2>. QED  BY <1>4, <2>1, <2>2, <2>5, Constants
<1>. QED  BY <1>1, <1>2, <1>4, <1>6, <1>7, <1>8

\* The roots are objects, or not there yet.
LEMMA RootObjects ==
  ASSUME NEW h, NEW sz, NEW us, HInv(h, sz, us, {})
  PROVE  /\ Pgm(h) = 0 \/ Pgm(h) \in DOMAIN sz
         /\ Flm(h) = 0 \/ Flm(h) \in DOMAIN sz
<1>1. Layout(sz, us)
  BY DEF HInv, AInv, ArenaOK
<1>2. Pgm(h) # 0 => Trie(Mem(h), sz, us, Pgm(h), PageUse)
  BY DEF HInv, PageOK
<1>3. Flm(h) # 0 => Trie(Mem(h), sz, us, Flm(h), FreeUse)
  BY DEF HInv, AInv, FreeInv
<1>. QED  BY <1>1, <1>2, <1>3, TrieWords

\* The variables have their types: memory is the words of the mapped chunks,
\* and every object, root and span_t lies in it.
THEOREM SpecTypeOK == Spec => []TypeOK
<1>1. Inv => TypeOK
  <2>. SUFFICES ASSUME Inv PROVE TypeOK
    OBVIOUS
  <2>1. PICK h, sz, us : h = heap /\ Objects(h, spans, chunks, sz, us)
    BY InvObjects
  <2>2. /\ ArenaOK(h, sz, us) /\ HInv(h, sz, us, {})
        /\ DOMAIN us = DOMAIN sz
    BY <2>1 DEF Objects, HInv, AInv, ArenaOK, Layout
  <2>3. Count(h) <= MaxChunks
    BY <2>1 DEF Inv, Count
  <2>4. /\ Mem(h) \in [ALIGNMENT .. ChunkBase(Count(h) + 1) - 1 -> Nat]
        /\ Cur(h) \in Addresses /\ End(h) \in Addresses /\ 0 \in Addresses
        /\ Count(h) \in 0 .. MaxChunks
        /\ \A p \in DOMAIN sz : p \in Addresses /\ sz[p] \in 1 .. META_CHUNK_SIZE
    BY <2>2, <2>3, ArenaTypes
  <2>5. Pgm(h) \in Addresses /\ Flm(h) \in Addresses
    BY <2>2, <2>4, RootObjects
  <2>6. Objs(h) \subseteq Addresses \X (1 .. META_CHUNK_SIZE)
    <3>1. ASSUME NEW x \in Objs(h) PROVE x \in Addresses \X (1 .. META_CHUNK_SIZE)
      <4>1. x[1] \in DOMAIN sz /\ x[2] = sz[x[1]] /\ x = <<x[1], x[2]>>
        BY <2>2, ObjectOf
      <4>. QED  BY <2>4, <4>1
    <3>. QED  BY <3>1
  <2>7. DOMAIN spans \subseteq Addresses /\ chunks \subseteq Addresses
    <3>1. \A p : p \in DOMAIN spans \/ p \in chunks => p \in DOMAIN sz
      BY <2>1, <2>2 DEF Objects, Of
    <3>. QED  BY <2>4, <3>1
  <2>8. \A s \in DOMAIN spans : spans[s].from < spans[s].to
    BY DEF Inv, MapInv, RunOK
  <2>9. failed \in BOOLEAN
    BY DEF Inv
  <2>10. /\ heap.mem = Mem(h) /\ heap.cur = Cur(h) /\ heap.end = End(h) /\ heap.count = Count(h)
         /\ heap.page_map = Pgm(h) /\ heap.free_list_map = Flm(h) /\ heap.carved = Objs(h)
    BY <2>1 DEF Mem, Cur, End, Count, Pgm, Flm, Objs
  <2>. QED  BY <2>4, <2>5, <2>6, <2>7, <2>8, <2>9, <2>10 DEF TypeOK
<1>. QED  BY <1>1, SpecInv, PTL

-----------------------------------------------------------------------------
(* Giving memory back                                                      *)

\* A step that gives a direct mapping back, with the free lists' leaf nodes there.
ReadyRelease ==
  /\ heap.free_list_map # NULL
  /\ \A size \in {SpanSize, LeafNodeSize, NodeSize} :
       LeavesOf(heap.mem, heap.free_list_map, size) # NULL
  /\ \E s \in DOMAIN spans : spans[s].direct /\ UnmapDirect(s)

\* Once each free list has its leaf node, the release of a direct mapping takes
\* no object from the arena, so no failed mmap can end the process in it.
THEOREM SpecReleaseNeedsNoMemory == Spec => ReleaseNeedsNoMemory
<1>1. Inv /\ [Next]_vars => [ReadyRelease => heap'.carved = heap.carved /\ ~failed']_vars
  <2>. SUFFICES ASSUME Inv, [Next]_vars, ~(UNCHANGED vars), heap.free_list_map # NULL,
                       \A size \in {SpanSize, LeafNodeSize, NodeSize} :
                         LeavesOf(heap.mem, heap.free_list_map, size) # NULL,
                       NEW s \in DOMAIN spans, UnmapDirect(s)
                PROVE  heap'.carved = heap.carved /\ ~failed'
    BY DEF ReadyRelease
  <2>1. ~failed
    BY DEF Next
  <2>2. PICK g, sp2 : Given(s, g, sp2)
    BY UnmapDirectGiven
  <2>3. Ready(heap)
    BY DEF Ready, FreeSizes, Mem, Flm, NULL
  <2>4. Objs(g) = Objs(heap) /\ Count(g) = Count(heap)
    BY <2>2, <2>3 DEF Given, Steady
  <2>5. Count(heap) \in Nat
    <3>1. PICK h, sz, us : h = heap /\ Objects(h, spans, chunks, sz, us)
      BY InvObjects
    <3>. QED  BY <3>1, HeapType DEF Objects, HInv, AInv, ArenaOK
  <2>6. ~(g.count > heap.count)
    BY <2>4, <2>5 DEF Count
  <2>7. heap' = g /\ failed' = failed
    BY <2>2, <2>6 DEF Given, Commit
  <2>. QED  BY <2>1, <2>4, <2>7 DEF Objs
<1>2. Spec => [][ReadyRelease => heap'.carved = heap.carved /\ ~failed']_vars
  BY <1>1, SpecInv, PTL DEF Spec
<1>. QED  BY <1>2 DEF ReadyRelease, ReleaseNeedsNoMemory

-----------------------------------------------------------------------------
(* The free lists, walked                                                  *)

\* There are finitely many objects, and a list is no longer than that.
LEMMA ObjectCount ==
  ASSUME NEW sz, IsFiniteSet(DOMAIN sz), NEW T, T = {<<p, sz[p]>> : p \in DOMAIN sz}
  PROVE  /\ IsFiniteSet(T) /\ Cardinality(T) \in Nat
         /\ \A n \in Nat : \A f \in [1 .. n -> DOMAIN sz] :
              (\A i, j \in 1 .. n : f[i] = f[j] => i = j) => n <= Cardinality(T)
<1>1. PICK D : D = DOMAIN sz
  OBVIOUS
<1>. DEFINE pair == [p \in D |-> <<p, sz[p]>>]
<1>2. pair \in Surjection(D, T)
  BY <1>1 DEF Surjection
<1>. HIDE DEF pair
<1>3. IsFiniteSet(T) /\ Cardinality(T) \in Nat
  BY <1>1, <1>2, FS_Surjection, FS_CardinalityType
<1>4. ASSUME NEW n \in Nat, NEW f \in [1 .. n -> D], \A i, j \in 1 .. n : f[i] = f[j] => i = j
      PROVE  n <= Cardinality(T)
  <2>. DEFINE g == [i \in 1 .. n |-> <<f[i], sz[f[i]]>>]
  <2>1. g \in Injection(1 .. n, T)
    <3>1. g \in [1 .. n -> T]
      BY <1>1
    <3>2. \A i, j \in 1 .. n : g[i] = g[j] => i = j
      BY <1>4
    <3>. QED  BY <3>1, <3>2 DEF Injection, IsInjective
  <2>. HIDE DEF g
  <2>2. IsFiniteSet(1 .. n) /\ Cardinality(1 .. n) = n
    BY FS_Interval
  <2>. QED  BY <1>3, <2>1, <2>2, FS_Injection
<1>. QED  BY <1>1, <1>3, <1>4

\* From a head, the links lead to exactly the objects of its list.
LEMMA WalkChain ==
  ASSUME NEW size, NEW S, NEW c \in Nat, c = Cardinality(heap.carved), 0 \notin S,
         NEW head, head = IF heap.free_list_map = NULL THEN NULL
                          ELSE Get(heap.mem, heap.free_list_map, size),
         Chain(heap.mem, head, S),
         \A n \in Nat : \A f \in [1 .. n -> S] :
           (\A i, j \in 1 .. n : f[i] = f[j] => i = j) => n <= c
  PROVE  Listed(size) = S
<1>1. PICK m \in Nat : \E l \in [1 .. m -> S] :
        Lists(heap.mem, l, m, S) /\ head = IF m = 0 THEN 0 ELSE l[1]
  BY DEF Chain
<1>2. PICK l \in [1 .. m -> S] :
        Lists(heap.mem, l, m, S) /\ head = IF m = 0 THEN 0 ELSE l[1]
  BY <1>1
<1>3. m \in Nat /\ m <= c /\ \A i \in 1 .. m : l[i] # NULL
  <2>1. \A i, j \in 1 .. m : l[i] = l[j] => i = j
    BY <1>2 DEF Lists
  <2>. QED  BY <1>2, <2>1 DEF NULL
<1>. DEFINE first(k) == {l[i] : i \in {j \in 1 .. m : j <= k + 1}}
            start == {head} \ {NULL}
            further(V) == V \cup ({heap.mem[a] : a \in V} \ {NULL})
<1>4. first(0) = start
  BY <1>2, <1>3 DEF NULL
<1>5. ASSUME NEW k \in Nat PROVE first(k + 1) = further(first(k))
  <2>1. ASSUME NEW x \in first(k + 1) PROVE x \in further(first(k))
    <3>1. PICK i \in 1 .. m : i <= k + 2 /\ x = l[i]
      BY <1>3
    <3>2. CASE i <= k + 1
      BY <3>1, <3>2
    <3>3. CASE ~(i <= k + 1)
      <4>1. PICK j \in 1 .. m : i = j + 1 /\ j <= k + 1
        <5>1. i \in Int /\ k \in Nat /\ m \in Nat /\ 1 <= i /\ i <= m /\ i > k + 1 /\ i <= k + 2
          BY <1>3, <3>1, <3>3
        <5>2. i - 1 \in 1 .. m /\ i = (i - 1) + 1 /\ i - 1 <= k + 1
          BY <5>1
        <5>. QED  BY <5>2
      <4>2. j # m /\ l[j + 1] = x /\ x # NULL
        BY <1>3, <3>1, <4>1
      <4>3. heap.mem[l[j]] = x
        BY <1>2, <4>1, <4>2 DEF Lists
      <4>4. l[j] \in first(k)
        BY <4>1
      <4>. QED  BY <4>2, <4>3, <4>4
    <3>. QED  BY <3>2, <3>3
  <2>2. ASSUME NEW x \in further(first(k)) PROVE x \in first(k + 1)
    <3>1. CASE x \in first(k)
      BY <1>3, <3>1
    <3>2. CASE x \notin first(k)
      <4>1. PICK i \in 1 .. m : i <= k + 1 /\ x = heap.mem[l[i]] /\ x # NULL
        BY <3>2
      <4>2. i # m /\ x = l[i + 1]
        BY <1>2, <4>1 DEF Lists, NULL
      <4>3. i + 1 \in 1 .. m /\ i + 1 <= (k + 1) + 1
        BY <1>3, <4>1, <4>2
      <4>. QED  BY <4>2, <4>3
    <3>. QED  BY <3>1, <3>2
  <2>. QED  BY <2>1, <2>2
<1>. DEFINE walk[n \in Nat] ==
              IF n = 0 THEN {IF heap.free_list_map = NULL THEN NULL
                             ELSE Get(heap.mem, heap.free_list_map, size)} \ {NULL}
              ELSE walk[n - 1] \cup ({heap.mem[a] : a \in walk[n - 1]} \ {NULL})
            body(g) == [k \in Nat |-> IF k = 0 THEN start ELSE further(g[k-1])]
            f == [k \in Nat |-> first(k)]
<1>6. f = body(f)
  <2>1. ASSUME NEW k \in Nat PROVE first(k) = IF k = 0 THEN start ELSE further(f[k-1])
    <3>1. CASE k = 0
      BY <1>4, <3>1
    <3>2. CASE k # 0
      <4>1. k - 1 \in Nat /\ (k - 1) + 1 = k
        BY <3>2
      <4>2. f[k - 1] = first(k - 1)
        BY <4>1
      <4>3. first((k - 1) + 1) = further(first(k - 1))
        BY <1>5, <4>1
      <4>. QED  BY <3>2, <4>1, <4>2, <4>3
    <3>. QED  BY <3>1, <3>2
  <2>. QED  BY <2>1
<1>7. walk = CHOOSE g : g = body(g)
  OBVIOUS
<1>. HIDE DEF first, start, further, walk
<1>8. walk = body(walk)
  <2>. HIDE DEF body, f
  <2>. QED  BY <1>6, <1>7, Zenon
<1>9. walk[0] = start /\ \A k \in Nat : walk[k + 1] = further(walk[k])
  <2>1. \A k \in Nat : walk[k] = IF k = 0 THEN start ELSE further(walk[k-1])
    BY <1>8
  <2>2. ASSUME NEW k \in Nat PROVE walk[k + 1] = further(walk[k])
    <3>1. k + 1 \in Nat /\ k + 1 # 0 /\ (k + 1) - 1 = k
      OBVIOUS
    <3>2. walk[k + 1] = IF k + 1 = 0 THEN start ELSE further(walk[(k + 1) - 1])
      BY <2>1, <3>1
    <3>. QED  BY <3>1, <3>2
  <2>. QED  BY <2>1, <2>2
<1>10. \A k \in Nat : walk[k] = first(k)
  <2>. DEFINE T == {k \in Nat : walk[k] = first(k)}
  <2>1. 0 \in T
    BY <1>4, <1>9
  <2>2. ASSUME NEW k \in Nat, k \in T PROVE k + 1 \in T
    <3>1. walk[k + 1] = further(walk[k]) /\ walk[k] = first(k) /\ first(k + 1) = further(first(k))
      BY <1>5, <1>9, <2>2
    <3>. QED  BY <3>1
  <2>3. T \in SUBSET Nat
    OBVIOUS
  <2>. HIDE DEF T
  <2>4. T = Nat
    BY <2>1, <2>2, <2>3, NatSetInduction
  <2>. QED  BY <2>4 DEF T
<1>11. first(c) = S
  <2>1. \A i \in 1 .. m : i <= c + 1
    BY <1>3
  <2>2. \A p \in S : \E i \in 1 .. m : l[i] = p
    BY <1>2 DEF Lists
  <2>. QED  BY <1>2, <2>1, <2>2 DEF first
<1>12. Listed(size) = walk[c]
  BY DEF Listed, walk
<1>. QED  BY <1>10, <1>11, <1>12

\* What the free lists hold.
LEMMA ListedExact ==
  ASSUME NEW sz, NEW us, NEW h, h = heap, AInv(h, sz, us), NEW size \in FreeSizes
  PROVE  Listed(size) = ListedOf(sz, us, size)
<1>1. PICK m, f : m = Mem(h) /\ f = Flm(h)
  OBVIOUS
<1>2. ArenaOK(h, sz, us) /\ Layout(sz, us) /\ FreeInv(m, f, sz, us)
  BY <1>1 DEF AInv, ArenaOK
<1>3. PICK S : S = ListedOf(sz, us, size)
  OBVIOUS
<1>4. S \subseteq DOMAIN sz /\ 0 \notin S
  BY <1>2, <1>3 DEF ListedOf, Of, Layout
<1>5. PICK c \in Nat : /\ c = Cardinality(heap.carved)
                       /\ \A n \in Nat : \A g \in [1 .. n -> DOMAIN sz] :
                            (\A i, j \in 1 .. n : g[i] = g[j] => i = j) => n <= c
  <2>1. PICK T : T = heap.carved
    OBVIOUS
  <2>2. T = {<<p, sz[p]>> : p \in DOMAIN sz} /\ IsFiniteSet(DOMAIN sz)
    BY <1>2, <2>1 DEF ArenaOK, Objs
  <2>3. /\ Cardinality(T) \in Nat
        /\ \A n \in Nat : \A g \in [1 .. n -> DOMAIN sz] :
             (\A i, j \in 1 .. n : g[i] = g[j] => i = j) => n <= Cardinality(T)
    <3>1. T = {<<p, sz[p]>> : p \in DOMAIN sz}
      BY <2>2
    <3>. QED  BY <2>2, <3>1, ObjectCount
  <2>. QED  BY <2>1, <2>3
<1>6. \A n \in Nat : \A g \in [1 .. n -> S] :
        (\A i, j \in 1 .. n : g[i] = g[j] => i = j) => n <= c
  <2>1. ASSUME NEW n \in Nat, NEW g \in [1 .. n -> S] PROVE g \in [1 .. n -> DOMAIN sz]
    BY <1>4
  <2>. QED  BY <1>5, <2>1
<1>7. PICK head : head = IF f = 0 THEN 0 ELSE Get(m, f, size)
  OBVIOUS
<1>8. Chain(m, head, S)
  <2>1. CASE f = 0
    <3>1. \A p \in DOMAIN us : us[p] # "listed"
      BY <1>2, <2>1, UseSets DEF FreeInv
    <3>2. S = {}
      BY <1>3, <3>1 DEF ListedOf, Of
    <3>. QED  BY <1>7, <2>1, <3>2, ChainEmpty
  <2>2. CASE f # 0
    <3>1. size \in Keys
      BY Constants DEF FreeSizes
    <3>. QED  BY <1>2, <1>3, <1>7, <2>2, <3>1 DEF FreeInv
  <2>. QED  BY <2>1, <2>2
<1>9. /\ head = IF heap.free_list_map = NULL THEN NULL
                ELSE Get(heap.mem, heap.free_list_map, size)
      /\ Chain(heap.mem, head, S)
  BY <1>1, <1>7, <1>8 DEF Mem, Flm, NULL
<1>10. Listed(size) = S
  BY <1>4, <1>5, <1>6, <1>9, WalkChain
<1>. QED  BY <1>3, <1>10

-----------------------------------------------------------------------------
(* Each object is one thing                                                *)

\* The slots N and L below a root link its nodes and leaf nodes, each once.
LinksOnce(m, slots, targets) ==
  /\ \A p : p \in targets <=> \E a \in slots : m[a] = p
  /\ \A a, b \in slots : m[a] = m[b] => a = b

Below(m, sz, us, N, L, k) ==
  /\ LinksOnce(m, N, Of(us, k.node)) /\ LinksOnce(m, L, Of(us, k.leaf))
  /\ \A a \in N \cup L : \E p \in DOMAIN sz : a \in Words(sz, p)

LEMMA SlotsBelow ==
  ASSUME NEW sz, NEW us, Layout(sz, us), NEW m, m = heap.mem, NEW r,
         NEW k, r # 0 => Trie(m, sz, us, r, k),
         r = 0 => \A p \in DOMAIN us : us[p] \notin Uses(k),
         NEW N, NEW L, N = NodeSlots(r), L = LeafNodeSlots(r)
  PROVE  Below(m, sz, us, N, L, k) /\ \A p : p \in Of(us, k.root) <=> r # 0 /\ p = r
<1>1. CASE r = 0
  <2>1. Of(us, k.root) = {} /\ Of(us, k.node) = {} /\ Of(us, k.leaf) = {}
    BY <1>1 DEF Of, Uses
  <2>2. N = {} /\ L = {}
    BY <1>1, NoSlots
  <2>. QED  BY <1>1, <2>1, <2>2 DEF Below, LinksOnce
<1>2. CASE r # 0
  <2>1. Trie(m, sz, us, r, k)
    BY <1>2
  <2>2. \A a : a \in N <=> a \in Slots(r, L1_SIZE) /\ m[a] # 0
    BY <1>2, SlotsLinked
  <2>3. \A b : b \in L <=>
          \E a \in Slots(r, L1_SIZE) : m[a] # 0 /\ b \in Slots(m[a], L2_SIZE) /\ m[b] # 0
    BY <1>2, SlotsLinked
  <2>4. 0 \notin Of(us, k.node) /\ 0 \notin Of(us, k.leaf)
    BY <2>1, TrieWords
  <2>5. LinksOnce(m, N, Of(us, k.node))
    BY <2>1, <2>2, <2>4 DEF Trie, Links, LinksOnce
  <2>6. \A b : b \in L <=> b \in NodeSlotsIn(us, k) /\ m[b] # 0
    <3>1. ASSUME NEW b \in L PROVE b \in NodeSlotsIn(us, k) /\ m[b] # 0
      <4>1. PICK a \in Slots(r, L1_SIZE) : m[a] # 0 /\ b \in Slots(m[a], L2_SIZE) /\ m[b] # 0
        BY <2>3
      <4>2. m[a] \in Of(us, k.node)
        BY <2>1, <4>1, LinkedNodes
      <4>. QED  BY <2>1, <4>1, <4>2, TrieWords
    <3>2. ASSUME NEW b \in NodeSlotsIn(us, k), m[b] # 0 PROVE b \in L
      <4>1. PICK p \in Of(us, k.node) : b \in Slots(p, L2_SIZE)
        BY <2>1, TrieWords
      <4>2. PICK a \in N : m[a] = p
        BY <2>5 DEF LinksOnce
      <4>. QED  BY <2>2, <2>3, <3>2, <4>1, <4>2
    <3>. QED  BY <3>1, <3>2
  <2>7. LinksOnce(m, L, Of(us, k.leaf))
    BY <2>1, <2>4, <2>6 DEF Trie, Links, LinksOnce
  <2>8. ASSUME NEW a \in N \cup L PROVE \E p \in DOMAIN sz : a \in Words(sz, p)
    <3>1. CASE a \in N
      BY <2>1, <2>2, <3>1, TrieWords
    <3>2. CASE a \in L
      <4>1. PICK p \in Of(us, k.node) : a \in Words(sz, p)
        BY <2>1, <2>6, <3>2, TrieWords
      <4>. QED  BY <2>1, <4>1, TrieWords
    <3>. QED  BY <2>8, <3>1, <3>2
  <2>9. \A p : p \in Of(us, k.root) <=> r # 0 /\ p = r
    BY <1>2, <2>1 DEF Trie
  <2>. QED  BY <2>5, <2>7, <2>8, <2>9 DEF Below
<1>. QED  BY <1>1, <1>2

\* Which part of all objects an object is in.
PartOf(sz, us, p) ==
  IF us[p] = "page_root" \/ us[p] = "free_root" THEN 1
  ELSE IF us[p] = "page_node" \/ us[p] = "free_node" THEN 2
  ELSE IF us[p] = "page_leaf" \/ us[p] = "free_leaf" THEN 3
  ELSE IF us[p] = "span" THEN 4
  ELSE IF us[p] = "chunk" THEN 5
  ELSE IF sz[p] = NodeSize THEN 6
  ELSE IF sz[p] = LeafNodeSize THEN 7
  ELSE 8

LEMMA PartUse ==
  ASSUME NEW sz, NEW us, NEW p, us[p] \in UserUses \cup ArenaUses,
         us[p] = "listed" => sz[p] \in FreeSizes
  PROVE  /\ PartOf(sz, us, p) \in 1 .. 8
         /\ us[p] = "page_root" \/ us[p] = "free_root" <=> PartOf(sz, us, p) = 1
         /\ us[p] = "page_node" \/ us[p] = "free_node" <=> PartOf(sz, us, p) = 2
         /\ us[p] = "page_leaf" \/ us[p] = "free_leaf" <=> PartOf(sz, us, p) = 3
         /\ us[p] = "span" <=> PartOf(sz, us, p) = 4
         /\ us[p] = "chunk" <=> PartOf(sz, us, p) = 5
         /\ us[p] = "listed" /\ sz[p] = NodeSize <=> PartOf(sz, us, p) = 6
         /\ us[p] = "listed" /\ sz[p] = LeafNodeSize <=> PartOf(sz, us, p) = 7
         /\ us[p] = "listed" /\ sz[p] = SpanSize <=> PartOf(sz, us, p) = 8
<1>1. LeafNodeSize # NodeSize /\ SpanSize # NodeSize /\ SpanSize # LeafNodeSize
  BY Constants
<1>2. CASE us[p] = "listed"
  BY <1>1, <1>2 DEF PartOf, FreeSizes
<1>3. CASE us[p] = "page_root"
  BY <1>3 DEF PartOf
<1>4. CASE us[p] = "free_root"
  BY <1>4 DEF PartOf
<1>5. CASE us[p] = "page_node"
  BY <1>5 DEF PartOf
<1>6. CASE us[p] = "free_node"
  BY <1>6 DEF PartOf
<1>7. CASE us[p] = "page_leaf"
  BY <1>7 DEF PartOf
<1>8. CASE us[p] = "free_leaf"
  BY <1>8 DEF PartOf
<1>9. CASE us[p] = "span"
  BY <1>9 DEF PartOf
<1>10. CASE us[p] = "chunk"
  BY <1>10 DEF PartOf
<1>. QED
  BY <1>2, <1>3, <1>4, <1>5, <1>6, <1>7, <1>8, <1>9, <1>10 DEF UserUses, ArenaUses

\* The objects of a part, with their sizes.
Piece(sz, us, i) == {<<p, sz[p]>> : p \in {q \in DOMAIN sz : PartOf(sz, us, q) = i}}

\* S is a part, of objects of one size.
IsPart(sz, us, S, i, size) ==
  /\ \A p : p \in S <=> p \in DOMAIN sz /\ PartOf(sz, us, p) = i
  /\ \A p \in S : sz[p] = size

LEMMA SizedPiece ==
  ASSUME NEW sz, NEW us, NEW i, NEW S, NEW size, IsPart(sz, us, S, i, size)
  PROVE  {<<p, size>> : p \in S} = Piece(sz, us, i)
<1>1. S = {q \in DOMAIN sz : PartOf(sz, us, q) = i}
  BY DEF IsPart
<1>. QED  BY <1>1 DEF Piece, IsPart

\* The pieces make up the objects and have none in common.
LEMMA PiecesPartition ==
  ASSUME NEW sz, NEW us, \A p \in DOMAIN sz : PartOf(sz, us, p) \in 1 .. 8,
         NEW o, DOMAIN o = 1 .. 8, \A i \in 1 .. 8 : o[i] = Piece(sz, us, i)
  PROVE  /\ UNION {o[i] : i \in DOMAIN o} = {<<p, sz[p]>> : p \in DOMAIN sz}
         /\ \A i, j \in DOMAIN o : i # j => o[i] \cap o[j] = {}
<1>1. \A i \in 1 .. 8 : \A x : x \in o[i] <=>
        \E p \in DOMAIN sz : PartOf(sz, us, p) = i /\ x = <<p, sz[p]>>
  BY DEF Piece
<1>2. UNION {o[i] : i \in DOMAIN o} = {<<p, sz[p]>> : p \in DOMAIN sz}
  BY <1>1
<1>3. ASSUME NEW i \in 1 .. 8, NEW j \in 1 .. 8, NEW x, x \in o[i], x \in o[j]
      PROVE  i = j
  <2>1. PICK p \in DOMAIN sz : PartOf(sz, us, p) = i /\ x = <<p, sz[p]>>
    BY <1>1, <1>3
  <2>2. PICK q \in DOMAIN sz : PartOf(sz, us, q) = j /\ x = <<q, sz[q]>>
    BY <1>1, <1>3
  <2>3. p = q
    BY <2>1, <2>2
  <2>. QED  BY <2>1, <2>2, <2>3
<1>. QED  BY <1>2, <1>3

LEMMA PartSets ==
  ASSUME NEW h, h = heap, NEW sz, NEW us, Objects(h, spans, chunks, sz, us),
         NEW roots, \A p : p \in roots <=> p \in Of(us, "page_root") \/ p \in Of(us, "free_root"),
         NEW nodes, \A p : p \in nodes <=> p \in Of(us, "page_node") \/ p \in Of(us, "free_node"),
         NEW leaves, \A p : p \in leaves <=> p \in Of(us, "page_leaf") \/ p \in Of(us, "free_leaf")
  PROVE  /\ \A p \in DOMAIN sz : PartOf(sz, us, p) \in 1 .. 8
         /\ IsPart(sz, us, roots, 1, RootSize)
         /\ IsPart(sz, us, nodes, 2, NodeSize)
         /\ IsPart(sz, us, leaves, 3, LeafNodeSize)
         /\ IsPart(sz, us, DOMAIN spans, 4, SpanSize)
         /\ IsPart(sz, us, chunks, 5, DataChunkSize)
         /\ IsPart(sz, us, Listed(NodeSize), 6, NodeSize)
         /\ IsPart(sz, us, Listed(LeafNodeSize), 7, LeafNodeSize)
         /\ IsPart(sz, us, Listed(SpanSize), 8, SpanSize)
<1>1. PICK m, r, f : m = Mem(h) /\ r = Pgm(h) /\ f = Flm(h)
  OBVIOUS
<1>2. /\ HInv(h, sz, us, {}) /\ AInv(h, sz, us) /\ FreeInv(m, f, sz, us)
      /\ PageOK(m, r, sz, us, {}) /\ DOMAIN us = DOMAIN sz
  BY <1>1 DEF Objects, HInv, AInv, ArenaOK, Layout
<1>3. \A p \in DOMAIN sz : us[p] \in UserUses \cup ArenaUses
  BY <1>2 DEF FreeInv
<1>4. \A p, u : p \in Of(us, u) <=> p \in DOMAIN sz /\ us[p] = u
  BY <1>2 DEF Of
<1>5. ASSUME NEW p \in DOMAIN sz, us[p] = "listed" PROVE sz[p] \in FreeSizes
  <2>1. f # 0
    BY <1>2, <1>5, UseSets DEF FreeInv
  <2>. QED  BY <1>2, <1>4, <1>5, <2>1 DEF FreeInv
<1>6. ASSUME NEW p, p \in Of(us, "page_root") \/ p \in Of(us, "free_root")
      PROVE  sz[p] = RootSize
  <2>1. CASE p \in Of(us, "page_root")
    <3>1. us[p] \in Uses(PageUse) /\ p \in DOMAIN us /\ p \in Of(us, PageUse.root)
      BY <2>1, UseSets DEF Of, Uses
    <3>2. r # 0
      BY <1>2, <3>1 DEF PageOK
    <3>. QED  BY <1>2, <3>1, <3>2 DEF PageOK, Trie
  <2>2. CASE p \in Of(us, "free_root")
    <3>1. us[p] \in ArenaUses /\ p \in DOMAIN us /\ p \in Of(us, FreeUse.root)
      BY <2>2, UseSets DEF Of, Uses
    <3>2. f # 0
      BY <1>2, <3>1, UseSets DEF FreeInv
    <3>. QED  BY <1>2, <3>1, <3>2 DEF FreeInv, Trie
  <2>. QED  BY <1>6, <2>1, <2>2
<1>7. ASSUME NEW p, p \in Of(us, "page_node") \/ p \in Of(us, "free_node")
      PROVE  sz[p] = NodeSize
  <2>1. CASE p \in Of(us, "page_node")
    <3>1. us[p] \in Uses(PageUse) /\ p \in DOMAIN us /\ p \in Of(us, PageUse.node)
      BY <2>1, UseSets DEF Of, Uses
    <3>2. r # 0
      BY <1>2, <3>1 DEF PageOK
    <3>. QED  BY <1>2, <3>1, <3>2 DEF PageOK, Trie
  <2>2. CASE p \in Of(us, "free_node")
    <3>1. us[p] \in ArenaUses /\ p \in DOMAIN us /\ p \in Of(us, FreeUse.node)
      BY <2>2, UseSets DEF Of, Uses
    <3>2. f # 0
      BY <1>2, <3>1, UseSets DEF FreeInv
    <3>. QED  BY <1>2, <3>1, <3>2 DEF FreeInv, Trie
  <2>. QED  BY <1>7, <2>1, <2>2
<1>8. ASSUME NEW p, p \in Of(us, "page_leaf") \/ p \in Of(us, "free_leaf")
      PROVE  sz[p] = LeafNodeSize
  <2>1. CASE p \in Of(us, "page_leaf")
    <3>1. us[p] \in Uses(PageUse) /\ p \in DOMAIN us /\ p \in Of(us, PageUse.leaf)
      BY <2>1, UseSets DEF Of, Uses
    <3>2. r # 0
      BY <1>2, <3>1 DEF PageOK
    <3>. QED  BY <1>2, <3>1, <3>2 DEF PageOK, Trie
  <2>2. CASE p \in Of(us, "free_leaf")
    <3>1. us[p] \in ArenaUses /\ p \in DOMAIN us /\ p \in Of(us, FreeUse.leaf)
      BY <2>2, UseSets DEF Of, Uses
    <3>2. f # 0
      BY <1>2, <3>1, UseSets DEF FreeInv
    <3>. QED  BY <1>2, <3>1, <3>2 DEF FreeInv, Trie
  <2>. QED  BY <1>8, <2>1, <2>2
<1>9. \A p \in DOMAIN sz : PartOf(sz, us, p) \in 1 .. 8
  BY <1>3, <1>5, PartUse
<1>10. IsPart(sz, us, roots, 1, RootSize)
  <2>1. \A p : p \in roots <=> p \in DOMAIN sz /\ PartOf(sz, us, p) = 1
    BY <1>3, <1>4, <1>5, PartUse
  <2>. QED  BY <1>6, <2>1 DEF IsPart
<1>11. IsPart(sz, us, nodes, 2, NodeSize)
  <2>1. \A p : p \in nodes <=> p \in DOMAIN sz /\ PartOf(sz, us, p) = 2
    BY <1>3, <1>4, <1>5, PartUse
  <2>. QED  BY <1>7, <2>1 DEF IsPart
<1>12. IsPart(sz, us, leaves, 3, LeafNodeSize)
  <2>1. \A p : p \in leaves <=> p \in DOMAIN sz /\ PartOf(sz, us, p) = 3
    BY <1>3, <1>4, <1>5, PartUse
  <2>. QED  BY <1>8, <2>1 DEF IsPart
<1>13. IsPart(sz, us, DOMAIN spans, 4, SpanSize)
  <2>1. \A p : p \in DOMAIN spans <=> p \in DOMAIN sz /\ us[p] = "span"
    BY <1>4 DEF Objects
  <2>2. \A p : p \in DOMAIN spans <=> p \in DOMAIN sz /\ PartOf(sz, us, p) = 4
    BY <1>3, <1>5, <2>1, PartUse
  <2>3. \A p \in DOMAIN spans : sz[p] = SpanSize
    BY <1>2 DEF Objects, HInv
  <2>. QED  BY <2>2, <2>3 DEF IsPart
<1>14. IsPart(sz, us, chunks, 5, DataChunkSize)
  <2>1. \A p : p \in chunks <=> p \in DOMAIN sz /\ us[p] = "chunk"
    BY <1>4 DEF Objects
  <2>2. \A p : p \in chunks <=> p \in DOMAIN sz /\ PartOf(sz, us, p) = 5
    BY <1>3, <1>5, <2>1, PartUse
  <2>3. \A p \in chunks : sz[p] = DataChunkSize
    BY <1>2 DEF Objects, HInv
  <2>. QED  BY <2>2, <2>3 DEF IsPart
<1>15. ASSUME NEW size \in FreeSizes
       PROVE  \A p : p \in Listed(size) <=> p \in DOMAIN sz /\ us[p] = "listed" /\ sz[p] = size
  <2>1. Listed(size) = ListedOf(sz, us, size)
    BY <1>2, <1>15, ListedExact
  <2>. QED  BY <1>4, <2>1 DEF ListedOf
<1>16. NodeSize \in FreeSizes /\ LeafNodeSize \in FreeSizes /\ SpanSize \in FreeSizes
  BY DEF FreeSizes
<1>17. IsPart(sz, us, Listed(NodeSize), 6, NodeSize)
  <2>1. \A p : p \in Listed(NodeSize) <=> p \in DOMAIN sz /\ us[p] = "listed" /\ sz[p] = NodeSize
    BY <1>15, <1>16
  <2>2. \A p \in DOMAIN sz : us[p] = "listed" /\ sz[p] = NodeSize <=> PartOf(sz, us, p) = 6
    BY <1>3, <1>5, PartUse
  <2>. QED  BY <2>1, <2>2 DEF IsPart
<1>18. IsPart(sz, us, Listed(LeafNodeSize), 7, LeafNodeSize)
  <2>1. \A p : p \in Listed(LeafNodeSize) <=>
               p \in DOMAIN sz /\ us[p] = "listed" /\ sz[p] = LeafNodeSize
    BY <1>15, <1>16
  <2>2. \A p \in DOMAIN sz : us[p] = "listed" /\ sz[p] = LeafNodeSize <=> PartOf(sz, us, p) = 7
    BY <1>3, <1>5, PartUse
  <2>. QED  BY <2>1, <2>2 DEF IsPart
<1>19. IsPart(sz, us, Listed(SpanSize), 8, SpanSize)
  <2>1. \A p : p \in Listed(SpanSize) <=> p \in DOMAIN sz /\ us[p] = "listed" /\ sz[p] = SpanSize
    BY <1>15, <1>16
  <2>2. \A p \in DOMAIN sz : us[p] = "listed" /\ sz[p] = SpanSize <=> PartOf(sz, us, p) = 8
    BY <1>3, <1>5, PartUse
  <2>. QED  BY <2>1, <2>2 DEF IsPart
<1>. QED  BY <1>9, <1>10, <1>11, <1>12, <1>13, <1>14, <1>17, <1>18, <1>19

\* Four sets of slots hold distinct objects: slots with the same object are the same.
LEMMA SlotsDiffer ==
  ASSUME NEW m, NEW sz, NEW us, NEW N1, NEW L1, NEW N2, NEW L2,
         Below(m, sz, us, N1, L1, PageUse), Below(m, sz, us, N2, L2, FreeUse),
         NEW T, \A a : a \in T <=> a \in N1 \/ a \in N2 \/ a \in L1 \/ a \in L2
  PROVE  /\ \A a, b \in T : m[a] = m[b] => a = b
         /\ \A a \in T : \E p \in DOMAIN sz : a \in Words(sz, p)
<1>1. /\ LinksOnce(m, N1, Of(us, "page_node")) /\ LinksOnce(m, L1, Of(us, "page_leaf"))
      /\ LinksOnce(m, N2, Of(us, "free_node")) /\ LinksOnce(m, L2, Of(us, "free_leaf"))
  BY UseSets DEF Below
<1>2. /\ \A a \in N1 : us[m[a]] = "page_node"
      /\ \A a \in L1 : us[m[a]] = "page_leaf"
      /\ \A a \in N2 : us[m[a]] = "free_node"
      /\ \A a \in L2 : us[m[a]] = "free_leaf"
  BY <1>1 DEF LinksOnce, Of
<1>3. ASSUME NEW a \in T, NEW b \in T, m[a] = m[b] PROVE a = b
  <2>1. PICK u : u = us[m[a]] /\ u = us[m[b]]
    BY <1>3
  <2>2. /\ u = "page_node" => a \in N1 /\ b \in N1
        /\ u = "page_leaf" => a \in L1 /\ b \in L1
        /\ u = "free_node" => a \in N2 /\ b \in N2
        /\ u = "free_leaf" => a \in L2 /\ b \in L2
    BY <1>2, <2>1
  <2>3. u = "page_node" \/ u = "page_leaf" \/ u = "free_node" \/ u = "free_leaf"
    BY <1>2, <2>1
  <2>. QED  BY <1>1, <1>3, <2>2, <2>3 DEF LinksOnce
<1>4. \A a \in T : \E p \in DOMAIN sz : a \in Words(sz, p)
  BY DEF Below
<1>. QED  BY <1>3, <1>4

\* Distinct words of objects with distinct contents.
LEMMA ContentsCount ==
  ASSUME NEW h, NEW sz, NEW us, ArenaOK(h, sz, us), NEW m,
         NEW T, \A a \in T : \E p \in DOMAIN sz : a \in Words(sz, p),
         \A a, b \in T : m[a] = m[b] => a = b
  PROVE  Cardinality({m[a] : a \in T}) = Cardinality(T)
<1>1. PICK V : V = {m[a] : a \in T}
  OBVIOUS
<1>2. IsFiniteSet(T)
  <2>1. T \subseteq DOMAIN Mem(h)
    BY PlacedMapped
  <2>2. PICK e \in Nat : e = ChunkBase(Count(h) + 1)
    <3>1. Count(h) \in Nat
      BY HeapType DEF ArenaOK
    <3>. QED  BY <3>1, ChunkBases
  <2>3. DOMAIN Mem(h) = ALIGNMENT .. e - 1
    BY <2>2 DEF ArenaOK, Chunked
  <2>4. IsFiniteSet(ALIGNMENT .. e - 1)
    BY <2>2, FS_Interval, Constants
  <2>. QED  BY <2>1, <2>3, <2>4, FS_Subset
<1>. DEFINE g == [a \in T |-> m[a]]
<1>3. g \in Surjection(T, V) /\ g \in Injection(T, V)
  BY <1>1 DEF Surjection, Injection, IsInjective
<1>. HIDE DEF g
<1>4. Cardinality(V) = Cardinality(T)
  BY <1>2, <1>3, FS_Surjection
<1>. QED  BY <1>1, <1>4

\* Every object cut from the arena is exactly one thing: a root, a node or a leaf
\* node that one slot of one trie links, a span_t or data_chunk_t in use, or on the
\* free list of its size.  cmalloc_map, cmalloc_unmap and cmalloc_free_metadata
\* lose no metadata and use none twice.
THEOREM SpecObjectsPartitioned == Spec => []ObjectsPartitioned
<1>1. Inv => ObjectsPartitioned
  <2>. SUFFICES ASSUME Inv PROVE ObjectsPartitioned
    OBVIOUS
  <2>. DEFINE roots  == {heap.page_map, heap.free_list_map} \ {NULL}
              slots1 == UNION {NodeSlots(r) : r \in roots}
              slots2 == UNION {LeafNodeSlots(r) : r \in roots}
              sized(S, size) == {<<a, size>> : a \in S}
              owned == << sized(roots, RootSize),
                          sized({heap.mem[a] : a \in slots1}, NodeSize),
                          sized({heap.mem[a] : a \in slots2}, LeafNodeSize),
                          sized(DOMAIN spans, SpanSize),
                          sized(chunks, DataChunkSize),
                          sized(Listed(NodeSize), NodeSize),
                          sized(Listed(LeafNodeSize), LeafNodeSize),
                          sized(Listed(SpanSize), SpanSize) >>
  <2>1. PICK h, sz, us : h = heap /\ Objects(h, spans, chunks, sz, us)
    BY InvObjects
  <2>2. PICK m, r, f : m = Mem(h) /\ r = Pgm(h) /\ f = Flm(h)
    OBVIOUS
  <2>3. m = heap.mem /\ r = heap.page_map /\ f = heap.free_list_map
    BY <2>1, <2>2 DEF Mem, Pgm, Flm
  <2>4. PICK N1, L1, N2, L2 : /\ N1 = NodeSlots(r) /\ L1 = LeafNodeSlots(r)
                              /\ N2 = NodeSlots(f) /\ L2 = LeafNodeSlots(f)
    OBVIOUS
  <2>5. /\ ArenaOK(h, sz, us) /\ Layout(sz, us)
        /\ PageOK(m, r, sz, us, {}) /\ FreeInv(m, f, sz, us)
    BY <2>1, <2>2 DEF Objects, HInv, AInv, ArenaOK
  <2>6. Below(m, sz, us, N1, L1, PageUse) /\ \A p : p \in Of(us, "page_root") <=> r # 0 /\ p = r
    <3>1. PICK k : k = PageUse
      OBVIOUS
    <3>2. /\ r # 0 => Trie(m, sz, us, r, k)
          /\ r = 0 => \A p \in DOMAIN us : us[p] \notin Uses(k)
      BY <2>5, <3>1 DEF PageOK
    <3>3. Below(m, sz, us, N1, L1, k) /\ \A p : p \in Of(us, k.root) <=> r # 0 /\ p = r
      BY <2>3, <2>4, <2>5, <3>2, SlotsBelow
    <3>. QED  BY <3>1, <3>3, UseSets
  <2>7. Below(m, sz, us, N2, L2, FreeUse) /\ \A p : p \in Of(us, "free_root") <=> f # 0 /\ p = f
    <3>1. PICK k : k = FreeUse
      OBVIOUS
    <3>2. /\ f # 0 => Trie(m, sz, us, f, k)
          /\ f = 0 => \A p \in DOMAIN us : us[p] \notin Uses(k)
      BY <2>5, <3>1, UseSets DEF FreeInv
    <3>3. Below(m, sz, us, N2, L2, k) /\ \A p : p \in Of(us, k.root) <=> f # 0 /\ p = f
      BY <2>3, <2>4, <2>5, <3>2, SlotsBelow
    <3>. QED  BY <3>1, <3>3, UseSets
  <2>8. \A p : p \in roots <=> p \in Of(us, "page_root") \/ p \in Of(us, "free_root")
    BY <2>3, <2>6, <2>7 DEF NULL
  <2>9. /\ \A a : a \in slots1 <=> a \in N1 \/ a \in N2
        /\ \A a : a \in slots2 <=> a \in L1 \/ a \in L2
    <3>1. NodeSlots(0) = {} /\ LeafNodeSlots(0) = {}
      BY NoSlots
    <3>2. \A x : x \in roots <=> (x = r \/ x = f) /\ x # 0
      BY <2>3 DEF NULL
    <3>. HIDE DEF roots
    <3>3. ASSUME NEW a PROVE a \in slots1 <=> a \in N1 \/ a \in N2
      BY <2>4, <3>1, <3>2
    <3>4. ASSUME NEW a PROVE a \in slots2 <=> a \in L1 \/ a \in L2
      BY <2>4, <3>1, <3>2
    <3>. QED  BY <3>3, <3>4
  <2>. HIDE DEF roots, slots1, slots2
  <2>10. PICK nodes, leaves : nodes = {m[a] : a \in slots1} /\ leaves = {m[a] : a \in slots2}
    OBVIOUS
  <2>11. \A p : p \in nodes <=> p \in Of(us, "page_node") \/ p \in Of(us, "free_node")
    <3>1. /\ \A p : p \in Of(us, "page_node") <=> \E a \in N1 : m[a] = p
          /\ \A p : p \in Of(us, "free_node") <=> \E a \in N2 : m[a] = p
      BY <2>6, <2>7, UseSets DEF Below, LinksOnce
    <3>. QED  BY <2>9, <2>10, <3>1
  <2>12. \A p : p \in leaves <=> p \in Of(us, "page_leaf") \/ p \in Of(us, "free_leaf")
    <3>1. /\ \A p : p \in Of(us, "page_leaf") <=> \E a \in L1 : m[a] = p
          /\ \A p : p \in Of(us, "free_leaf") <=> \E a \in L2 : m[a] = p
      BY <2>6, <2>7, UseSets DEF Below, LinksOnce
    <3>. QED  BY <2>9, <2>10, <3>1
  <2>13. /\ \A p \in DOMAIN sz : PartOf(sz, us, p) \in 1 .. 8
         /\ IsPart(sz, us, roots, 1, RootSize)
         /\ IsPart(sz, us, nodes, 2, NodeSize)
         /\ IsPart(sz, us, leaves, 3, LeafNodeSize)
         /\ IsPart(sz, us, DOMAIN spans, 4, SpanSize)
         /\ IsPart(sz, us, chunks, 5, DataChunkSize)
         /\ IsPart(sz, us, Listed(NodeSize), 6, NodeSize)
         /\ IsPart(sz, us, Listed(LeafNodeSize), 7, LeafNodeSize)
         /\ IsPart(sz, us, Listed(SpanSize), 8, SpanSize)
    BY <2>1, <2>8, <2>11, <2>12, PartSets
  <2>14. \A S, i, size : IsPart(sz, us, S, i, size) => sized(S, size) = Piece(sz, us, i)
    <3>1. ASSUME NEW S, NEW i, NEW size, IsPart(sz, us, S, i, size)
          PROVE  {<<p, size>> : p \in S} = Piece(sz, us, i)
      BY <3>1, SizedPiece
    <3>. QED  BY <3>1
  <2>. HIDE DEF sized
  <2>15. DOMAIN owned = 1 .. 8
    OBVIOUS
  <2>16. /\ owned[1] = sized(roots, RootSize) /\ owned[2] = sized(nodes, NodeSize)
         /\ owned[3] = sized(leaves, LeafNodeSize) /\ owned[4] = sized(DOMAIN spans, SpanSize)
         /\ owned[5] = sized(chunks, DataChunkSize)
         /\ owned[6] = sized(Listed(NodeSize), NodeSize)
         /\ owned[7] = sized(Listed(LeafNodeSize), LeafNodeSize)
         /\ owned[8] = sized(Listed(SpanSize), SpanSize)
    BY <2>3, <2>10
  <2>. HIDE DEF owned
  <2>17. \A i \in 1 .. 8 : owned[i] = Piece(sz, us, i)
    <3>1. /\ owned[1] = Piece(sz, us, 1) /\ owned[2] = Piece(sz, us, 2)
          /\ owned[3] = Piece(sz, us, 3) /\ owned[4] = Piece(sz, us, 4)
          /\ owned[5] = Piece(sz, us, 5) /\ owned[6] = Piece(sz, us, 6)
          /\ owned[7] = Piece(sz, us, 7) /\ owned[8] = Piece(sz, us, 8)
      BY <2>13, <2>14, <2>16
    <3>2. \A i \in 1 .. 8 : \/ i = 1 \/ i = 2 \/ i = 3 \/ i = 4
                            \/ i = 5 \/ i = 6 \/ i = 7 \/ i = 8
      OBVIOUS
    <3>. QED  BY <3>1, <3>2
  <2>18. /\ UNION {owned[i] : i \in DOMAIN owned} = heap.carved
         /\ \A i, j \in DOMAIN owned : i # j => owned[i] \cap owned[j] = {}
    <3>1. PICK o : o = owned
      OBVIOUS
    <3>2. /\ UNION {o[i] : i \in DOMAIN o} = {<<p, sz[p]>> : p \in DOMAIN sz}
          /\ \A i, j \in DOMAIN o : i # j => o[i] \cap o[j] = {}
      BY <2>13, <2>15, <2>17, <3>1, PiecesPartition
    <3>3. heap.carved = {<<p, sz[p]>> : p \in DOMAIN sz}
      BY <2>1, <2>5 DEF ArenaOK, Objs
    <3>. QED  BY <3>1, <3>2, <3>3
  <2>19. Cardinality({heap.mem[a] : a \in slots1 \cup slots2}) = Cardinality(slots1 \cup slots2)
    <3>1. PICK T : T = slots1 \cup slots2
      OBVIOUS
    <3>2. \A a : a \in T <=> a \in N1 \/ a \in N2 \/ a \in L1 \/ a \in L2
      BY <2>9, <3>1
    <3>3. /\ \A a, b \in T : m[a] = m[b] => a = b
          /\ \A a \in T : \E p \in DOMAIN sz : a \in Words(sz, p)
      BY <2>6, <2>7, <3>2, SlotsDiffer
    <3>4. Cardinality({m[a] : a \in T}) = Cardinality(T)
      BY <2>5, <3>3, ContentsCount
    <3>. QED  BY <2>3, <3>1, <3>4
  <2>. QED  BY <2>18, <2>19 DEF ObjectsPartitioned, roots, slots1, slots2, sized, owned
<1>. QED  BY <1>1, SpecInv, PTL
=============================================================================
