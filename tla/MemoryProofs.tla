---------------------------- MODULE MemoryProofs ----------------------------
(***************************************************************************)
(* Proofs about Memory, for every number of pages and every page size that *)
(* make a balanced tree.                                                   *)
(***************************************************************************)
EXTENDS Memory, MerkleTreeProofs

L == PAGE_SIZE_WORDS
M == MAX_PAGE_COUNT

(* A page whose caches may be used.                                        *)
PageOK(page) ==
    /\ page.data \in [PageOffset -> Word]
    /\ page.valid \in [CachedNode -> BOOLEAN]
    /\ DOMAIN page.cache = CachedNode
    /\ Coherent(L, PageSettled(page), PageBase(page))

(* The nodes of a page's tree are its leaves and its cached nodes.         *)
LEMMA PageNodes ==
    /\ L \in Nat \ {0, 1}
    /\ PageLeaf = L .. (2 * L - 1)
    /\ CachedNode = 1 .. (L - 1)
    /\ TreeNodes(L) = PageLeaf \cup CachedNode
    /\ PageLeaf \cap CachedNode = {}
    /\ \A page : PageLeaf \subseteq PageSettled(page)
    /\ 1 \in CachedNode
BY PageSizeAssumption DEF L, PageLeaf, CachedNode, TreeNodes, PageSettled

(* A page whose caches may be used hashes to the tree of its data.         *)
LEMMA PageFresh ==
    ASSUME NEW page, PageOK(page)
    PROVE  PageValues(page) = PageTree(page.data)
<1> DEFINE leaves == [k \in TreeNodes(L) |-> IF k \in PageLeaf THEN page.data[k - L] ELSE 0]
<1>1. \A k \in PageLeaf : PageBase(page)[k] = leaves[k]
  BY PageNodes DEF PageBase, L
<1>2. L \in Nat \ {0} /\ L .. (2 * L - 1) \subseteq PageSettled(page)
  BY PageNodes
<1>3. Coherent(L, PageSettled(page), PageBase(page))
  BY DEF PageOK
<1>4. \A k \in L .. (2 * L - 1) : PageBase(page)[k] = leaves[k]
  BY <1>1, PageNodes
<1> HIDE DEF leaves
<1>5. TreeFold(L, PageSettled(page), PageBase(page)) = TreeFold(L, L .. (2 * L - 1), leaves)
  BY <1>2, <1>3, <1>4, CoherentFold
<1> QED BY <1>5, PageNodes DEF PageValues, PageTree, leaves, L

(* Coherence of a page, from its fields.                                   *)
LEMMA PageCoherent ==
    ASSUME NEW page, page.valid \in [CachedNode -> BOOLEAN],
           \A k \in CachedNode : page.valid[k] =>
               /\ 2 * k \in CachedNode => page.valid[2 * k]
               /\ 2 * k + 1 \in CachedNode => page.valid[2 * k + 1]
               /\ page.cache[k] = keccak_concat_hashes(PageBase(page)[2 * k],
                                                       PageBase(page)[2 * k + 1])
    PROVE  Coherent(L, PageSettled(page), PageBase(page))
<1> SUFFICES ASSUME NEW k \in PageSettled(page) \cap (1 .. (L - 1))
             PROVE  /\ 2 * k \in PageSettled(page) /\ 2 * k + 1 \in PageSettled(page)
                    /\ PageBase(page)[k] = keccak_concat_hashes(PageBase(page)[2 * k],
                                                                PageBase(page)[2 * k + 1])
  BY DEF Coherent
<1>1. k \in CachedNode /\ page.valid[k] /\ k \notin PageLeaf
  BY PageNodes DEF PageSettled
<1>2. /\ 2 * k \in CachedNode \/ 2 * k \in PageLeaf
      /\ 2 * k + 1 \in CachedNode \/ 2 * k + 1 \in PageLeaf
  BY PageNodes, <1>1
<1>3. 2 * k \in PageSettled(page) /\ 2 * k + 1 \in PageSettled(page)
  BY <1>1, <1>2 DEF PageSettled
<1>4. PageBase(page)[k] = page.cache[k]
  BY <1>1, PageNodes DEF PageBase, L
<1> QED BY <1>1, <1>3, <1>4

(* Hashing part of a page stores only hashes that may be used, and changes *)
(* neither its data nor what it hashes to.                                 *)
LEMMA PageMerkleizeOK ==
    ASSUME NEW page, PageOK(page), NEW R
    PROVE  LET q == PageMerkleize(page, R)
           IN  /\ PageOK(q)
               /\ q.data = page.data
               /\ PageValues(q) = PageValues(page)
               /\ page.valid[1] => q.valid[1]
               /\ 1 \in R => q.valid[1]
<1> DEFINE V == TreeVisit(L, PageSettled(page), R)
           T == TreeFold(L, PageSettled(page), PageBase(page))
           q == [data  |-> page.data,
                 valid |-> [k \in CachedNode |-> k \in V \ PageSettled(page) \/ page.valid[k]],
                 cache |-> [k \in CachedNode |-> IF k \in V \ PageSettled(page)
                                                 THEN T[k] ELSE page.cache[k]]]
<1>1. PageMerkleize(page, R) = q
  BY DEF PageMerkleize, PageValues, L
<1>2. L \in Nat \ {0} /\ L .. (2 * L - 1) \subseteq PageSettled(page)
  BY PageNodes
<1>3. V \subseteq TreeNodes(L)
  BY DEF TreeVisit
<1>4. PageSettled(q) = PageSettled(page) \cup V
  BY <1>3, PageNodes DEF PageSettled
<1>5. ASSUME NEW k \in TreeNodes(L)
      PROVE  PageBase(q)[k] = IF k \in V \ PageSettled(page) THEN T[k] ELSE PageBase(page)[k]
  <2>1. CASE k \in PageLeaf
    BY <2>1, PageNodes DEF PageBase, L
  <2>2. CASE k \in CachedNode
    BY <2>2, PageNodes DEF PageBase, L
  <2> QED BY <2>1, <2>2, PageNodes
<1>6. Coherent(L, PageSettled(page), PageBase(page))
  BY DEF PageOK
<1>7. Coherent(L, PageSettled(q), PageBase(q))
  <2> HIDE DEF q, T, V
  <2> DEFINE S2 == PageSettled(q)
             B2 == PageBase(q)
  <2>1. S2 = PageSettled(page) \cup V
    BY <1>4
  <2>2. \A k \in TreeNodes(L) :
            B2[k] = IF k \in V \ PageSettled(page) THEN T[k] ELSE PageBase(page)[k]
    BY <1>5
  <2> HIDE DEF S2, B2
  <2>3. Coherent(L, S2, B2)
    BY <1>2, <1>6, <2>1, <2>2, CoherentStore DEF V, T
  <2> QED BY <2>3 DEF S2, B2
<1>8. PageOK(q)
  <2>1. page.data \in [PageOffset -> Word] /\ page.valid \in [CachedNode -> BOOLEAN]
    BY DEF PageOK
  <2>2. q.data = page.data /\ q.valid \in [CachedNode -> BOOLEAN]
    BY <2>1
  <2>3. DOMAIN q.cache = CachedNode
    OBVIOUS
  <2> HIDE DEF q
  <2> QED BY <1>7, <2>1, <2>2, <2>3 DEF PageOK
<1>9. PageValues(q) = PageValues(page)
  <2>1. q.data = page.data
    OBVIOUS
  <2> HIDE DEF q
  <2> QED BY <1>8, <2>1, PageFresh
<1>10. page.valid[1] => q.valid[1]
  BY PageNodes
<1>11. ASSUME 1 \in R PROVE q.valid[1]
  <2>1. 1 \in V
    <3>1. 1 \in TreeNodes(L) /\ 1 \in Branch[1] /\ Branch[1] \subseteq 1 .. 1
      BY PageNodes, BranchToRoot
    <3> QED BY <1>11, <3>1 DEF TreeVisit
  <2>2. 1 \in PageSettled(page) => page.valid[1]
    BY PageNodes DEF PageSettled
  <2> QED BY <2>1, <2>2, PageNodes
<1>12. q.data = page.data
  OBVIOUS
<1> HIDE DEF q
<1> QED BY <1>1, <1>8, <1>9, <1>10, <1>11, <1>12

(* A page with no valid node at all may be used, whatever its data.        *)
LEMMA PageInvalidOK ==
    ASSUME NEW page, page.data \in [PageOffset -> Word],
           page.valid = [k \in CachedNode |-> FALSE],
           DOMAIN page.cache = CachedNode
    PROVE  PageOK(page) /\ ~ page.valid[1]
BY PageCoherent, PageNodes DEF PageOK

(* The page alloc_page inserts: all zero, with every hash valid.           *)
LEMMA DefaultPageOK == PageOK(DefaultPage) /\ DefaultPage.valid[1]
<1> DEFINE page == [data  |-> ZeroData,
                    valid |-> [k \in CachedNode |-> FALSE],
                    cache |-> [k \in CachedNode |-> ZERO_HASHES[0]]]
           q == PageMerkleize(page, {1})
<1>1. ZeroData \in [PageOffset -> Word]
  BY WordAssumption DEF ZeroData
<1>2. PageOK(page)
  BY <1>1, PageInvalidOK
<1>3. PageOK(q) /\ q.data = page.data
  <2> HIDE DEF page
  <2> QED BY <1>2, PageMerkleizeOK
<1>4. PageSettled(page) = PageLeaf
  BY DEF PageSettled
<1>5. TreeVisit(L, PageSettled(page), {1}) = TreeNodes(L)
  BY <1>4, PageNodes, VisitAll
<1>6. q.valid = [k \in CachedNode |-> TRUE]
  BY <1>4, <1>5, PageNodes DEF PageMerkleize, L
<1>7. DefaultPage = [data |-> ZeroData, valid |-> q.valid, cache |-> q.cache]
  BY <1>6 DEF DefaultPage, DEFAULT_CACHE
<1>8. /\ DefaultPage.data = q.data /\ DefaultPage.valid = q.valid
      /\ DefaultPage.cache = q.cache
  BY <1>3, <1>7
<1>9. PageSettled(DefaultPage) = PageSettled(q) /\ PageBase(DefaultPage) = PageBase(q)
  BY <1>8 DEF PageSettled, PageBase
<1> HIDE DEF q
<1> QED BY <1>3, <1>6, <1>8, <1>9, PageNodes DEF PageOK

(* invalidate then write: the hashes that stay valid do not cover the leaf *)
(* that changed.                                                           *)
LEMMA PageWriteOK ==
    ASSUME NEW page, PageOK(page), NEW o \in PageOffset, NEW v \in Word
    PROVE  LET q == WithData(PageInvalidate(page, o), [page.data EXCEPT ![o] = v])
           IN  /\ PageOK(q) /\ ~ q.valid[1]
               /\ q.data = [page.data EXCEPT ![o] = v]
<1> DEFINE key == (L + o) \div 2
           q == [data  |-> [page.data EXCEPT ![o] = v],
                 valid |-> [k \in CachedNode |-> k > key /\ page.valid[k]],
                 cache |-> page.cache]
<1>1. WithData(PageInvalidate(page, o), [page.data EXCEPT ![o] = v]) = q
  BY DEF PageInvalidate, WithData, L
<1>2. /\ page.data \in [PageOffset -> Word] /\ page.valid \in [CachedNode -> BOOLEAN]
      /\ DOMAIN page.cache = CachedNode
      /\ Coherent(L, PageSettled(page), PageBase(page))
  BY DEF PageOK
<1>3. o \in 0 .. (L - 1) /\ key \in Nat /\ key >= 1
  BY PageNodes DEF PageOffset, L
<1>4. ASSUME NEW k \in CachedNode, q.valid[k]
      PROVE  /\ 2 * k \in CachedNode => q.valid[2 * k]
             /\ 2 * k + 1 \in CachedNode => q.valid[2 * k + 1]
             /\ q.cache[k] = keccak_concat_hashes(PageBase(q)[2 * k], PageBase(q)[2 * k + 1])
  <2>1. k > key /\ page.valid[k]
    BY <1>4
  <2>2. /\ k \in PageSettled(page) \cap (1 .. (L - 1)) /\ k \notin PageLeaf
        /\ k \in TreeNodes(L)
    BY <2>1, PageNodes DEF PageSettled
  <2>3. /\ 2 * k \in PageSettled(page) /\ 2 * k + 1 \in PageSettled(page)
        /\ PageBase(page)[k] = keccak_concat_hashes(PageBase(page)[2 * k],
                                                    PageBase(page)[2 * k + 1])
    BY <1>2, <2>2 DEF Coherent
  <2>4. /\ 2 * k > key /\ 2 * k + 1 > key
        /\ 2 * k # L + o /\ 2 * k + 1 # L + o
        /\ 2 * k \in TreeNodes(L) /\ 2 * k + 1 \in TreeNodes(L)
    BY <1>3, <2>1, PageNodes DEF TreeNodes
  <2>5. PageBase(page)[k] = page.cache[k]
    BY <2>2 DEF PageBase, L
  <2>6. ASSUME NEW c \in TreeNodes(L), c > key, c # L + o, c \in PageSettled(page)
        PROVE  (c \in CachedNode => q.valid[c]) /\ PageBase(q)[c] = PageBase(page)[c]
    <3>1. CASE c \in CachedNode
      <4>1. c \notin PageLeaf
        BY <3>1, PageNodes
      <4> QED BY <2>6, <3>1, <4>1, PageNodes DEF PageBase, L, PageSettled
    <3>2. CASE c \in PageLeaf
      <4>1. c - L \in PageOffset /\ c - L # o
        BY <1>3, <2>6, <3>2, PageNodes DEF PageOffset, L
      <4>2. c \notin CachedNode
        BY <3>2, PageNodes
      <4>3. q.data[c - L] = page.data[c - L]
        BY <1>2, <4>1
      <4> QED BY <2>6, <3>2, <4>2, <4>3 DEF PageBase, L
    <3> QED BY <3>1, <3>2, PageNodes
  <2> QED BY <2>3, <2>4, <2>5, <2>6
<1>5. q.valid \in [CachedNode -> BOOLEAN]
  BY <1>2
<1>6. q.data \in [PageOffset -> Word] /\ DOMAIN q.cache = CachedNode
  BY <1>2
<1>7. ~ q.valid[1]
  <2>1. ~ (1 > key)
    BY <1>3
  <2> HIDE DEF key
  <2> QED BY <2>1, PageNodes
<1>8. Coherent(L, PageSettled(q), PageBase(q))
  <2> HIDE DEF q
  <2> QED BY <1>4, <1>5, PageCoherent
<1>9. q.data = [page.data EXCEPT ![o] = v]
  OBVIOUS
<1> HIDE DEF q
<1> QED BY <1>1, <1>5, <1>6, <1>7, <1>8, <1>9 DEF PageOK

(* The tree of an all-zero page consists of the precomputed hashes.        *)
LEMMA ZeroPage ==
    PageTree(ZeroData) =
        [k \in TreeNodes(L) |-> ZERO_HASHES[GindexBits - (Bits[M] + Bits[k] - 1)]]
<1> DEFINE Z == [k \in TreeNodes(L) |-> ZERO_HASHES[GindexBits - (Bits[M] + Bits[k] - 1)]]
           leaves == [k \in TreeNodes(L) |-> IF k \in PageLeaf THEN ZeroData[k - L] ELSE 0]
<1>1. Bits[M] \in Nat /\ Bits[L] \in Nat
  BY PageNodes, PageCountAssumption, BitsNat DEF M
<1>2. ASSUME NEW k \in TreeNodes(L)
      PROVE  Z[k] = ZERO_HASHES[Bits[L] - Bits[k]] /\ Bits[k] \in Nat /\ k \in Nat \ {0}
  <2>1. k \in Nat \ {0}
    BY DEF TreeNodes
  <2>2. Bits[k] \in Nat
    BY <2>1, BitsNat
  <2>3. GindexBits - (Bits[M] + Bits[k] - 1) = Bits[L] - Bits[k]
    BY <1>1, <2>2 DEF GindexBits, PageHeight, L, M
  <2> QED BY <2>1, <2>2, <2>3
<1>3. ASSUME NEW k \in 1 .. (L - 1)
      PROVE  /\ 2 * k \in TreeNodes(L) /\ 2 * k + 1 \in TreeNodes(L)
             /\ Z[k] = keccak_concat_hashes(Z[2 * k], Z[2 * k + 1])
  <2>1. /\ 2 * k \in TreeNodes(L) /\ 2 * k + 1 \in TreeNodes(L) /\ k \in TreeNodes(L)
        /\ 2 * k \in Nat \ {0} /\ 2 * L - 1 \in Nat \ {0} /\ 2 * k <= 2 * L - 1
        /\ 2 * L - 1 \in L .. (2 * L - 1) /\ k \in Nat \ {0}
    BY PageNodes DEF TreeNodes
  <2>2. Bits[2 * k] = 1 + Bits[k] /\ Bits[2 * k + 1] = 1 + Bits[k]
    BY <2>1, BitsOfChild
  <2>3. Bits[2 * k] <= Bits[2 * L - 1]
    BY <2>1, BitsMonotone
  <2>4. Bits[2 * L - 1] = Bits[L]
    BY <2>1, PageSizeAssumption DEF L
  <2>5. Bits[k] \in Nat
    BY <1>2, <2>1
  <2>6. Bits[L] - Bits[k] \in Nat \ {0} /\ (Bits[L] - Bits[k]) - 1 = Bits[L] - Bits[2 * k]
    BY <1>1, <2>2, <2>3, <2>4, <2>5
  <2> HIDE DEF Z
  <2>7. Z[2 * k] = ZERO_HASHES[Bits[L] - Bits[2 * k]]
    BY <1>2, <2>1
  <2>8. Z[2 * k + 1] = ZERO_HASHES[Bits[L] - Bits[2 * k]]
    BY <1>2, <2>1, <2>2
  <2>9. Z[k] = ZERO_HASHES[Bits[L] - Bits[k]]
    BY <1>2, <2>1
  <2> QED BY <2>1, <2>6, <2>7, <2>8, <2>9, ZeroHashesUnfold
<1>4. ASSUME NEW k \in L .. (2 * L - 1) PROVE Z[k] = leaves[k]
  <2>1. k \in TreeNodes(L) /\ k \in PageLeaf /\ k - L \in PageOffset
    BY PageNodes DEF PageOffset, L
  <2>2. Bits[k] = Bits[L]
    BY PageSizeAssumption DEF L
  <2>3. Bits[L] - Bits[k] = 0
    BY <1>1, <2>2
  <2>4. leaves[k] = 0
    BY <2>1 DEF ZeroData
  <2> HIDE DEF Z, leaves
  <2> QED BY <1>2, <2>1, <2>3, <2>4, ZeroHashesUnfold
<1> HIDE DEF Z, leaves
<1>5. Coherent(L, TreeNodes(L), Z)
  BY <1>3 DEF Coherent
<1>6. L \in Nat \ {0} /\ L .. (2 * L - 1) \subseteq TreeNodes(L)
  BY PageNodes
<1>7. TreeFold(L, TreeNodes(L), Z) = TreeFold(L, L .. (2 * L - 1), leaves)
  BY <1>4, <1>5, <1>6, CoherentFold
<1>8. TreeFold(L, TreeNodes(L), Z) = Z
  <2> DEFINE T == TreeFold(L, TreeNodes(L), Z)
  <2>1. T = [k \in TreeNodes(L) |-> T[k]] /\ \A k \in TreeNodes(L) : T[k] = Z[k]
    BY <1>6, TreeFoldUnfold
  <2> HIDE DEF T
  <2>2. T = Z
    BY <2>1 DEF Z
  <2> QED BY <2>2 DEF T
<1>9. PageTree(ZeroData) = TreeFold(L, L .. (2 * L - 1), leaves)
  BY PageNodes DEF PageTree, leaves, L
<1> QED BY <1>7, <1>8, <1>9 DEF Z

-----------------------------------------------------------------------------
(* The tree above the pages.                                               *)

(* The nodes of the tree above the pages are the inner nodes and the       *)
(* pages.                                                                  *)
LEMMA MemoryNodes ==
    /\ M \in Nat \ {0, 1}
    /\ PageGindex = M .. (2 * M - 1)
    /\ InteriorNode = 1 .. (M - 1)
    /\ TreeNodes(M) = PageGindex \cup InteriorNode
    /\ PageGindex \cap InteriorNode = {}
    /\ PageGindex \subseteq MemorySettled
    /\ \A p \in PageIndex : M + p \in PageGindex /\ M + p \in Nat \ {0} /\ (M + p) - M = p
    /\ \A g \in PageGindex : g - M \in PageIndex /\ M + (g - M) = g
BY PageCountAssumption DEF M, PageGindex, InteriorNode, TreeNodes, MemorySettled, PageIndex

(* The branch of a page lies in the tree; only its lower end is a page.    *)
LEMMA PageBranch ==
    ASSUME NEW p \in PageIndex
    PROVE  /\ Branch[M + p] \subseteq TreeNodes(M)
           /\ M + p \in Branch[M + p] /\ 1 \in Branch[M + p]
           /\ \A g \in Branch[M + p] : g # M + p => g \in InteriorNode
           /\ \A k \in InteriorNode : 2 * k \in Branch[M + p] \/ 2 * k + 1 \in Branch[M + p]
                                          => k \in Branch[M + p]
<1>1. M + p \in Nat \ {0} /\ p \in 0 .. (M - 1) /\ M \in Nat \ {0}
  BY MemoryNodes, PageCountAssumption DEF PageIndex, M
<1>2. /\ Branch[M + p] \subseteq 1 .. (M + p)
      /\ M + p \in Branch[M + p] /\ 1 \in Branch[M + p]
      /\ \A j \in Branch[M + p] : j # 1 => j \div 2 \in Branch[M + p]
  BY <1>1, BranchToRoot
<1>3. Branch[M + p] \subseteq TreeNodes(M)
  BY <1>1, <1>2 DEF TreeNodes
<1>4. ASSUME NEW g \in Branch[M + p], g # M + p PROVE g \in InteriorNode
  <2>1. g \in 1 .. ((M + p) \div 2)
    BY <1>1, <1>4, BranchHalf
  <2> QED BY <1>1, <2>1, MemoryNodes
<1>5. ASSUME NEW k \in InteriorNode, 2 * k \in Branch[M + p] \/ 2 * k + 1 \in Branch[M + p]
      PROVE  k \in Branch[M + p]
  <2>1. k \in Nat /\ (2 * k) \div 2 = k /\ (2 * k + 1) \div 2 = k /\ 2 * k # 1 /\ 2 * k + 1 # 1
    BY MemoryNodes
  <2> QED BY <1>2, <1>5, <2>1
<1> QED BY <1>2, <1>3, <1>4, <1>5

(* Where nothing was allocated the precomputed hashes are coherent.        *)
LEMMA ZeroAbove ==
    ASSUME NEW k \in InteriorNode
    PROVE  /\ ZERO_HASHES[GindexBits - Bits[k]] =
                  keccak_concat_hashes(ZERO_HASHES[GindexBits - Bits[2 * k]],
                                       ZERO_HASHES[GindexBits - Bits[2 * k + 1]])
<1>1. k \in Nat \ {0} /\ k <= M /\ M \in Nat \ {0} /\ L \in Nat \ {0}
  BY MemoryNodes, PageNodes
<1>2. Bits[k] \in Nat /\ Bits[M] \in Nat /\ Bits[L] \in Nat /\ Bits[k] <= Bits[M]
  BY <1>1, BitsNat, BitsMonotone
<1>3. Bits[2 * k] = 1 + Bits[k] /\ Bits[2 * k + 1] = 1 + Bits[k]
  BY <1>1, BitsOfChild
<1>4. Bits[L] >= 2
  <2>1. Bits[2 * 1] = 1 + Bits[1] /\ Bits[1] \in Nat \ {0}
    BY BitsOfChild, BitsNat
  <2>2. 2 \in Nat \ {0} /\ 2 <= L /\ 2 * 1 = 2
    BY PageNodes
  <2>3. Bits[2] <= Bits[L]
    BY <1>1, <2>2, BitsMonotone
  <2> QED BY <1>2, <2>1, <2>2, <2>3
<1>5. GindexBits = Bits[M] + Bits[L] - 1
  BY <1>2 DEF GindexBits, PageHeight, L, M
<1>6. /\ GindexBits - Bits[k] \in Nat \ {0}
      /\ GindexBits - Bits[2 * k] = (GindexBits - Bits[k]) - 1
      /\ GindexBits - Bits[2 * k + 1] = (GindexBits - Bits[k]) - 1
  BY <1>2, <1>3, <1>4, <1>5
<1> QED BY <1>6, ZeroHashesUnfold

-----------------------------------------------------------------------------
(* The inductive invariant.                                                *)

PagesOK == \A p \in Resident : PageOK(pages[p])

NodesCoherent == Coherent(M, MemorySettled, MemoryBase)

(* Above a resident page every node has an entry.                          *)
BranchesPresent == \A p \in Resident : Branch[M + p] \subseteq DOMAIN nodes

(* No hash is kept above the pages while the program is loaded, and no     *)
(* range is written afterwards.                                            *)
LoadingUnhashed ==
    /\ loading => \A g \in DOMAIN nodes : ~ nodes[g].some
    /\ ~ loading => ~ range.busy

CacheInv ==
    /\ PagesOK
    /\ NodesCoherent
    /\ BranchesPresent
    /\ InvalidPageInvalidBranch

IInv ==
    /\ TypeOK
    /\ CacheInv
    /\ LoadingUnhashed
    /\ LastPageResident

(* The heart of the matter: replacing a page by one that is marked invalid *)
(* keeps the caches usable, provided the nodes above it are invalid then,  *)
(* because they were invalidated or because they were invalid already.     *)
LEMMA ReplacePage ==
    ASSUME TypeOK, CacheInv,
           NEW p \in PageIndex, NEW page, PageOK(page), ~ page.valid[1],
           StorePage(p, page),
           \/ InvalidateBranch(p)
           \/ /\ nodes' = nodes
              /\ \A g \in Branch[M + p] : g \in DOMAIN nodes /\ ~ nodes[g].some
    PROVE  /\ CacheInv'
           /\ DOMAIN nodes' \subseteq TreeNodes(M)
           /\ \A g \in DOMAIN nodes' : nodes'[g].some \in BOOLEAN
           /\ \A g \in DOMAIN nodes' : nodes'[g].some => g \in DOMAIN nodes /\ nodes[g].some
           /\ DOMAIN pages' = Resident \cup {p}
           /\ pages'[p] = page
           /\ \A q \in Resident \ {p} : pages'[q] = pages[q]
<1> DEFINE B == Branch[M + p]
<1>1. /\ DOMAIN pages' = Resident \cup {p}
      /\ pages'[p] = page
      /\ \A q \in Resident \ {p} : pages'[q] = pages[q]
  BY DEF StorePage, Resident
<1>2. /\ B \subseteq DOMAIN nodes' /\ \A g \in B : ~ nodes'[g].some
      /\ DOMAIN nodes' = DOMAIN nodes \cup B
      /\ \A g \in DOMAIN nodes' \ B : nodes'[g] = nodes[g]
  <2>1. CASE InvalidateBranch(p)
    BY <2>1 DEF InvalidateBranch, None, M
  <2>2. CASE nodes' = nodes /\ \A g \in B : g \in DOMAIN nodes /\ ~ nodes[g].some
    BY <2>2
  <2> QED BY <2>1, <2>2
<1>3. B \subseteq TreeNodes(M) /\ M + p \in B
  BY PageBranch
<1> HIDE DEF B
<1>4. /\ DOMAIN nodes' \subseteq TreeNodes(M)
      /\ \A g \in DOMAIN nodes' : nodes'[g].some \in BOOLEAN
      /\ \A g \in DOMAIN nodes' : nodes'[g].some => g \in DOMAIN nodes /\ nodes[g].some
  <2>1. ASSUME NEW g \in B PROVE nodes'[g].some = FALSE
    <3>1. CASE InvalidateBranch(p)
      BY <2>1, <3>1 DEF InvalidateBranch, None, M, B
    <3>2. CASE nodes' = nodes /\ \A h \in B : h \in DOMAIN nodes /\ ~ nodes[h].some
      <4>1. g \in DOMAIN nodes /\ nodes[g].some \in BOOLEAN /\ ~ nodes[g].some /\ nodes' = nodes
        BY <2>1, <3>2 DEF TypeOK
      <4> QED BY <4>1
    <3> QED BY <3>1, <3>2 DEF B
  <2> QED BY <1>2, <1>3, <2>1 DEF TypeOK, M
<1>5. PagesOK'
  BY <1>1 DEF PagesOK, Resident, CacheInv
<1>6. BranchesPresent'
  BY <1>1, <1>2 DEF BranchesPresent, Resident, CacheInv, B
<1>7. InvalidPageInvalidBranch'
  <2> SUFFICES ASSUME NEW q \in Resident', ~ pages'[q].valid[1], NEW g \in Branch[M + q]
               PROVE  g \in DOMAIN nodes' /\ ~ nodes'[g].some
    BY DEF InvalidPageInvalidBranch, M
  <2>1. CASE q = p
    BY <1>2, <2>1 DEF B
  <2>2. CASE q # p
    <3>1. q \in Resident /\ ~ pages[q].valid[1]
      BY <1>1, <2>2 DEF Resident
    <3>2. g \in DOMAIN nodes /\ ~ nodes[g].some
      BY <3>1 DEF CacheInv, InvalidPageInvalidBranch, M
    <3> QED BY <1>2, <3>2
  <2> QED BY <2>1, <2>2
<1>8. NodesCoherent'
  <2> SUFFICES ASSUME NEW k \in MemorySettled', k \in 1 .. (M - 1)
               PROVE  /\ 2 * k \in MemorySettled' /\ 2 * k + 1 \in MemorySettled'
                      /\ MemoryBase'[k] = keccak_concat_hashes(MemoryBase'[2 * k],
                                                               MemoryBase'[2 * k + 1])
    BY DEF NodesCoherent, Coherent
  <2>1. /\ k \in InteriorNode /\ k \notin PageGindex /\ k \in TreeNodes(M)
        /\ 2 * k \in TreeNodes(M) /\ 2 * k + 1 \in TreeNodes(M)
    BY MemoryNodes DEF TreeNodes
  <2>2. k \notin B
    BY <1>2, <2>1 DEF MemorySettled
  <2>3. k \in MemorySettled
    BY <1>2, <2>1, <2>2 DEF MemorySettled
  <2>4. 2 * k \notin B /\ 2 * k + 1 \notin B
    BY <2>1, <2>2, PageBranch DEF B
  <2>5. /\ 2 * k \in MemorySettled /\ 2 * k + 1 \in MemorySettled
        /\ MemoryBase[k] = keccak_concat_hashes(MemoryBase[2 * k], MemoryBase[2 * k + 1])
    BY <2>1, <2>3, MemoryNodes DEF CacheInv, NodesCoherent, Coherent
  <2>6. ASSUME NEW c \in TreeNodes(M), c \notin B, c \in MemorySettled
        PROVE  c \in MemorySettled' /\ MemoryBase'[c] = MemoryBase[c]
    <3>1. c \in DOMAIN nodes' <=> c \in DOMAIN nodes
      BY <1>2, <2>6
    <3>2. c \in DOMAIN nodes => nodes'[c] = nodes[c]
      BY <1>2, <2>6
    <3>3. c \in MemorySettled'
      BY <2>6, <3>1, <3>2 DEF MemorySettled
    <3>4. CASE c \in PageGindex
      <4>1. c - M # p /\ c - M \in PageIndex
        BY <1>3, <2>6, <3>4, MemoryNodes
      <4>2. c - M \in Resident' <=> c - M \in Resident
        BY <1>1, <4>1 DEF Resident
      <4>3. c - M \in Resident => pages'[c - M] = pages[c - M]
        BY <1>1, <4>1
      <4> QED BY <3>3, <3>4, <4>2, <4>3, <2>6 DEF MemoryBase, M
    <3>5. CASE c \notin PageGindex
      BY <2>6, <3>1, <3>2, <3>3, <3>5 DEF MemoryBase, M
    <3> QED BY <3>4, <3>5
  <2> QED BY <2>1, <2>2, <2>3, <2>4, <2>5, <2>6
<1> QED BY <1>1, <1>4, <1>5, <1>6, <1>7, <1>8 DEF CacheInv

(* Hashing part of memory stores only hashes that may be used.             *)
LEMMA MerkleizeOK ==
    ASSUME TypeOK, CacheInv, NEW R, NEW q, NEW PR, Merkleize(R, q, PR)
    PROVE  /\ CacheInv'
           /\ DOMAIN nodes' = DOMAIN nodes
           /\ \A g \in DOMAIN nodes' : nodes'[g].some \in BOOLEAN
           /\ DOMAIN pages' = Resident
           /\ \A p \in Resident : pages'[p].data = pages[p].data
<1> DEFINE S == MemorySettled
           V == TreeVisit(M, S, R)
           T == TreeFold(M, S, MemoryBase)
           RP(p) == {k \in PR : p = q} \cup {k \in {1} : M + p \in V}
<1>1. nodes' = [g \in DOMAIN nodes |-> IF g \in V \ S THEN Some(T[g]) ELSE nodes[g]]
  BY DEF Merkleize, MemoryValues, M
<1>2. pages' = [p \in Resident |-> PageMerkleize(pages[p], RP(p))]
  BY DEF Merkleize, M
<1> HIDE DEF RP
<1>3. ASSUME NEW p \in Resident
      PROVE  /\ pages'[p] = PageMerkleize(pages[p], RP(p))
             /\ PageOK(pages'[p])
             /\ pages'[p].data = pages[p].data
             /\ PageValues(pages'[p]) = PageValues(pages[p])
             /\ pages[p].valid[1] => pages'[p].valid[1]
             /\ 1 \in RP(p) => pages'[p].valid[1]
  <2>1. PageOK(pages[p])
    BY DEF CacheInv, PagesOK
  <2>2. pages'[p] = PageMerkleize(pages[p], RP(p))
    BY <1>2
  <2> QED BY <2>1, <2>2, PageMerkleizeOK
<1>4. DOMAIN nodes' = DOMAIN nodes /\ DOMAIN pages' = Resident /\ Resident' = Resident
  BY <1>1, <1>2 DEF Resident
<1>5. ASSUME NEW g \in DOMAIN nodes
      PROVE  /\ nodes'[g].some \in BOOLEAN
             /\ g \in V \ S => nodes'[g].some /\ nodes'[g].hash = T[g]
             /\ g \notin V \ S => nodes'[g] = nodes[g]
  <2> HIDE DEF V, T, S
  <2>1. CASE g \in V \ S
    BY <1>1, <2>1 DEF Some
  <2>2. CASE g \notin V \ S
    BY <1>1, <2>2 DEF TypeOK
  <2> QED BY <2>1, <2>2
<1>6. PagesOK'
  BY <1>3, <1>4 DEF PagesOK
<1>7. BranchesPresent'
  BY <1>4 DEF BranchesPresent, CacheInv
<1>8. V \subseteq TreeNodes(M)
  BY DEF TreeVisit
<1>9. MemorySettled' = S \cup V
  <2>1. ASSUME NEW g \in InteriorNode
        PROVE  (g \notin DOMAIN nodes' \/ nodes'[g].some) <=> (g \in S \/ g \in V)
    <3>1. g \in TreeNodes(M) /\ g \notin PageGindex
      BY MemoryNodes
    <3>2. g \in S <=> (g \notin DOMAIN nodes \/ nodes[g].some)
      BY <3>1 DEF MemorySettled
    <3> HIDE DEF S, V, T
    <3> QED BY <1>4, <1>5, <3>2
  <2>2. PageGindex \subseteq S /\ S \subseteq TreeNodes(M)
    BY MemoryNodes DEF MemorySettled
  <2> HIDE DEF S, V
  <2> QED BY <1>8, <2>1, <2>2, MemoryNodes DEF MemorySettled
<1>10. ASSUME NEW g \in TreeNodes(M)
       PROVE  MemoryBase'[g] = IF g \in V \ S THEN T[g] ELSE MemoryBase[g]
  <2>1. CASE g \in PageGindex
    <3>1. g \in S
      BY <2>1 DEF MemorySettled
    <3>2. g - M \in Resident => PageValues(pages'[g - M]) = PageValues(pages[g - M])
      BY <1>3
    <3> HIDE DEF S, V, T
    <3> QED BY <1>4, <2>1, <3>1, <3>2 DEF MemoryBase, M
  <2>2. CASE g \notin PageGindex
    <3>1. g \in V \ S => g \in DOMAIN nodes
      BY <2>2, MemoryNodes DEF MemorySettled
    <3> HIDE DEF S, V, T
    <3>2. g \in DOMAIN nodes => nodes'[g].hash = IF g \in V \ S THEN T[g] ELSE nodes[g].hash
      BY <1>5
    <3> QED BY <1>4, <2>2, <3>1, <3>2 DEF MemoryBase, M
  <2> QED BY <2>1, <2>2
<1>11. NodesCoherent'
  <2> DEFINE S2 == MemorySettled'
             B2 == MemoryBase'
             B1 == MemoryBase
  <2>1. M \in Nat \ {0} /\ M .. (2 * M - 1) \subseteq S
    BY MemoryNodes
  <2>2. Coherent(M, S, B1)
    BY DEF CacheInv, NodesCoherent
  <2>3. S2 = S \cup TreeVisit(M, S, R)
    BY <1>9
  <2>4. \A k \in TreeNodes(M) :
            B2[k] = IF k \in TreeVisit(M, S, R) \ S THEN TreeFold(M, S, B1)[k] ELSE B1[k]
    BY <1>10
  <2> HIDE DEF S2, B2, B1, S
  <2>5. Coherent(M, S2, B2)
    BY <2>1, <2>2, <2>3, <2>4, CoherentStore
  <2> QED BY <2>5 DEF S2, B2, NodesCoherent
<1>12. InvalidPageInvalidBranch'
  <2> SUFFICES ASSUME NEW p \in Resident', ~ pages'[p].valid[1], NEW g \in Branch[M + p]
               PROVE  g \in DOMAIN nodes' /\ ~ nodes'[g].some
    BY DEF InvalidPageInvalidBranch, M
  <2>1. p \in Resident /\ ~ pages[p].valid[1] /\ 1 \notin RP(p)
    BY <1>3, <1>4
  <2>2. p \in PageIndex /\ M + p \notin V
    <3>1. p \in PageIndex
      BY <2>1 DEF TypeOK
    <3>2. M + p \notin V
      BY <2>1 DEF RP
    <3> QED BY <3>1, <3>2
  <2>3. \A h \in Branch[M + p] : h \in DOMAIN nodes /\ ~ nodes[h].some
    BY <2>1 DEF CacheInv, InvalidPageInvalidBranch, M
  <2>4. g \notin V \/ g \in S
    <3>1. ASSUME g \in V, g \notin S PROVE FALSE
      <4>1. PICK r \in R \cap Branch[g] :
                \A j \in Branch[g] : r <= j /\ j < g => j \notin S
        BY <3>1 DEF TreeVisit
      <4>2. M + p \in Nat \ {0} /\ M + p \in TreeNodes(M)
        BY <2>2, MemoryNodes
      <4>3. r \in R \cap Branch[M + p]
        BY <4>1, <4>2, BranchTransitive
      <4>4. ASSUME NEW j \in Branch[M + p], j < M + p PROVE j \notin S
        <5>1. j # M + p
          BY <4>2, <4>4
        <5>2. j \in InteriorNode
          BY <2>2, <5>1, PageBranch
        <5>3. j \in DOMAIN nodes /\ ~ nodes[j].some /\ j \notin PageGindex
          BY <2>3, <5>2, MemoryNodes
        <5> QED BY <5>3 DEF MemorySettled
      <4>5. M + p \in V
        <5> HIDE DEF S
        <5> QED BY <4>2, <4>3, <4>4 DEF TreeVisit
      <4> QED BY <2>2, <4>5
    <3> QED BY <3>1
  <2>5. g \in DOMAIN nodes /\ ~ nodes[g].some
    BY <2>3
  <2> HIDE DEF V, S, T
  <2> QED BY <1>4, <1>5, <2>4, <2>5
<1> QED BY <1>3, <1>4, <1>5, <1>6, <1>7, <1>11, <1>12 DEF CacheInv

-----------------------------------------------------------------------------
(* The page and the offset of an address are in range.                     *)
LEMMA AddressParts ==
    ASSUME NEW address \in Address
    PROVE  PageOf(address) \in PageIndex /\ OffsetOf(address) \in PageOffset
<1> DEFINE a == address
<1>1. a \in Nat /\ a < M * L /\ M \in Nat /\ L \in Nat \ {0}
  BY MemoryNodes, PageNodes DEF Address, M, L
<1>2. a = L * (a \div L) + (a % L) /\ a \div L \in Nat /\ a % L \in 0 .. (L - 1)
  BY <1>1
<1>3. a \div L < M
  <2>1. ASSUME a \div L >= M PROVE FALSE
    <3>1. L * (a \div L) >= L * M
      BY <1>1, <1>2, <2>1
    <3> QED BY <1>1, <1>2, <3>1
  <2> QED BY <1>1, <1>2, <2>1
<1> QED BY <1>1, <1>2, <1>3 DEF PageOf, OffsetOf, PageIndex, PageOffset, M, L

(* 0 is an address.                                                        *)
LEMMA ZeroAddress == 0 \in Address
<1>1. M \in Nat \ {0} /\ L \in Nat \ {0}
  BY MemoryNodes, PageNodes
<1>2. M * L \in Nat \ {0}
  BY <1>1
<1> QED BY <1>2 DEF Address, M, L

(* page_lookup keeps the slots within the map, whose pages never leave it. *)
LEMMA LookupOK ==
    ASSUME TypeOK, LastPageResident, NEW p \in PageIndex, page_lookup(p),
           Resident \subseteq Resident'
    PROVE  /\ last_page' \in (PageIndex \cup {NoPage}) \X (PageIndex \cup {NoPage})
           /\ LastPageResident'
<1>1. last_page \in (PageIndex \cup {NoPage}) \X (PageIndex \cup {NoPage})
  BY DEF TypeOK
<1>2. p # NoPage
  BY MemoryNodes DEF PageIndex, NoPage, M
<1>3. NoPage' = NoPage
  BY DEF NoPage
<1>4. CASE last_page' = last_page
  BY <1>1, <1>3, <1>4 DEF LastPageResident
<1>5. CASE last_page' = <<p, last_page[1]>> /\ p \in Resident /\ p # last_page[1]
  <2>1. last_page'[1] = p /\ last_page'[2] = last_page[1]
    BY <1>5
  <2>2. last_page[1] \in Resident \cup {NoPage}
    BY DEF LastPageResident
  <2>3. \A i \in 1 .. 2 : last_page'[i] \in Resident' \cup {NoPage}
    BY <1>5, <2>1, <2>2
  <2> QED BY <1>1, <1>2, <1>3, <1>5, <2>1, <2>3 DEF LastPageResident
<1> QED BY <1>4, <1>5 DEF page_lookup

(* Memory::default satisfies the inductive invariant.                      *)
LEMMA InitIInv == Init => IInv
<1> SUFFICES ASSUME Init PROVE IInv
  OBVIOUS
<1>1. DOMAIN nodes = {} /\ Resident = {}
  BY DEF Init, Resident
<1>2. TypeOK
  <2>1. last_page = <<NoPage, NoPage>> /\ loading = TRUE /\ range = NoCall
    BY DEF Init
  <2>2. 0 \in Address
    BY ZeroAddress
  <2>3. range \in [busy : BOOLEAN, address : Address, data : Seq(Word)]
    BY <2>1, <2>2 DEF NoCall
  <2> QED BY <1>1, <2>1, <2>3 DEF TypeOK
<1>3. NodesCoherent
  <2> SUFFICES ASSUME NEW k \in MemorySettled, k \in 1 .. (M - 1)
               PROVE  /\ 2 * k \in MemorySettled /\ 2 * k + 1 \in MemorySettled
                      /\ MemoryBase[k] = keccak_concat_hashes(MemoryBase[2 * k],
                                                              MemoryBase[2 * k + 1])
    BY DEF NodesCoherent, Coherent
  <2>1. /\ k \in InteriorNode /\ k \in TreeNodes(M)
        /\ 2 * k \in TreeNodes(M) /\ 2 * k + 1 \in TreeNodes(M)
    BY MemoryNodes DEF TreeNodes
  <2>2. \A g \in TreeNodes(M) :
            g \in MemorySettled /\ MemoryBase[g] = ZERO_HASHES[GindexBits - Bits[g]]
    BY <1>1, MemoryNodes DEF MemorySettled, MemoryBase, M
  <2> QED BY <2>1, <2>2, ZeroAbove
<1>4. CacheInv
  BY <1>1, <1>3 DEF CacheInv, PagesOK, BranchesPresent, InvalidPageInvalidBranch
<1>5. LoadingUnhashed /\ LastPageResident
  BY <1>1 DEF Init, LoadingUnhashed, LastPageResident, NoCall
<1> QED BY <1>2, <1>4, <1>5 DEF IInv

(* set_memory preserves the inductive invariant.                           *)
LEMMA SetMemoryIInv ==
    ASSUME IInv, NEW address \in Touched, NEW value \in Word, SetMemory(address, value)
    PROVE  IInv'
<1> DEFINE p == PageOf(address)
           o == OffsetOf(address)
           page == IF p \in Resident THEN pages[p] ELSE DefaultPage
           q == WithData(PageInvalidate(page, o), [page.data EXCEPT ![o] = value])
<1>1. p \in PageIndex /\ o \in PageOffset
  BY CallerAssumption, AddressParts
<1>2. PageOK(page)
  BY DefaultPageOK DEF IInv, CacheInv, PagesOK
<1>3. page_lookup(p) /\ StorePage(p, q) /\ UNCHANGED <<loading, range>>
  BY DEF SetMemory
<1>4. \/ InvalidateBranch(p)
      \/ /\ nodes' = nodes
         /\ \A g \in Branch[M + p] : g \in DOMAIN nodes /\ ~ nodes[g].some
  <2>1. CASE p \in Resident /\ ~ pages[p].valid[1]
    <3>1. nodes' = nodes
      BY <2>1 DEF SetMemory, invalidate
    <3> QED BY <2>1, <3>1 DEF IInv, CacheInv, InvalidPageInvalidBranch, M
  <2>2. CASE ~ (p \in Resident /\ ~ pages[p].valid[1])
    BY <2>2 DEF SetMemory, invalidate
  <2> QED BY <2>1, <2>2
<1> HIDE DEF p, o, page
<1>5. PageOK(q) /\ ~ q.valid[1]
  BY <1>1, <1>2, PageWriteOK
<1> HIDE DEF q
<1>6. /\ CacheInv'
      /\ DOMAIN nodes' \subseteq TreeNodes(M)
      /\ \A g \in DOMAIN nodes' : nodes'[g].some \in BOOLEAN
      /\ \A g \in DOMAIN nodes' : nodes'[g].some => g \in DOMAIN nodes /\ nodes[g].some
      /\ DOMAIN pages' = Resident \cup {p}
      /\ pages'[p] = q
      /\ \A r \in Resident \ {p} : pages'[r] = pages[r]
  BY <1>1, <1>3, <1>4, <1>5, ReplacePage DEF IInv
<1>7. /\ last_page' \in (PageIndex \cup {NoPage}) \X (PageIndex \cup {NoPage})
      /\ LastPageResident'
  BY <1>1, <1>3, <1>6, LookupOK DEF IInv, Resident
<1>8. TypeOK'
  BY <1>1, <1>3, <1>6, <1>7 DEF TypeOK, IInv, CacheInv, PagesOK, PageOK, Resident, M, NoPage
<1>9. LoadingUnhashed'
  BY <1>3, <1>6 DEF IInv, LoadingUnhashed
<1> QED BY <1>6, <1>7, <1>8, <1>9 DEF IInv

(* One iteration of set_memory_range, while no hash above the pages is     *)
(* kept.                                                                   *)
LEMMA RangeTouchOK ==
    ASSUME IInv, loading, range.busy, NEW n \in Nat,
           n <= Len(range.data), OffsetOf(range.address) + n <= L,
           RangeTouch(n)
    PROVE  /\ CacheInv' /\ LastPageResident'
           /\ DOMAIN nodes' \subseteq TreeNodes(M)
           /\ \A g \in DOMAIN nodes' : nodes'[g].some \in BOOLEAN /\ ~ nodes'[g].some
           /\ DOMAIN pages' \subseteq PageIndex
           /\ last_page' \in (PageIndex \cup {NoPage}) \X (PageIndex \cup {NoPage})
<1> DEFINE p == PageOf(range.address)
           off == OffsetOf(range.address)
           page == IF p \in Resident THEN pages[p] ELSE DefaultPage
           data == [o \in PageOffset |-> IF o \in off .. (off + n - 1)
                                         THEN range.data[o - off + 1]
                                         ELSE page.data[o]]
           q == WithData(PageInvalidateFull(page), data)
<1>1. /\ range.address \in Address /\ range.data \in Seq(Word)
      /\ p \in PageIndex /\ off \in PageOffset
  BY AddressParts DEF IInv, TypeOK
<1>2. PageOK(page)
  BY DefaultPageOK DEF IInv, CacheInv, PagesOK
<1>3. page_lookup(p) /\ StorePage(p, q)
  BY DEF RangeTouch
<1>4. \/ InvalidateBranch(p)
      \/ /\ nodes' = nodes
         /\ \A g \in Branch[M + p] : g \in DOMAIN nodes /\ ~ nodes[g].some
  <2>1. CASE p \in Resident
    <3>1. nodes' = nodes
      BY <2>1 DEF RangeTouch
    <3>2. Branch[M + p] \subseteq DOMAIN nodes
      BY <2>1 DEF IInv, CacheInv, BranchesPresent
    <3>3. \A g \in DOMAIN nodes : ~ nodes[g].some
      BY DEF IInv, LoadingUnhashed
    <3> QED BY <3>1, <3>2, <3>3
  <2>2. CASE p \notin Resident
    BY <2>2 DEF RangeTouch
  <2> QED BY <2>1, <2>2
<1> HIDE DEF p, page
<1>5. data \in [PageOffset -> Word]
  <2> SUFFICES ASSUME NEW o \in PageOffset, o \in off .. (off + n - 1)
               PROVE  range.data[o - off + 1] \in Word
    BY <1>2 DEF PageOK
  <2>1. off \in Nat /\ o \in Nat
    BY <1>1 DEF PageOffset
  <2>2. Len(range.data) \in Nat
    BY <1>1
  <2>3. o - off + 1 \in 1 .. Len(range.data)
    BY <2>1, <2>2
  <2> HIDE DEF off
  <2> QED BY <1>1, <2>3
<1> HIDE DEF data
<1>6. PageOK(q) /\ ~ q.valid[1]
  <2>1. /\ q.data = data /\ q.valid = [k \in CachedNode |-> FALSE]
        /\ q.cache = page.cache
    BY DEF WithData, PageInvalidateFull
  <2>2. DOMAIN q.cache = CachedNode
    BY <1>2, <2>1 DEF PageOK
  <2> HIDE DEF q
  <2> QED BY <1>5, <2>1, <2>2, PageInvalidOK
<1> HIDE DEF q
<1>7. /\ CacheInv'
      /\ DOMAIN nodes' \subseteq TreeNodes(M)
      /\ \A g \in DOMAIN nodes' : nodes'[g].some \in BOOLEAN
      /\ \A g \in DOMAIN nodes' : nodes'[g].some => g \in DOMAIN nodes /\ nodes[g].some
      /\ DOMAIN pages' = Resident \cup {p}
  BY <1>1, <1>3, <1>4, <1>6, ReplacePage DEF IInv
<1>8. /\ last_page' \in (PageIndex \cup {NoPage}) \X (PageIndex \cup {NoPage})
      /\ LastPageResident'
  BY <1>1, <1>3, <1>7, LookupOK DEF IInv, Resident
<1>9. \A g \in DOMAIN nodes : ~ nodes[g].some
  BY DEF IInv, LoadingUnhashed
<1>10. DOMAIN pages' \subseteq PageIndex
  BY <1>1, <1>7 DEF IInv, TypeOK
<1> QED BY <1>7, <1>8, <1>9, <1>10

(* A chunk of set_memory_range preserves the inductive invariant.          *)
LEMMA RangeIInv ==
    ASSUME IInv, NEW n \in 1 .. L, RangeChunk(n)
    PROVE  IInv'
<1>1. range.busy /\ loading /\ UNCHANGED loading
  BY DEF RangeChunk, IInv, LoadingUnhashed, TypeOK
<1>2. /\ range \in [busy : BOOLEAN, address : Address, data : Seq(Word)]
      /\ n \in 1 .. Len(range.data) /\ OffsetOf(range.address) + n <= L
      /\ RangeTouch(n) /\ n \in Nat
  BY PageNodes DEF RangeChunk, IInv, TypeOK, L
<1>3. n <= Len(range.data)
  BY <1>2
<1>4. /\ CacheInv' /\ LastPageResident'
      /\ DOMAIN nodes' \subseteq TreeNodes(M)
      /\ \A g \in DOMAIN nodes' : nodes'[g].some \in BOOLEAN /\ ~ nodes'[g].some
      /\ DOMAIN pages' \subseteq PageIndex
      /\ last_page' \in (PageIndex \cup {NoPage}) \X (PageIndex \cup {NoPage})
  BY <1>1, <1>2, <1>3, RangeTouchOK
<1>5. range' \in [busy : BOOLEAN, address : Address, data : Seq(Word)]
  <2> DEFINE size == M * L
  <2>1. size \in Nat \ {0} /\ Address = 0 .. (size - 1)
    <3>1. M \in Nat \ {0} /\ L \in Nat \ {0}
      BY MemoryNodes, PageNodes
    <3>2. M * L \in Nat \ {0}
      BY <3>1
    <3> QED BY <3>2 DEF Address, M, L
  <2>2. range' = [range EXCEPT !.address = (range.address + n) % size,
                               !.data = SubSeq(range.data, n + 1, Len(range.data))]
    BY DEF RangeChunk, SPACE, M, L
  <2> HIDE DEF size
  <2>3. (range.address + n) % size \in Address
    BY <1>2, <2>1
  <2>4. SubSeq(range.data, n + 1, Len(range.data)) \in Seq(Word)
    <3>1. range.data \in Seq(Word) /\ Len(range.data) \in Nat
      BY <1>2
    <3> QED BY <1>2, <3>1
  <2> QED BY <1>2, <2>2, <2>3, <2>4
<1>6. TypeOK'
  BY <1>1, <1>4, <1>5 DEF TypeOK, IInv, CacheInv, PagesOK, PageOK, Resident, M, NoPage
<1>7. LoadingUnhashed'
  BY <1>1, <1>4 DEF LoadingUnhashed
<1> QED BY <1>4, <1>6, <1>7 DEF IInv

(* The last turn of set_memory_range preserves the inductive invariant.    *)
LEMMA RangeReturnIInv ==
    ASSUME IInv, RangeReturn
    PROVE  IInv'
<1>1. range.busy /\ loading /\ UNCHANGED loading /\ RangeTouch(0) /\ range' = NoCall
  BY DEF RangeReturn, IInv, LoadingUnhashed, TypeOK
<1>2. range.address \in Address /\ range.data \in Seq(Word)
  BY DEF IInv, TypeOK
<1>3. 0 <= Len(range.data) /\ OffsetOf(range.address) + 0 <= L
  BY <1>2, AddressParts, PageNodes DEF PageOffset, L
<1>4. /\ CacheInv' /\ LastPageResident'
      /\ DOMAIN nodes' \subseteq TreeNodes(M)
      /\ \A g \in DOMAIN nodes' : nodes'[g].some \in BOOLEAN /\ ~ nodes'[g].some
      /\ DOMAIN pages' \subseteq PageIndex
      /\ last_page' \in (PageIndex \cup {NoPage}) \X (PageIndex \cup {NoPage})
  BY <1>1, <1>3, RangeTouchOK
<1>5. range' \in [busy : BOOLEAN, address : Address, data : Seq(Word)]
  BY <1>1, ZeroAddress DEF NoCall
<1>6. TypeOK'
  BY <1>1, <1>4, <1>5 DEF TypeOK, IInv, CacheInv, PagesOK, PageOK, Resident, M, NoPage
<1>7. LoadingUnhashed'
  BY <1>1, <1>4 DEF LoadingUnhashed
<1> QED BY <1>4, <1>6, <1>7 DEF IInv

(* merkleize_subtree preserves the inductive invariant.                    *)
LEMMA MerkleizeIInv ==
    ASSUME IInv, ~ loading, NEW R, NEW q, NEW PR, Merkleize(R, q, PR),
           UNCHANGED <<last_page, loading, range>>
    PROVE  IInv'
<1>1. /\ CacheInv'
      /\ DOMAIN nodes' = DOMAIN nodes
      /\ \A g \in DOMAIN nodes' : nodes'[g].some \in BOOLEAN
      /\ DOMAIN pages' = Resident
      /\ \A p \in Resident : pages'[p].data = pages[p].data
  BY MerkleizeOK DEF IInv
<1>2. TypeOK'
  BY <1>1 DEF TypeOK, IInv, CacheInv, PagesOK, PageOK, Resident, M, NoPage
<1>3. LoadingUnhashed' /\ LastPageResident'
  BY <1>1 DEF IInv, LoadingUnhashed, LastPageResident, Resident, NoPage
<1> QED BY <1>1, <1>2, <1>3 DEF IInv

(* A reloaded memory has no hash at all.                                   *)
LEMMA ReloadIInv ==
    ASSUME IInv, Reload
    PROVE  IInv'
<1> DEFINE U == UNION {Branch[M + p] : p \in Resident}
<1>1. /\ nodes' = [g \in U |-> None]
      /\ pages' = [p \in Resident |->
                      PageInvalidateFull(WithData(DefaultPage, pages[p].data))]
      /\ last_page' = <<NoPage, NoPage>> /\ UNCHANGED <<loading, range>>
  BY DEF Reload, M
<1>2. Resident \subseteq PageIndex /\ Resident' = Resident
  BY <1>1 DEF IInv, TypeOK, Resident
<1>3. U \subseteq TreeNodes(M)
  BY <1>2, PageBranch
<1>4. ASSUME NEW p \in Resident PROVE PageOK(pages'[p]) /\ ~ pages'[p].valid[1]
  <2>1. /\ pages'[p].data = pages[p].data
        /\ pages'[p].valid = [k \in CachedNode |-> FALSE]
        /\ pages'[p].cache = DefaultPage.cache
    BY <1>1 DEF PageInvalidateFull, WithData
  <2>2. pages[p].data \in [PageOffset -> Word] /\ DOMAIN DefaultPage.cache = CachedNode
    BY DefaultPageOK DEF IInv, TypeOK, PageOK
  <2> QED BY <2>1, <2>2, PageInvalidOK
<1>5. \A g \in U : ~ nodes'[g].some /\ nodes'[g].some \in BOOLEAN
  BY <1>1 DEF None
<1>6. ASSUME NEW k \in InteriorNode, k \notin U
      PROVE  2 * k \notin U /\ 2 * k + 1 \notin U
  BY <1>2, <1>6, PageBranch
<1>7. \A p \in Resident : M + p \in U
  BY <1>2, PageBranch
<1>8. DOMAIN nodes' = U
  BY <1>1
<1> HIDE DEF U
<1>9. NodesCoherent'
  <2> SUFFICES ASSUME NEW k \in MemorySettled', k \in 1 .. (M - 1)
               PROVE  /\ 2 * k \in MemorySettled' /\ 2 * k + 1 \in MemorySettled'
                      /\ MemoryBase'[k] = keccak_concat_hashes(MemoryBase'[2 * k],
                                                               MemoryBase'[2 * k + 1])
    BY DEF NodesCoherent, Coherent
  <2>1. /\ k \in InteriorNode /\ k \in TreeNodes(M) /\ k \notin PageGindex
        /\ 2 * k \in TreeNodes(M) /\ 2 * k + 1 \in TreeNodes(M)
    BY MemoryNodes DEF TreeNodes
  <2>2. k \notin U
    BY <1>5, <1>8, <2>1 DEF MemorySettled
  <2>3. ASSUME NEW g \in TreeNodes(M), g \notin U
        PROVE  g \in MemorySettled' /\ MemoryBase'[g] = ZERO_HASHES[GindexBits - Bits[g]]
    <3>1. g \in PageGindex => g - M \notin Resident
      BY <1>7, <2>3, MemoryNodes
    <3>2. g \in MemorySettled'
      BY <1>8, <2>3, MemoryNodes DEF MemorySettled
    <3>3. MemoryBase'[g] = ZERO_HASHES[GindexBits - Bits[g]]
      BY <1>2, <1>8, <2>3, <3>1 DEF MemoryBase, M
    <3> QED BY <3>2, <3>3
  <2> QED BY <1>6, <2>1, <2>2, <2>3, ZeroAbove
<1>10. BranchesPresent'
  BY <1>2, <1>8 DEF BranchesPresent, U
<1>11. InvalidPageInvalidBranch'
  BY <1>2, <1>5, <1>8, <1>10 DEF InvalidPageInvalidBranch, BranchesPresent, M
<1>12. CacheInv'
  BY <1>2, <1>4, <1>9, <1>10, <1>11 DEF CacheInv, PagesOK
<1>13. TypeOK'
  BY <1>1, <1>2, <1>3, <1>5, <1>8, <1>12
     DEF TypeOK, IInv, CacheInv, PagesOK, PageOK, M, NoPage
<1>14. LastPageResident'
  <2>1. last_page'[1] = NoPage /\ last_page'[2] = NoPage
    BY <1>1
  <2> QED BY <2>1 DEF LastPageResident, NoPage
<1>15. LoadingUnhashed'
  BY <1>1, <1>5, <1>8 DEF LoadingUnhashed, IInv
<1> QED BY <1>12, <1>13, <1>14, <1>15 DEF IInv

-----------------------------------------------------------------------------
(* Every step preserves the inductive invariant.                           *)
LEMMA NextIInv == IInv /\ [Next]_vars => IInv'
<1> SUFFICES ASSUME IInv, [Next]_vars PROVE IInv'
  OBVIOUS
<1>1. ASSUME UNCHANGED <<nodes, pages, last_page, range>>,
             loading' = loading \/ (loading /\ ~ range.busy /\ loading' = FALSE)
      PROVE  IInv'
  <2>1. TypeOK'
    BY <1>1 DEF IInv, TypeOK, Resident, NoPage
  <2>2. CacheInv'
    BY <1>1 DEF IInv, CacheInv, PagesOK, NodesCoherent, BranchesPresent,
                InvalidPageInvalidBranch, Resident, MemorySettled, MemoryBase
  <2>3. LoadingUnhashed' /\ LastPageResident'
    BY <1>1 DEF IInv, LoadingUnhashed, LastPageResident, Resident, NoPage
  <2> QED BY <2>1, <2>2, <2>3 DEF IInv
<1>2. ASSUME NEW address \in Touched, NEW value \in Word, SetMemory(address, value)
      PROVE  IInv'
  BY <1>2, SetMemoryIInv
<1>3. ASSUME NEW address \in Touched, GetMemory(address) PROVE IInv'
  <2>1. PageOf(address) \in PageIndex
    BY CallerAssumption, AddressParts
  <2>2. page_lookup(PageOf(address)) /\ UNCHANGED <<nodes, pages, loading, range>>
    BY <1>3 DEF GetMemory
  <2>3. /\ last_page' \in (PageIndex \cup {NoPage}) \X (PageIndex \cup {NoPage})
        /\ LastPageResident'
    BY <2>1, <2>2, LookupOK DEF IInv, Resident
  <2>4. TypeOK'
    BY <2>2, <2>3 DEF IInv, TypeOK, Resident, NoPage
  <2>5. CacheInv'
    BY <2>2 DEF IInv, CacheInv, PagesOK, NodesCoherent, BranchesPresent,
                InvalidPageInvalidBranch, Resident, MemorySettled, MemoryBase
  <2>6. LoadingUnhashed'
    BY <2>2 DEF IInv, LoadingUnhashed
  <2> QED BY <2>3, <2>4, <2>5, <2>6 DEF IInv
<1>4. ASSUME NEW address \in Touched, MerkleProof(address) PROVE IInv'
  <2>1. /\ ~ loading /\ UNCHANGED <<last_page, loading, range>>
        /\ \E R, q, PR : Merkleize(R, q, PR)
    BY <1>4 DEF MerkleProof
  <2> QED BY <2>1, MerkleizeIInv
<1>5. CASE MerkleRoot
  <2>1. /\ ~ loading /\ UNCHANGED <<last_page, loading, range>>
        /\ Merkleize({1}, NoPage, {})
    BY <1>5 DEF MerkleRoot
  <2> QED BY <2>1, MerkleizeIInv
<1>6. ASSUME NEW n \in 1 .. PAGE_SIZE_WORDS, RangeChunk(n) PROVE IInv'
  BY <1>6, RangeIInv DEF L
<1>7. CASE RangeReturn
  BY <1>7, RangeReturnIInv
<1>8. CASE Reload
  BY <1>8, ReloadIInv
<1>9. CASE FinishLoading
  BY <1>1, <1>9 DEF FinishLoading
<1>10. ASSUME loading, NEW address \in Touched, NEW data \in RangeData, RangeCall(address, data)
       PROVE  IInv'
  <2>1. /\ UNCHANGED <<nodes, pages, last_page, loading>>
        /\ range' = [busy |-> TRUE, address |-> address, data |-> data]
    BY <1>10 DEF RangeCall
  <2>2. range' \in [busy : BOOLEAN, address : Address, data : Seq(Word)]
    BY <2>1, CallerAssumption
  <2>3. TypeOK'
    BY <2>1, <2>2 DEF IInv, TypeOK, Resident, NoPage
  <2>4. CacheInv'
    BY <2>1 DEF IInv, CacheInv, PagesOK, NodesCoherent, BranchesPresent,
                InvalidPageInvalidBranch, Resident, MemorySettled, MemoryBase
  <2>5. LoadingUnhashed' /\ LastPageResident'
    BY <1>10, <2>1 DEF IInv, LoadingUnhashed, LastPageResident, Resident, NoPage
  <2> QED BY <2>3, <2>4, <2>5 DEF IInv
<1>11. CASE UNCHANGED vars
  BY <1>1, <1>11 DEF vars
<1>12. ASSUME NEW address \in Touched, ReadPage(address) PROVE IInv'
  <2>1. PageOf(address) \in PageIndex
    BY CallerAssumption, AddressParts
  <2>2. page_lookup(PageOf(address)) /\ UNCHANGED <<nodes, pages, loading, range>>
    BY <1>12 DEF ReadPage
  <2>3. /\ last_page' \in (PageIndex \cup {NoPage}) \X (PageIndex \cup {NoPage})
        /\ LastPageResident'
    BY <2>1, <2>2, LookupOK DEF IInv, Resident
  <2>4. TypeOK'
    BY <2>2, <2>3 DEF IInv, TypeOK, Resident, NoPage
  <2>5. CacheInv'
    BY <2>2 DEF IInv, CacheInv, PagesOK, NodesCoherent, BranchesPresent,
                InvalidPageInvalidBranch, Resident, MemorySettled, MemoryBase
  <2>6. LoadingUnhashed'
    BY <2>2 DEF IInv, LoadingUnhashed
  <2> QED BY <2>3, <2>4, <2>5, <2>6 DEF IInv
<1> QED BY <1>2, <1>3, <1>4, <1>5, <1>6, <1>7, <1>8, <1>9, <1>10, <1>11, <1>12
        DEF Next, Operation

(* Caches that may be used hash to the tree of the data.                   *)
LEMMA IInvFresh == IInv => HashesFresh
<1> SUFFICES ASSUME IInv PROVE HashesFresh
  OBVIOUS
<1> DEFINE leaves == [g \in TreeNodes(M) |-> IF g \in PageGindex
                                             THEN PageTree(FlatData[g - M])[1] ELSE 0]
<1>1. ASSUME NEW p \in PageIndex PROVE ValuesInPage(p) = PageTree(FlatData[p])
  <2>1. CASE p \in Resident
    <3>1. PageOK(pages[p])
      BY <2>1 DEF IInv, CacheInv, PagesOK
    <3>2. FlatData[p] = pages[p].data /\ ValuesInPage(p) = PageValues(pages[p])
      BY <2>1 DEF FlatData, ValuesInPage
    <3> QED BY <3>1, <3>2, PageFresh
  <2>2. CASE p \notin Resident
    <3>1. FlatData[p] = ZeroData
      BY <2>2 DEF FlatData
    <3> QED BY <2>2, <3>1, ZeroPage DEF ValuesInPage, L, M
  <2> QED BY <2>1, <2>2
<1>2. ASSUME NEW g \in M .. (2 * M - 1) PROVE MemoryBase[g] = leaves[g]
  <2>1. g \in PageGindex /\ g \in TreeNodes(M) /\ g - M \in PageIndex
    BY MemoryNodes
  <2>2. leaves[g] = ValuesInPage(g - M)[1]
    BY <1>1, <2>1
  <2>3. CASE g - M \in Resident
    BY <2>1, <2>2, <2>3 DEF MemoryBase, ValuesInPage, M
  <2>4. CASE g - M \notin Resident
    <3>1. MemoryBase[g] = ZERO_HASHES[GindexBits - Bits[g]]
      BY <2>1, <2>4 DEF MemoryBase, M
    <3>2. Bits[g] = Bits[M] /\ Bits[M] \in Nat
      BY <2>1, MemoryNodes, PageCountAssumption, BitsNat DEF M
    <3>3. Bits[1] = 1
      <4>1. 1 \in Nat \ {0} /\ 1 \div 2 = 0
        OBVIOUS
      <4> QED BY <4>1, BitsUnfold
    <3>4. 1 \in TreeNodes(L)
      BY PageNodes
    <3>5. ValuesInPage(g - M)[1] = ZERO_HASHES[GindexBits - (Bits[M] + Bits[1] - 1)]
      BY <2>4, <3>4 DEF ValuesInPage, L, M
    <3>6. Bits[M] + Bits[1] - 1 = Bits[g]
      BY <3>2, <3>3
    <3> QED BY <2>2, <3>1, <3>5, <3>6
  <2> QED BY <2>3, <2>4
<1>3. M \in Nat \ {0} /\ M .. (2 * M - 1) \subseteq MemorySettled
  BY MemoryNodes
<1>4. Coherent(M, MemorySettled, MemoryBase)
  BY DEF IInv, CacheInv, NodesCoherent
<1> HIDE DEF leaves
<1>5. TreeFold(M, MemorySettled, MemoryBase) = TreeFold(M, M .. (2 * M - 1), leaves)
  BY <1>2, <1>3, <1>4, CoherentFold
<1>6. MemoryValues = MemoryTree(FlatData)
  BY <1>5, MemoryNodes DEF MemoryValues, MemoryTree, leaves, M
<1> QED BY <1>1, <1>6 DEF HashesFresh

-----------------------------------------------------------------------------
(* The inductive invariant holds in every reachable state of memory.rs.    *)
THEOREM Invariance == Spec => []IInv
<1>1. Init => IInv
  BY InitIInv
<1>2. IInv /\ [Next]_vars => IInv'
  BY NextIInv
<1> QED BY <1>1, <1>2, PTL DEF Spec

(* The variables keep their types.                                         *)
THEOREM TypeCorrect == Spec => []TypeOK
<1>1. IInv => TypeOK
  BY DEF IInv
<1> QED BY <1>1, Invariance, PTL

(* The early return of `invalidate` is right in every reachable state.     *)
THEOREM InvalidBranches == Spec => []InvalidPageInvalidBranch
<1>1. IInv => InvalidPageInvalidBranch
  BY DEF IInv, CacheInv
<1> QED BY <1>1, Invariance, PTL

(* The two-page lookup cache never names a page that is not in the map.    *)
THEOREM LookupCache == Spec => []LastPageResident
<1>1. IInv => LastPageResident
  BY DEF IInv
<1> QED BY <1>1, Invariance, PTL

(* merkle_root, merkle_proof and merkleize_subtree never use a stale hash: *)
(* at every node they return what hashing all of memory would.             *)
THEOREM CachesNeverStale == Spec => []HashesFresh
<1>1. IInv => HashesFresh
  BY IInvFresh
<1> QED BY <1>1, Invariance, PTL

-----------------------------------------------------------------------------
(* Memory implements the flat array.                                       *)

(* The reference definitions are the same seen from either module.         *)
LEMMA FlatDefinitions ==
    /\ Flat!PageIndex = PageIndex /\ Flat!PageOffset = PageOffset
    /\ Flat!ZeroData = ZeroData /\ Flat!SPACE = SPACE
    /\ \A a : Flat!PageOf(a) = PageOf(a) /\ Flat!OffsetOf(a) = OffsetOf(a)
    /\ \A d : Flat!PageTree(d) = PageTree(d)
    /\ \A d : Flat!MemoryTree(d) = MemoryTree(d)
    /\ \A v, w, a : Flat!ProofOf(v, w, a) = ProofOf(v, w, a)
<1>1. /\ Flat!PageIndex = PageIndex /\ Flat!PageOffset = PageOffset
      /\ Flat!PageLeaf = PageLeaf /\ Flat!PageGindex = PageGindex
      /\ \A N : Flat!TreeNodes(N) = TreeNodes(N)
  BY DEF Flat!PageIndex, Flat!PageOffset, Flat!PageLeaf, Flat!PageGindex, Flat!TreeNodes,
         PageIndex, PageOffset, PageLeaf, PageGindex, TreeNodes
<1>2. Flat!ZeroData = ZeroData /\ Flat!SPACE = SPACE
  BY <1>1 DEF Flat!ZeroData, ZeroData, Flat!SPACE, SPACE
<1>3. \A a : Flat!PageOf(a) = PageOf(a) /\ Flat!OffsetOf(a) = OffsetOf(a)
  BY DEF Flat!PageOf, Flat!OffsetOf, PageOf, OffsetOf
<1>4. \A N, S, b : Flat!TreeFold(N, S, b) = TreeFold(N, S, b)
  BY DEF Flat!TreeFold, TreeFold, Flat!TreeNodes, TreeNodes,
         Flat!keccak_concat_hashes, keccak_concat_hashes
<1>5. \A d : Flat!PageTree(d) = PageTree(d)
  BY <1>1, <1>4 DEF Flat!PageTree, PageTree
<1>6. \A d : Flat!MemoryTree(d) = MemoryTree(d)
  BY <1>1, <1>4, <1>5 DEF Flat!MemoryTree, MemoryTree
<1>7. \A N, v : Flat!SiblingValues(N, v) = SiblingValues(N, v)
  BY DEF Flat!SiblingValues, SiblingValues, Flat!TreeNodes, TreeNodes, Flat!Sibling, Sibling
<1>8. \A v, w, a : Flat!ProofOf(v, w, a) = ProofOf(v, w, a)
  BY <1>3, <1>7 DEF Flat!ProofOf, ProofOf
<1> QED BY <1>1, <1>2, <1>3, <1>5, <1>6, <1>8

(* Storing a page replaces the data of that page and of no other.          *)
LEMMA FlatReplace ==
    ASSUME TypeOK, NEW p \in PageIndex, NEW page, StorePage(p, page)
    PROVE  FlatData' = [FlatData EXCEPT ![p] = page.data]
<1>1. /\ DOMAIN pages' = Resident \cup {p} /\ pages'[p] = page
      /\ \A q \in Resident \ {p} : pages'[q] = pages[q]
  BY DEF StorePage, Resident
<1> QED BY <1>1 DEF FlatData, Resident

(* Pages that keep their data give the same flat memory.                   *)
LEMMA FlatSame ==
    ASSUME DOMAIN pages' = Resident, \A p \in Resident : pages'[p].data = pages[p].data
    PROVE  FlatData' = FlatData
BY DEF FlatData, Resident

(* The flat memory holds the data of a resident page.                      *)
LEMMA FlatOfPage ==
    ASSUME NEW p \in PageIndex
    PROVE  FlatData[p] = (IF p \in Resident THEN pages[p] ELSE DefaultPage).data
BY DEF FlatData, DefaultPage

(* The data of every page are words.                                       *)
LEMMA FlatType == ASSUME IInv PROVE FlatData \in [PageIndex -> [PageOffset -> Word]]
<1>1. ZeroData \in [PageOffset -> Word]
  BY WordAssumption DEF ZeroData
<1>2. \A p \in Resident : pages[p].data \in [PageOffset -> Word]
  BY DEF IInv, TypeOK
<1> QED BY <1>1, <1>2 DEF FlatData


-----------------------------------------------------------------------------
(* Addresses.                                                              *)

S == SPACE



(* A quotient and a remainder are the only ones.                           *)
LEMMA DivMod ==
    ASSUME NEW m \in Nat \ {0}, NEW q \in Nat, NEW r \in 0 .. (m - 1)
    PROVE  (m * q + r) \div m = q /\ (m * q + r) % m = r
<1> DEFINE a == m * q + r
           t == a \div m
           s == a % m
<1>1. a \in Nat /\ m * q \in Nat
  OBVIOUS
<1>2. a = m * t + s /\ t \in Nat /\ s \in 0 .. (m - 1)
  <2>1. a \in Nat
    BY <1>1
  <2> HIDE DEF a
  <2> QED BY <2>1
<1> HIDE DEF t, s
<1>3. t = q
  <2>1. ASSUME t > q PROVE FALSE
    <3>1. m * t >= m * (q + 1)
      BY <1>2, <2>1
    <3>2. m * (q + 1) = m * q + m
      OBVIOUS
    <3> QED BY <1>1, <1>2, <3>1, <3>2
  <2>2. ASSUME t < q PROVE FALSE
    <3>1. m * q >= m * (t + 1)
      BY <1>2, <2>2
    <3>2. m * (t + 1) = m * t + m /\ m * t \in Nat
      BY <1>2
    <3> QED BY <1>1, <1>2, <3>1, <3>2
  <2> QED BY <1>2, <2>1, <2>2
<1>4. s = r
  BY <1>1, <1>2, <1>3
<1> QED BY <1>3, <1>4 DEF t, s

LEMMA Space ==
    /\ L \in Nat \ {0} /\ M \in Nat \ {0} /\ S \in Nat \ {0} /\ S = L * M /\ L <= S
    /\ Address = 0 .. (S - 1)
<1>1. L \in Nat \ {0} /\ M \in Nat \ {0}
  BY PageNodes, MemoryNodes
<1>2. S = M * L /\ M * L = L * M
  BY <1>1 DEF S, SPACE, M, L
<1>3. L * M \in Nat \ {0} /\ L * M >= L * 1
  BY <1>1
<1>4. Address = 0 .. (S - 1)
  BY DEF Address, S, SPACE
<1> QED BY <1>1, <1>2, <1>3, <1>4

(* Sums of two addresses wrap at most once.                                *)
LEMMA Wrap ==
    ASSUME NEW x \in 0 .. (2 * S - 1)
    PROVE  x % S = IF x < S THEN x ELSE x - S
<1>1. S \in Nat \ {0}
  BY Space
<1> DEFINE m == S
<1> HIDE DEF m
<1>2. m \in Nat \ {0} /\ x \in Nat /\ x < 2 * m
  BY <1>1 DEF m
<1>3. CASE x < m
  <2> DEFINE q == 0
  <2>1. q \in Nat /\ x \in 0 .. (m - 1) /\ m * q + x = x
    BY <1>2, <1>3
  <2> HIDE DEF q
  <2>2. (m * q + x) % m = x
    BY <1>2, <2>1, DivMod
  <2> QED BY <1>3, <2>1, <2>2 DEF m
<1>4. CASE ~ (x < m)
  <2> DEFINE q == 1
             r == x - m
  <2>1. q \in Nat /\ r \in 0 .. (m - 1) /\ m * q + r = x
    BY <1>2, <1>4
  <2> HIDE DEF q, r
  <2>2. (m * q + r) % m = r
    BY <1>2, <2>1, DivMod
  <2> QED BY <1>4, <2>1, <2>2 DEF m, r
<1> QED BY <1>3, <1>4

(* An address is where its page begins plus its offset, and the pages are  *)
(* apart.                                                                  *)
Begin(p) == L * p

LEMMA Pages ==
    /\ \A p \in PageIndex : Begin(p) \in Nat /\ Begin(p) + L <= S /\ Begin(p) = p * PAGE_SIZE_WORDS
    /\ \A p, q \in PageIndex : p # q => Begin(p) + L <= Begin(q) \/ Begin(q) + L <= Begin(p)
    /\ \A p \in PageIndex : Begin(p) + L = S \/ \E q \in PageIndex : Begin(p) + L = Begin(q)
    /\ Begin(0) = 0 /\ 0 \in PageIndex
<1>1. /\ L \in Nat \ {0} /\ M \in Nat \ {0} /\ S = L * M /\ L = PAGE_SIZE_WORDS
      /\ PageIndex = 0 .. (M - 1)
  BY Space DEF L, M, PageIndex
<1>2. ASSUME NEW p \in Nat, NEW q \in Nat, p < q PROVE L * p \in Nat /\ L * p + L <= L * q
  <2>1. L * (p + 1) <= L * q
    BY <1>1, <1>2
  <2>2. L * (p + 1) = L * p + L
    BY <1>1
  <2> QED BY <1>1, <2>1, <2>2
<1>3. ASSUME NEW p \in PageIndex
      PROVE  Begin(p) \in Nat /\ Begin(p) + L <= S /\ Begin(p) = p * PAGE_SIZE_WORDS
  <2>1. p \in Nat /\ M \in Nat /\ p < M
    BY <1>1
  <2>2. L * p \in Nat /\ L * p + L <= L * M
    BY <1>2, <2>1
  <2>3. L * p = p * L
    BY <1>1, <2>1
  <2> QED BY <1>1, <2>2, <2>3 DEF Begin
<1>4. ASSUME NEW p \in PageIndex, NEW q \in PageIndex, p # q
      PROVE  Begin(p) + L <= Begin(q) \/ Begin(q) + L <= Begin(p)
  <2>1. p \in Nat /\ q \in Nat /\ (p < q \/ q < p)
    BY <1>1, <1>4
  <2> QED BY <1>2, <2>1 DEF Begin
<1>5. ASSUME NEW p \in PageIndex
      PROVE  Begin(p) + L = S \/ \E q \in PageIndex : Begin(p) + L = Begin(q)
  <2>1. p \in Nat /\ p + 1 \in Nat /\ L * (p + 1) = L * p + L
    BY <1>1
  <2>2. CASE p + 1 = M
    BY <1>1, <2>1, <2>2 DEF Begin
  <2>3. CASE p + 1 # M
    <3>1. p + 1 \in PageIndex
      BY <1>1, <2>3
    <3> QED BY <2>1, <3>1 DEF Begin
  <2> QED BY <2>2, <2>3
<1>6. Begin(0) = 0 /\ 0 \in PageIndex
  BY <1>1 DEF Begin
<1> QED BY <1>3, <1>4, <1>5, <1>6

LEMMA Parts ==
    ASSUME NEW a \in Address
    PROVE  /\ PageOf(a) \in PageIndex /\ OffsetOf(a) \in 0 .. (L - 1)
           /\ a = Begin(PageOf(a)) + OffsetOf(a)
<1>1. L \in Nat \ {0} /\ a \in Nat /\ L = PAGE_SIZE_WORDS
  BY Space DEF L
<1>2. a = L * (a \div L) + (a % L)
  BY <1>1
<1> QED BY <1>1, <1>2, AddressParts DEF PageOf, OffsetOf, Begin, PageOffset

(* The addresses after one in the same page.                               *)
LEMMA SamePage ==
    ASSUME NEW a \in Address, NEW i \in Nat, OffsetOf(a) + i < L
    PROVE  /\ a + i \in Address
           /\ PageOf(a + i) = PageOf(a) /\ OffsetOf(a + i) = OffsetOf(a) + i
<1> DEFINE p == PageOf(a)
           o == OffsetOf(a)
           b == Begin(p)
<1>1. L \in Nat \ {0} /\ S \in Nat /\ Address = 0 .. (S - 1)
  BY Space
<1>2. p \in PageIndex /\ o \in 0 .. (L - 1) /\ a = b + o
  BY Parts
<1>3. b \in Nat /\ b + L <= S
  BY <1>2, Pages
<1>4. p \in Nat
  BY <1>2, MemoryNodes DEF PageIndex, M
<1>5. o + i < L
  OBVIOUS
<1> DEFINE r == o + i
<1>6. (L * p + r) \div L = p /\ (L * p + r) % L = r
  <2> HIDE DEF p, o
  <2>1. r \in 0 .. (L - 1)
    BY <1>1, <1>2, <1>5
  <2> HIDE DEF r
  <2> QED BY <1>1, <1>4, <2>1, DivMod
<1>7. a + i = L * p + r /\ a + i \in 0 .. (S - 1)
  <2>1. b = L * p
    BY DEF Begin
  <2> HIDE DEF p, o, b
  <2> QED BY <1>1, <1>2, <1>3, <1>5, <2>1
<1>8. PageOf(a + i) = p /\ OffsetOf(a + i) = r
  <2> HIDE DEF p, r
  <2> QED BY <1>6, <1>7 DEF PageOf, OffsetOf, L
<1> QED BY <1>1, <1>7, <1>8

(* An address from a page and an offset.                                   *)
LEMMA PartsOf ==
    ASSUME NEW p \in PageIndex, NEW o \in PageOffset, NEW x, x = p * PAGE_SIZE_WORDS + o
    PROVE  x \in Address /\ PageOf(x) = p /\ OffsetOf(x) = o
<1>1. /\ L \in Nat \ {0} /\ p \in Nat /\ o \in 0 .. (L - 1) /\ S \in Nat
      /\ Address = 0 .. (S - 1) /\ L = PAGE_SIZE_WORDS
  BY Space, MemoryNodes DEF PageIndex, PageOffset, M, L
<1>2. Begin(p) \in Nat /\ Begin(p) + L <= S /\ Begin(p) = p * PAGE_SIZE_WORDS
  BY Pages
<1>3. x = L * p + o /\ x \in Address
  BY <1>1, <1>2 DEF Begin
<1>4. (L * p + o) \div L = p /\ (L * p + o) % L = o
  BY <1>1, DivMod
<1> QED BY <1>1, <1>3, <1>4 DEF PageOf, OffsetOf

(* The distance from an address of the space to another, going up and      *)
(* wrapping at the end.                                                    *)
LEMMA Distance ==
    ASSUME NEW x \in Address, NEW a \in Address, NEW k, k = (x - a) % S
    PROVE  k \in 0 .. (S - 1) /\ (x >= a => k = x - a) /\ (x < a => k = (x - a) + S)
<1>1. S \in Nat \ {0} /\ x \in 0 .. (S - 1) /\ a \in 0 .. (S - 1)
  BY Space
<1>2. CASE x >= a
  <2> DEFINE r == x - a
             q == 0
  <2>1. r \in 0 .. (S - 1) /\ q \in Nat /\ S * q + r = r
    BY <1>1, <1>2
  <2> HIDE DEF q, r
  <2>2. r % S = r
    BY <1>1, <2>1, DivMod
  <2> QED BY <1>1, <1>2, <2>1, <2>2 DEF r
<1>3. CASE x < a
  <2> DEFINE d == x - a
             t == d \div S
             r == d % S
  <2>1. d \in Int /\ d < 0 /\ d >= - S + 1 /\ S \in Nat /\ S > 0
    BY <1>1, <1>3
  <2> HIDE DEF d
  <2>2. d = S * t + r /\ t \in Int /\ r \in 0 .. (S - 1)
    BY <2>1
  <2> HIDE DEF t, r
  <2>3. t = -1
    <3>1. ASSUME t >= 0 PROVE FALSE
      <4>1. S * t >= 0
        BY <2>1, <2>2, <3>1
      <4> QED BY <2>1, <2>2, <4>1
    <3>2. ASSUME t <= -2 PROVE FALSE
      <4>1. S * t <= S * (-2)
        BY <2>1, <2>2, <3>2
      <4>2. S * (-2) = - S - S
        BY <2>1
      <4> QED BY <2>1, <2>2, <4>1, <4>2
    <3> QED BY <2>2, <3>1, <3>2
  <2>4. r = d + S
    <3>1. S * (-1) = - S
      BY <2>1
    <3> QED BY <2>1, <2>2, <2>3, <3>1
  <2> QED BY <1>1, <1>3, <2>2, <2>4 DEF d, r
<1> QED BY <1>1, <1>2, <1>3

(* The cells that are n cells from an address in its page.                 *)
LEMMA ChunkCells ==
    ASSUME NEW a \in Address, NEW n \in Nat, OffsetOf(a) + n <= L, NEW x \in Address,
           NEW k, k = (x - a) % S
    PROVE  /\ k \in 0 .. (S - 1)
           /\ k < n <=> PageOf(x) = PageOf(a) /\ OffsetOf(x) \in OffsetOf(a) .. (OffsetOf(a) + n - 1)
           /\ k < n => OffsetOf(x) - OffsetOf(a) + 1 = k + 1
<1> DEFINE p == PageOf(a)
           o == OffsetOf(a)
           b == Begin(p)
<1>1. /\ L \in Nat \ {0} /\ S \in Nat \ {0} /\ x \in 0 .. (S - 1) /\ a \in 0 .. (S - 1)
      /\ o + n <= L
  BY Space
<1>2. k \in 0 .. (S - 1) /\ (x >= a => k = x - a) /\ (x < a => k = (x - a) + S)
  BY Distance
<1>3. p \in PageIndex /\ o \in 0 .. (L - 1) /\ a = b + o
  BY Parts
<1>4. b \in Nat /\ b + L <= S
  BY <1>3, Pages
<1>5. PageOf(x) \in PageIndex /\ OffsetOf(x) \in 0 .. (L - 1) /\ x = Begin(PageOf(x)) + OffsetOf(x)
  BY Parts
<1>6. ASSUME PageOf(x) = p, OffsetOf(x) \in o .. (o + n - 1)
      PROVE  k < n
  <2>1. x = b + OffsetOf(x)
    BY <1>5, <1>6
  <2> HIDE DEF p, o, b
  <2> QED BY <1>1, <1>2, <1>3, <1>4, <1>5, <1>6, <2>1
<1>7. ASSUME k < n
      PROVE  /\ PageOf(x) = p /\ OffsetOf(x) \in o .. (o + n - 1)
             /\ OffsetOf(x) - o + 1 = k + 1
  <2>1. x >= a
    <3> HIDE DEF p, o, b
    <3> QED BY <1>1, <1>2, <1>3, <1>4, <1>7
  <2>2. k = x - a /\ k \in Nat /\ a + k = x
    BY <1>1, <1>2, <2>1
  <2>3. o + k < L
    <3> HIDE DEF p, o, b
    <3> QED BY <1>1, <1>3, <1>7, <2>2
  <2>4. PageOf(a + k) = p /\ OffsetOf(a + k) = o + k
    BY <2>2, <2>3, SamePage
  <2>5. PageOf(x) = p /\ OffsetOf(x) = o + k
    BY <2>2, <2>4
  <2> HIDE DEF p, o, b
  <2> QED BY <1>1, <1>3, <1>7, <2>2, <2>5
<1> QED BY <1>2, <1>6, <1>7

-----------------------------------------------------------------------------
(* Every step of memory.rs is a step of the flat memory, or changes        *)
(* nothing in it.                                                          *)
LEMMA StepSimulation == IInv /\ [Next]_vars => [Flat!FlatNext]_(Flat!flatVars)
<1> SUFFICES ASSUME IInv, [Next]_vars PROVE [Flat!FlatNext]_(Flat!flatVars)
  OBVIOUS
<1>1. HashesFresh
  BY IInvFresh
<1>2. ASSUME NEW address \in Touched, NEW value \in Word, SetMemory(address, value)
      PROVE  Flat!FlatNext
  <2> DEFINE p == PageOf(address)
             o == OffsetOf(address)
             page == IF p \in Resident THEN pages[p] ELSE DefaultPage
             q == WithData(PageInvalidate(page, o), [page.data EXCEPT ![o] = value])
  <2>1. p \in PageIndex
    BY CallerAssumption, AddressParts
  <2>2. StorePage(p, q) /\ result' = <<"set", address, value>> /\ ~ range.busy /\ range' = range
    BY <1>2 DEF SetMemory
  <2>3. q.data = [page.data EXCEPT ![o] = value]
    BY DEF WithData
  <2>4. FlatData[p] = page.data
    BY <2>1, FlatOfPage
  <2> HIDE DEF q, page, p, o
  <2>5. FlatData' = [FlatData EXCEPT ![p] = q.data]
    BY <2>1, <2>2, FlatReplace DEF IInv
  <2>6. FlatData' = [FlatData EXCEPT ![p] = [FlatData[p] EXCEPT ![o] = value]]
    BY <2>3, <2>4, <2>5
  <2>7. Flat!FlatSet(address, value)
    BY <2>2, <2>6, FlatDefinitions DEF Flat!FlatSet, p, o
  <2> QED BY <2>7 DEF Flat!FlatNext
<1>3. ASSUME NEW address \in Touched, GetMemory(address) PROVE Flat!FlatNext
  <2>1. PageOf(address) \in PageIndex /\ OffsetOf(address) \in PageOffset
    BY CallerAssumption, AddressParts
  <2>2. /\ result' = <<"get", address, IF PageOf(address) \in Resident
                                        THEN pages[PageOf(address)].data[OffsetOf(address)]
                                        ELSE 0>>
        /\ pages' = pages /\ ~ range.busy /\ range' = range
    BY <1>3 DEF GetMemory
  <2>3. FlatData[PageOf(address)][OffsetOf(address)] =
            IF PageOf(address) \in Resident
            THEN pages[PageOf(address)].data[OffsetOf(address)] ELSE 0
    BY <2>1 DEF FlatData, ZeroData
  <2>4. FlatData' = FlatData
    BY <2>2 DEF FlatData, Resident
  <2>5. Flat!FlatGet(address)
    BY <2>2, <2>3, <2>4, FlatDefinitions DEF Flat!FlatGet
  <2> QED BY <2>5 DEF Flat!FlatNext
<1>4. ASSUME NEW R, NEW q, NEW PR, Merkleize(R, q, PR) PROVE FlatData' = FlatData
  BY <1>4, MerkleizeOK, FlatSame DEF IInv
<1>5. ASSUME NEW address \in Touched, MerkleProof(address) PROVE Flat!FlatNext
  <2>1. PageOf(address) \in PageIndex
    BY CallerAssumption, AddressParts
  <2>2. /\ \E R, q, PR : Merkleize(R, q, PR)
        /\ result' = <<"proof", address,
                       ProofOf(ValuesInPage(PageOf(address)), MemoryValues, address)>>
        /\ ~ range.busy /\ range' = range
    BY <1>5 DEF MerkleProof
  <2>3. FlatData' = FlatData
    BY <1>4, <2>2
  <2>4. /\ ValuesInPage(PageOf(address)) = PageTree(FlatData[PageOf(address)])
        /\ MemoryValues = MemoryTree(FlatData)
    BY <1>1, <2>1 DEF HashesFresh
  <2>5. Flat!FlatProof(address)
    BY <2>2, <2>3, <2>4, FlatDefinitions DEF Flat!FlatProof
  <2> QED BY <2>5 DEF Flat!FlatNext
<1>6. CASE MerkleRoot
  <2>1. /\ Merkleize({1}, NoPage, {}) /\ result' = <<"root", MemoryValues[1]>>
        /\ ~ range.busy /\ range' = range
    BY <1>6 DEF MerkleRoot
  <2>2. FlatData' = FlatData
    BY <1>4, <2>1
  <2>3. MemoryValues = MemoryTree(FlatData)
    BY <1>1 DEF HashesFresh
  <2>4. Flat!FlatRoot
    BY <2>1, <2>2, <2>3, FlatDefinitions DEF Flat!FlatRoot
  <2> QED BY <2>4 DEF Flat!FlatNext
<1> DEFINE rp == PageOf(range.address)
           ro == OffsetOf(range.address)
<1>7. range.address \in Address /\ range.data \in Seq(Word)
      /\ rp \in PageIndex /\ ro \in PageOffset
  BY AddressParts DEF IInv, TypeOK
<1>8. ASSUME NEW n \in Nat, RangeTouch(n)
      PROVE  FlatData' = [FlatData EXCEPT ![rp] =
                             [o \in PageOffset |-> IF o \in ro .. (ro + n - 1)
                                                   THEN range.data[o - ro + 1]
                                                   ELSE FlatData[rp][o]]]
  <2> DEFINE page == IF rp \in Resident THEN pages[rp] ELSE DefaultPage
             data == [o \in PageOffset |-> IF o \in ro .. (ro + n - 1)
                                           THEN range.data[o - ro + 1]
                                           ELSE page.data[o]]
             q == WithData(PageInvalidateFull(page), data)
  <2>1. StorePage(rp, q)
    BY <1>8 DEF RangeTouch
  <2>2. q.data = data
    BY DEF WithData
  <2>3. FlatData[rp] = page.data
    BY <1>7, FlatOfPage
  <2> HIDE DEF q, page, rp, ro
  <2>4. FlatData' = [FlatData EXCEPT ![rp] = q.data]
    BY <1>7, <2>1, FlatReplace DEF IInv
  <2>5. data = [o \in PageOffset |-> IF o \in ro .. (ro + n - 1)
                                     THEN range.data[o - ro + 1]
                                     ELSE FlatData[rp][o]]
    BY <2>3
  <2> HIDE DEF data
  <2> QED BY <2>2, <2>4, <2>5
<1>9. ASSUME NEW n \in 1 .. PAGE_SIZE_WORDS, RangeChunk(n) PROVE Flat!FlatNext
  <2> DEFINE words == [o \in PageOffset |-> IF o \in ro .. (ro + n - 1)
                                             THEN range.data[o - ro + 1]
                                             ELSE FlatData[rp][o]]
             I(p, o) == (p * PAGE_SIZE_WORDS + o - range.address) % SPACE
             next(p, o) == IF I(p, o) < n THEN range.data[I(p, o) + 1] ELSE FlatData[p][o]
  <2>1. /\ RangeTouch(n) /\ result' = result /\ n \in Nat /\ n \in 1 .. Len(range.data)
        /\ range.busy /\ ro + n <= L
        /\ range' = [range EXCEPT !.address = (range.address + n) % SPACE,
                                  !.data = SubSeq(range.data, n + 1, Len(range.data))]
    BY <1>9 DEF RangeChunk, L
  <2>2. range' = [busy |-> TRUE, address |-> (range.address + n) % SPACE,
                  data |-> SubSeq(range.data, n + 1, Len(range.data))]
    <3>1. range \in [busy : BOOLEAN, address : Address, data : Seq(Word)]
      BY DEF IInv, TypeOK
    <3> QED BY <2>1, <3>1
  <2>3. FlatData' = [FlatData EXCEPT ![rp] = words]
    BY <1>8, <2>1
  <2>4. FlatData \in [PageIndex -> [PageOffset -> Word]]
    BY FlatType
  <2>5. ASSUME NEW p \in PageIndex, NEW o \in PageOffset PROVE FlatData'[p][o] = next(p, o)
    <3> DEFINE x == p * PAGE_SIZE_WORDS + o
               k == I(p, o)
    <3>1. x \in Address /\ PageOf(x) = p /\ OffsetOf(x) = o
      BY PartsOf
    <3>2. k = (x - range.address) % S
      <4> DEFINE b == p * PAGE_SIZE_WORDS
      <4>1. b \in Nat /\ o \in Nat /\ range.address \in Nat
        BY <1>7, Pages, Space DEF PageOffset
      <4> HIDE DEF b
      <4>2. b + (o - range.address) = (b + o) - range.address
        BY <4>1
      <4> QED BY <4>2 DEF b, S
    <3> HIDE DEF x, k
    <3>3. /\ k < n <=> p = rp /\ o \in ro .. (ro + n - 1)
          /\ k < n => o - ro + 1 = k + 1
      BY <1>7, <2>1, <3>1, <3>2, ChunkCells
    <3>4. FlatData'[p][o] = IF p = rp THEN words[o] ELSE FlatData[p][o]
      <4> HIDE DEF words, rp
      <4> QED BY <1>7, <2>3, <2>4
    <3>5. words[o] = IF o \in ro .. (ro + n - 1) THEN range.data[o - ro + 1]
                                                 ELSE FlatData[rp][o]
      OBVIOUS
    <3> HIDE DEF words, rp, ro
    <3>6. FlatData'[p][o] = IF k < n THEN range.data[k + 1] ELSE FlatData[p][o]
      BY <3>3, <3>4, <3>5
    <3> QED BY <3>6 DEF k
  <2> DEFINE d == FlatData'
  <2>6. /\ d = [p \in PageIndex |-> d[p]]
        /\ \A p \in PageIndex : d[p] = [o \in PageOffset |-> d[p][o]]
    <3>1. d = [p \in PageIndex |-> d[p]]
      BY DEF FlatData
    <3>2. ASSUME NEW p \in PageIndex PROVE d[p] = [o \in PageOffset |-> d[p][o]]
      <4> HIDE DEF rp, ro
      <4> QED BY <1>7, <2>3, <2>4
    <3> QED BY <3>1, <3>2
  <2>7. d = [p \in PageIndex |-> [o \in PageOffset |-> next(p, o)]]
    <3>1. \A p \in PageIndex, o \in PageOffset : d[p][o] = next(p, o)
      BY <2>5
    <3> HIDE DEF next, d
    <3>2. \A p \in PageIndex : d[p] = [o \in PageOffset |-> next(p, o)]
      BY <2>6, <3>1
    <3> QED BY <2>6, <3>2
  <2>8. Flat!FlatWords(n)
    BY <2>1, <2>2, <2>7, FlatDefinitions DEF Flat!FlatWords
  <2> QED BY <2>1, <2>8 DEF Flat!FlatNext
<1>10. CASE RangeReturn
  <2>1. PICK ok \in BOOLEAN :
            /\ RangeTouch(0) /\ range.busy /\ range' = NoCall
            /\ ok => range.data = << >>
            /\ result' = <<"range", range.address, range.data, ok>>
    BY <1>10 DEF RangeReturn
  <2>2. ro \in Nat
    BY <1>7 DEF PageOffset
  <2>3. \A o \in PageOffset : o \notin ro .. (ro + 0 - 1)
    BY <2>2 DEF PageOffset
  <2>4. FlatData[rp] \in [PageOffset -> Word]
    BY <1>7, FlatType
  <2> HIDE DEF rp, ro
  <2>5. FlatData' = [FlatData EXCEPT ![rp] =
                        [o \in PageOffset |-> IF o \in ro .. (ro + 0 - 1)
                                              THEN range.data[o - ro + 1]
                                              ELSE FlatData[rp][o]]]
    BY <1>8, <2>1
  <2>6. [o \in PageOffset |-> IF o \in ro .. (ro + 0 - 1) THEN range.data[o - ro + 1]
                                                          ELSE FlatData[rp][o]] = FlatData[rp]
    BY <2>3, <2>4
  <2>7. FlatData' = FlatData
    BY <1>7, <2>5, <2>6 DEF FlatData
  <2>8. Flat!FlatReturn(ok)
    BY <2>1, <2>7 DEF Flat!FlatReturn, Flat!NotCalled, NoCall
  <2> QED BY <2>8 DEF Flat!FlatNext
<1>11. CASE Reload
  <2>1. result' = <<"reloaded">> /\ DOMAIN pages' = Resident /\ ~ range.busy /\ range' = range
    BY <1>11 DEF Reload
  <2>2. \A p \in Resident : pages'[p].data = pages[p].data
    BY <1>11 DEF Reload, PageInvalidateFull, WithData
  <2>3. FlatData' = FlatData
    BY <2>1, <2>2, FlatSame
  <2>4. Flat!FlatReload
    BY <2>1, <2>3 DEF Flat!FlatReload
  <2> QED BY <2>4 DEF Flat!FlatNext
<1>12. ASSUME UNCHANGED <<pages, range, result>> PROVE UNCHANGED Flat!flatVars
  <2>1. FlatData' = FlatData
    BY <1>12 DEF FlatData, Resident
  <2> QED BY <1>12, <2>1 DEF Flat!flatVars
<1>13. CASE FinishLoading
  BY <1>12, <1>13 DEF FinishLoading
<1>14. ASSUME NEW address \in Touched, NEW data \in RangeData, RangeCall(address, data)
       PROVE  Flat!FlatNext
  <2>1. /\ ~ range.busy /\ range' = [busy |-> TRUE, address |-> address, data |-> data]
        /\ UNCHANGED <<pages, result>>
    BY <1>14 DEF RangeCall
  <2>2. FlatData' = FlatData
    BY <2>1 DEF FlatData, Resident
  <2>3. Flat!FlatCall(address, data)
    BY <2>1, <2>2 DEF Flat!FlatCall
  <2> QED BY <2>3 DEF Flat!FlatNext
<1>15. CASE UNCHANGED vars
  BY <1>12, <1>15 DEF vars
<1>16. ASSUME NEW address \in Touched, ReadPage(address) PROVE UNCHANGED Flat!flatVars
  BY <1>12, <1>16 DEF ReadPage
<1> QED BY <1>2, <1>3, <1>5, <1>6, <1>9, <1>10, <1>11, <1>13, <1>14, <1>15, <1>16
        DEF Next, Operation

(* Every behaviour of the paged and cached memory is a behaviour of a flat *)
(* array of words that hashes everything anew: set_memory changes the word *)
(* it names, set_memory_range the words of its input at consecutive        *)
(* addresses and all of them when it succeeds, reads return what was       *)
(* written last, roots and proofs are those of the current contents.       *)
THEOREM ImplementsFlatMemory == Spec => FlatMemorySpec
<1>1. Init => Flat!FlatInit
  <2> SUFFICES ASSUME Init PROVE Flat!FlatInit
    OBVIOUS
  <2>1. Resident = {} /\ result = <<"new">> /\ range = NoCall
    BY DEF Init, Resident
  <2> QED BY <2>1, FlatDefinitions DEF Flat!FlatInit, Flat!NotCalled, NoCall, FlatData
<1>2. IInv /\ [Next]_vars => [Flat!FlatNext]_(Flat!flatVars)
  BY StepSimulation
<1> QED BY <1>1, <1>2, Invariance, PTL DEF Spec, FlatMemorySpec, Flat!FlatSpec
=============================================================================
