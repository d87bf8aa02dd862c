----------------------------- MODULE CachedPage -----------------------------
(***************************************************************************)
(* crates/mipsevm/src/page.rs: a page of memory with a cache of the nodes  *)
(* of its Merkle tree.  A page is a record                                 *)
(*     data  : the leaves (the 32 byte chunks) of the page,                *)
(*     cache : the hash last stored for each of the nodes 1 .. L-1,        *)
(*     valid : whether that hash may be used.                              *)
(* The model keeps one word per leaf.  Index 0 of `cache` and `valid` is   *)
(* never read by the code and is left out.                                 *)
(***************************************************************************)
EXTENDS MerkleTree

CONSTANTS
    PAGE_SIZE_WORDS,   \* leaves per page: 128 in the code
    Word               \* the values a leaf of memory can hold

ASSUME PageSizeAssumption ==
    /\ PAGE_SIZE_WORDS \in Nat \ {0, 1}
    /\ \A k \in PAGE_SIZE_WORDS .. (2 * PAGE_SIZE_WORDS - 1) :
           Bits[k] = Bits[PAGE_SIZE_WORDS]

ASSUME WordAssumption == 0 \in Word

PageOffset == 0 .. (PAGE_SIZE_WORDS - 1)
CachedNode == 1 .. (PAGE_SIZE_WORDS - 1)
PageLeaf   == PAGE_SIZE_WORDS .. (2 * PAGE_SIZE_WORDS - 1)

ZeroData == [o \in PageOffset |-> 0]

(* The height of a page's tree: log2 of the number of its leaves.          *)
PageHeight == Bits[PAGE_SIZE_WORDS] - 1

-----------------------------------------------------------------------------
(* merkleize_subtree: a leaf is read from the data, a valid node from the  *)
(* cache, and any other node is hashed and cached.                         *)

PageSettled(page) == PageLeaf \cup {k \in CachedNode : page.valid[k]}

PageBase(page) ==
    [k \in TreeNodes(PAGE_SIZE_WORDS) |->
        IF k \in PageLeaf THEN page.data[k - PAGE_SIZE_WORDS] ELSE page.cache[k]]

PageValues(page) == TreeFold(PAGE_SIZE_WORDS, PageSettled(page), PageBase(page))

(* The page after merkleize_subtree was called on every gindex of R.       *)
PageMerkleize(page, R) ==
    LET visited == TreeVisit(PAGE_SIZE_WORDS, PageSettled(page), R)
        values  == PageValues(page)
        stored  == visited \ PageSettled(page)
    IN  [data  |-> page.data,
         valid |-> [k \in CachedNode |-> k \in stored \/ page.valid[k]],
         cache |-> [k \in CachedNode |-> IF k \in stored THEN values[k]
                                                         ELSE page.cache[k]]]

(* The cache of an all-zero page, merkleized from nothing.                 *)
DEFAULT_CACHE ==
    PageMerkleize([data  |-> ZeroData,
                   valid |-> [k \in CachedNode |-> FALSE],
                   cache |-> [k \in CachedNode |-> ZERO_HASHES[0]]], {1}).cache

DefaultPage ==
    [data  |-> ZeroData,
     valid |-> [k \in CachedNode |-> TRUE],
     cache |-> DEFAULT_CACHE]

(* Fault: the walk to the root starts one level too high.                  *)
PageInvalidateAbove(page, offset) ==
    LET key == (PAGE_SIZE_WORDS + offset) \div 4
    IN  [data  |-> page.data,
         valid |-> [k \in CachedNode |-> k > key /\ page.valid[k]],
         cache |-> page.cache]

(* invalidate: the node above the leaf of the offset and every node with a *)
(* smaller index, among them all its ancestors.                            *)
PageInvalidate(page, offset) ==
    LET key == (PAGE_SIZE_WORDS + offset) \div 2
    IN  [data  |-> page.data,
         valid |-> [k \in CachedNode |-> k > key /\ page.valid[k]],
         cache |-> page.cache]

PageInvalidateFull(page) ==
    [data  |-> page.data,
     valid |-> [k \in CachedNode |-> FALSE],
     cache |-> page.cache]

WithData(page, data) ==
    [data |-> data, valid |-> page.valid, cache |-> page.cache]

-----------------------------------------------------------------------------
(* What a page's tree is, from its data alone.                             *)
PageTree(data) ==
    TreeFold(PAGE_SIZE_WORDS, PageLeaf,
             [k \in TreeNodes(PAGE_SIZE_WORDS) |->
                 IF k \in PageLeaf THEN data[k - PAGE_SIZE_WORDS] ELSE 0])
=============================================================================
