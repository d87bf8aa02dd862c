---------------------------- MODULE AddressSpace ----------------------------
(***************************************************************************)
(* The constants and the reference definitions that the flat and the paged *)
(* memory share: which addresses there are, what the Merkle tree of an     *)
(* address space is, and what a Merkle proof consists of.                  *)
(***************************************************************************)
EXTENDS CachedPage

CONSTANTS
    MAX_PAGE_COUNT,   \* pages of the address space: 2^20 in the code
    Touched,          \* the addresses the callers use
    RangeData         \* the inputs the callers hand to set_memory_range

PageIndex     == 0 .. (MAX_PAGE_COUNT - 1)
Address       == 0 .. (MAX_PAGE_COUNT * PAGE_SIZE_WORDS - 1)
PageGindex    == MAX_PAGE_COUNT .. (2 * MAX_PAGE_COUNT - 1)
InteriorNode  == 1 .. (MAX_PAGE_COUNT - 1)

ASSUME PageCountAssumption ==
    /\ MAX_PAGE_COUNT \in Nat \ {0, 1}
    /\ \A g \in PageGindex : Bits[g] = Bits[MAX_PAGE_COUNT]

ASSUME CallerAssumption ==
    /\ Touched \subseteq Address
    /\ RangeData \subseteq Seq(Word)

SPACE == MAX_PAGE_COUNT * PAGE_SIZE_WORDS     \* addresses wrap here

(* The page of an address and the offset of the address in it.             *)
PageOf(address)   == address \div PAGE_SIZE_WORDS
OffsetOf(address) == address % PAGE_SIZE_WORDS

(* The tree above the pages whose data is given, each page standing for    *)
(* the root of its own tree.                                               *)
MemoryTree(data) ==
    TreeFold(MAX_PAGE_COUNT, PageGindex,
             [g \in TreeNodes(MAX_PAGE_COUNT) |->
                 IF g \in PageGindex
                 THEN PageTree(data[g - MAX_PAGE_COUNT])[1]
                 ELSE 0])

(* traverse_branch: the leaf of the address and the siblings on the way to *)
(* the root, deepest first.                                                *)
ProofOf(pageValues, memoryValues, address) ==
    LET leaf == PAGE_SIZE_WORDS + OffsetOf(address)
        root == MAX_PAGE_COUNT + PageOf(address)
    IN  <<pageValues[leaf]>>
            \o SiblingValues(PAGE_SIZE_WORDS, pageValues)[leaf]
            \o SiblingValues(MAX_PAGE_COUNT, memoryValues)[root]
=============================================================================
