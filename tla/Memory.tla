------------------------------- MODULE Memory -------------------------------
(***************************************************************************)
(* crates/mipsevm/src/memory.rs: the emulator's memory.  Pages are         *)
(* allocated on the first write; `nodes` caches the hashes of the Merkle   *)
(* tree above the pages, and a page caches its own (CachedPage).           *)
(*                                                                         *)
(* An entry of `nodes` is absent (no page below it was ever allocated), or *)
(* None (invalidated), or Some(hash).  Entries at the gindex of a page are *)
(* written by the code but never read.                                     *)
(*                                                                         *)
(* Addresses are word addresses; an address that is not word aligned is    *)
(* refused by the code before it touches any state.                        *)
(***************************************************************************)
EXTENDS AddressSpace

VARIABLES
    nodes,      \* gindex -> None or Some(hash), a partial function
    pages,      \* page index -> page, a partial function
    last_page,  \* the keys of the two pages looked up last, newest first
    loading,    \* the program image is still being loaded (load_elf, patch_*)
    range,      \* the set_memory_range call in progress
    result      \* what the last operation returned

vars == <<nodes, pages, last_page, loading, range, result>>

None    == [some |-> FALSE, hash |-> << >>]
Some(h) == [some |-> TRUE, hash |-> h]

NoPage == MAX_PAGE_COUNT     \* the key !0u64 of an empty cache slot
NoCall == [busy |-> FALSE, address |-> 0, data |-> << >>]

Resident == DOMAIN pages

-----------------------------------------------------------------------------
(* merkleize_subtree above the pages: the root of a page, a cached hash,   *)
(* or, where nothing was allocated, the hash of an all-zero range.         *)

GindexBits == Bits[MAX_PAGE_COUNT] + PageHeight     \* 28 in the code

MemorySettled ==
    PageGindex \cup {g \in InteriorNode : g \notin DOMAIN nodes \/ nodes[g].some}

MemoryBase ==
    [g \in TreeNodes(MAX_PAGE_COUNT) |->
        IF g \in PageGindex /\ g - MAX_PAGE_COUNT \in Resident
        THEN PageValues(pages[g - MAX_PAGE_COUNT])[1]
        ELSE IF g \in PageGindex \/ g \notin DOMAIN nodes
        THEN ZERO_HASHES[GindexBits - Bits[g]]
        ELSE nodes[g].hash]

MemoryValues == TreeFold(MAX_PAGE_COUNT, MemorySettled, MemoryBase)

(* The values merkleize_subtree returns below the root of page p.          *)
ValuesInPage(p) ==
    IF p \in Resident
    THEN PageValues(pages[p])
    ELSE [k \in TreeNodes(PAGE_SIZE_WORDS) |->
             ZERO_HASHES[GindexBits - (Bits[MAX_PAGE_COUNT] + Bits[k] - 1)]]

(* merkleize_subtree called on every gindex of R above the pages, and on   *)
(* every gindex of PR inside page q: the nodes on the way are stored, in   *)
(* memory and in the pages that are reached.                               *)
Merkleize(R, q, PR) ==
    LET visited == TreeVisit(MAX_PAGE_COUNT, MemorySettled, R)
        stored  == visited \ MemorySettled
    IN  /\ nodes' = [g \in DOMAIN nodes |->
                        IF g \in stored THEN Some(MemoryValues[g]) ELSE nodes[g]]
        /\ pages' = [p \in Resident |->
                        PageMerkleize(pages[p],
                            {k \in PR  : p = q} \cup
                            {k \in {1} : MAX_PAGE_COUNT + p \in visited})]

-----------------------------------------------------------------------------
(* Fault: a page that is missing enters the cache.                         *)
page_lookup_absent(p) ==
    last_page' = IF p # last_page[1] /\ p # last_page[2]
                 THEN <<p, last_page[1]>>
                 ELSE last_page

(* Fault: the cache is keyed by the gindex of the page.                    *)
page_lookup_by_gindex(p) ==
    last_page' = IF p \in Resident
                 THEN <<MAX_PAGE_COUNT + p, last_page[1]>>
                 ELSE last_page

(* page_lookup: the cache of two pages is consulted first; a page found in *)
(* the map enters it, a missing page does not.                             *)
page_lookup(p) ==
    last_page' = IF p \in Resident /\ p # last_page[1] /\ p # last_page[2]
                 THEN <<p, last_page[1]>>
                 ELSE last_page

InvalidateBranch(p) ==
    LET branch == Branch[MAX_PAGE_COUNT + p]
    IN  nodes' = [g \in DOMAIN nodes \cup branch |->
                     IF g \in branch THEN None ELSE nodes[g]]

(* Fault: the nodes above the page are never invalidated.                  *)
invalidate_page_only(p) == p \in Resident /\ UNCHANGED nodes

(* invalidate, on a resident page: when the page was invalid before, the   *)
(* nodes above it are left alone.                                          *)
invalidate(p) ==
    IF pages[p].valid[1] THEN InvalidateBranch(p) ELSE UNCHANGED nodes

StorePage(p, page) ==
    pages' = [q \in Resident \cup {p} |-> IF q = p THEN page ELSE pages[q]]

SetMemory(address, value) ==
    LET p    == PageOf(address)
        page == IF p \in Resident THEN pages[p] ELSE DefaultPage
    IN  /\ ~ range.busy
        /\ page_lookup(p)
        /\ IF p \in Resident THEN invalidate(p) ELSE InvalidateBranch(p)
        /\ StorePage(p, WithData(PageInvalidate(page, OffsetOf(address)),
                                 [page.data EXCEPT ![OffsetOf(address)] = value]))
        /\ result' = <<"set", address, value>>
        /\ UNCHANGED <<loading, range>>

GetMemory(address) ==
    LET p == PageOf(address)
    IN  /\ ~ range.busy
        /\ page_lookup(p)
        /\ result' = <<"get", address,
                       IF p \in Resident THEN pages[p].data[OffsetOf(address)] ELSE 0>>
        /\ UNCHANGED <<nodes, pages, loading, range>>

(* A read of MemoryReader, which looks at one page (see MemoryReader).     *)
ReadPage(address) ==
    /\ ~ range.busy
    /\ page_lookup(PageOf(address))
    /\ UNCHANGED <<nodes, pages, loading, range, result>>

(* The hashes are only asked for once the program runs.                    *)
MerkleRoot ==
    /\ ~ loading /\ ~ range.busy
    /\ Merkleize({1}, NoPage, {})
    /\ result' = <<"root", MemoryValues[1]>>
    /\ UNCHANGED <<last_page, loading, range>>

(* The siblings of the nodes on the way from k to the root.                *)
Beside(k) == {Sibling(j) : j \in Branch[k] \ {1}}

(* merkle_proof: the leaf of the address and the siblings of its branch    *)
(* are merkleized, the branch itself is not.                               *)
MerkleProof(address) ==
    LET leaf == PAGE_SIZE_WORDS + OffsetOf(address)
        root == MAX_PAGE_COUNT + PageOf(address)
    IN  /\ ~ loading /\ ~ range.busy
        /\ Merkleize(Beside(root), PageOf(address), Beside(leaf) \cup {leaf})
        /\ result' = <<"proof", address,
                       ProofOf(ValuesInPage(PageOf(address)), MemoryValues, address)>>
        /\ UNCHANGED <<last_page, loading, range>>

-----------------------------------------------------------------------------
(* set_memory_range: a loop that reads the next chunk of the input into    *)
(* the page of the current address, allocating it if needed.  The page is  *)
(* invalidated as a whole; the nodes above a resident page are not.        *)

RangeCall(address, data) ==
    /\ ~ range.busy
    /\ range' = [busy |-> TRUE, address |-> address, data |-> data]
    /\ UNCHANGED <<nodes, pages, last_page, loading, result>>

(* Fault: the words are read into the beginning of the page.               *)
RangeTouchFromStart(n) ==
    LET p    == PageOf(range.address)
        page == IF p \in Resident THEN pages[p] ELSE DefaultPage
    IN  /\ page_lookup(p)
        /\ IF p \in Resident THEN UNCHANGED nodes ELSE InvalidateBranch(p)
        /\ StorePage(p, WithData(PageInvalidateFull(page),
                                 [o \in PageOffset |-> IF o < n THEN range.data[o + 1]
                                                                ELSE page.data[o]]))

(* Look the page up or allocate it, invalidate it, and store n words.      *)
RangeTouch(n) ==
    LET p      == PageOf(range.address)
        offset == OffsetOf(range.address)
        page   == IF p \in Resident THEN pages[p] ELSE DefaultPage
    IN  /\ page_lookup(p)
        /\ IF p \in Resident THEN UNCHANGED nodes ELSE InvalidateBranch(p)
        /\ StorePage(p, WithData(PageInvalidateFull(page),
                                 [o \in PageOffset |->
                                     IF o \in offset .. (offset + n - 1)
                                     THEN range.data[o - offset + 1]
                                     ELSE page.data[o]]))

(* The reader delivers n words, as many as are left, or fit, or fewer.     *)
RangeChunk(n) ==
    /\ range.busy
    /\ n \in 1 .. Len(range.data)
    /\ OffsetOf(range.address) + n <= PAGE_SIZE_WORDS
    /\ RangeTouch(n)
    /\ range' = [range EXCEPT
           !.address = (range.address + n) % SPACE,
           !.data    = SubSeq(range.data, n + 1, Len(range.data))]
    /\ UNCHANGED <<loading, result>>

(* The reader has no more data, or fails; the page of the address reached  *)
(* has been touched by then.                                               *)
RangeReturn ==
    /\ range.busy
    /\ RangeTouch(0)
    /\ range' = NoCall
    /\ \E ok \in BOOLEAN :
          /\ ok => range.data = << >>
          /\ result' = <<"range", range.address, range.data, ok>>
    /\ UNCHANGED loading

(* load_elf and the patches are done and the program starts to run.        *)
FinishLoading ==
    /\ loading /\ ~ range.busy
    /\ loading' = FALSE
    /\ UNCHANGED <<nodes, pages, last_page, range, result>>

(* serialize then deserialize: only the data of the pages survives, every  *)
(* page is allocated again and invalidated as a whole.                     *)
Reload ==
    /\ ~ range.busy
    /\ nodes' = [g \in UNION {Branch[MAX_PAGE_COUNT + p] : p \in Resident} |-> None]
    /\ pages' = [p \in Resident |->
                    PageInvalidateFull(WithData(DefaultPage, pages[p].data))]
    /\ last_page' = <<NoPage, NoPage>>
    /\ result' = <<"reloaded">>
    /\ UNCHANGED <<loading, range>>

-----------------------------------------------------------------------------
Init ==
    /\ nodes = [g \in {} |-> None]
    /\ pages = [p \in {} |-> DefaultPage]
    /\ last_page = <<NoPage, NoPage>>
    /\ loading = TRUE
    /\ range = NoCall
    /\ result = <<"new">>

(* The operations the program uses in both phases.                         *)
Operation ==
    \/ \E address \in Touched :
          \/ \E value \in Word : SetMemory(address, value)
          \/ GetMemory(address)
          \/ ReadPage(address)
          \/ MerkleProof(address)
    \/ MerkleRoot
    \/ \E n \in 1 .. PAGE_SIZE_WORDS : RangeChunk(n)
    \/ RangeReturn
    \/ Reload

(* load_elf, patch_go and patch_stack are the only callers of              *)
(* set_memory_range, and no hash is asked for before they are done.        *)
Next ==
    \/ Operation
    \/ FinishLoading
    \/ loading /\ \E address \in Touched, data \in RangeData : RangeCall(address, data)

Spec == Init /\ [][Next]_vars

-----------------------------------------------------------------------------
TypeOK ==
    /\ DOMAIN nodes \subseteq TreeNodes(MAX_PAGE_COUNT)
    /\ \A g \in DOMAIN nodes : nodes[g].some \in BOOLEAN
    /\ Resident \subseteq PageIndex
    /\ \A p \in Resident : /\ pages[p].data \in [PageOffset -> Word]
                           /\ pages[p].valid \in [CachedNode -> BOOLEAN]
                           /\ DOMAIN pages[p].cache = CachedNode
    /\ last_page \in (PageIndex \cup {NoPage}) \X (PageIndex \cup {NoPage})
    /\ loading \in BOOLEAN
    /\ range \in [busy : BOOLEAN, address : Address, data : Seq(Word)]

(* A slot of last_page never names a page that is not in the map: a page   *)
(* found through a slot is the one the map holds.  The two slots never     *)
(* hold the same page.                                                     *)
LastPageResident ==
    /\ \A i \in 1 .. 2 : last_page[i] \in Resident \cup {NoPage}
    /\ last_page[1] = last_page[2] => last_page[1] = NoPage

(* The comment in `invalidate`, "If the page was already invalid before,   *)
(* then nodes to the memory root will also still be invalid": below an     *)
(* invalid page no hash above it is kept, so that the early return is      *)
(* right.                                                                  *)
InvalidPageInvalidBranch ==
    \A p \in Resident : ~ pages[p].valid[1] =>
        \A g \in Branch[MAX_PAGE_COUNT + p] : g \in DOMAIN nodes /\ ~ nodes[g].some

(* The data of every page of the address space.                            *)
FlatData == [p \in PageIndex |-> IF p \in Resident THEN pages[p].data ELSE ZeroData]

(* Whatever was written, hashed, invalidated or reloaded before, and in    *)
(* whichever order, merkleize_subtree returns at every node what hashing   *)
(* all of memory from scratch would: the caches of memory.rs and page.rs   *)
(* are never stale.                                                        *)
HashesFresh ==
    /\ MemoryValues = MemoryTree(FlatData)
    /\ \A p \in PageIndex : ValuesInPage(p) = PageTree(FlatData[p])

(* The paged, cached memory is indistinguishable from a flat array of      *)
(* words that hashes everything anew on every request: a write changes the *)
(* words it was called with, at their addresses, and no other; a range     *)
(* write does so in order and across pages, and has written all of its     *)
(* words when it succeeds; reads, roots and proofs are those of the words. *)
Flat == INSTANCE FlatMemory WITH mem <- FlatData, call <- range
FlatMemorySpec == Flat!FlatSpec
=============================================================================
