----------------------------- MODULE MerkleTree -----------------------------
(***************************************************************************)
(* The Merkle trees of the emulator's memory.  A tree with N leaves is     *)
(* numbered by generalized indices: node k has the children 2k and 2k + 1, *)
(* node 1 is the root and N .. 2N-1 are the leaves.  The same recursion is *)
(* written twice in the code, once over the nodes of a page and once over  *)
(* the nodes above the pages: `merkleize_subtree` returns a node that is   *)
(* settled (a leaf, a cached hash, an all-zero range) and otherwise hashes *)
(* its two children, storing the result.  TreeFold is what the recursion   *)
(* returns and TreeVisit the nodes it walks through.                       *)
(***************************************************************************)
EXTENDS Integers, Sequences

(* keccak256 of two concatenated digests: any two distinct pairs have      *)
(* distinct digests, so a digest is the pair itself.                       *)
keccak_concat_hashes(left, right) == <<left, right>>

(* The digest of an all-zero range of 2^i leaves.                          *)
ZERO_HASHES[i \in Nat] ==
    IF i = 0 THEN 0
             ELSE keccak_concat_hashes(ZERO_HASHES[i - 1], ZERO_HASHES[i - 1])

(* 64 - g_index.leading_zeros(): the bits needed to write a gindex.        *)
Bits[g \in Nat] == IF g = 0 THEN 0 ELSE 1 + Bits[g \div 2]

TreeNodes(N) == 1 .. (2 * N - 1)

(* A node and its ancestors: what `while g_index > 0 { ..; g_index >>= 1 }`*)
(* walks through.                                                          *)
Branch[g \in Nat] == IF g = 0 THEN {} ELSE {g} \cup Branch[g \div 2]

(* What merkleize_subtree returns at every node: the value `base` gives to *)
(* a settled node, the hash of its children for any other.                 *)
TreeFold(N, settled, base) ==
    LET fold[k \in TreeNodes(N)] ==
            IF k \in settled
            THEN base[k]
            ELSE keccak_concat_hashes(fold[2 * k], fold[2 * k + 1])
    IN  fold

(* The nodes merkleize_subtree walks through when it is called on every    *)
(* node of R: those below a node r of R with no settled node on the way    *)
(* from r down to them.                                                    *)
TreeVisit(N, settled, R) ==
    {k \in TreeNodes(N) :
        \E r \in R \cap Branch[k] :
            \A j \in Branch[k] : r <= j /\ j < k => j \notin settled}

Sibling(k) == IF k % 2 = 0 THEN k + 1 ELSE k - 1

(* The siblings of a branch, deepest first, as a function of its lower end.*)
SiblingValues(N, value) ==
    LET sibs[k \in TreeNodes(N)] ==
            IF k = 1 THEN << >> ELSE <<value[Sibling(k)]>> \o sibs[k \div 2]
    IN  sibs
=============================================================================
