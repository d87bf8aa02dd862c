-------------------------- MODULE MerkleTreeProofs --------------------------
(***************************************************************************)
(* Facts about the recursive functions of MerkleTree.  Each of them is a   *)
(* CHOOSE of a function that satisfies its equation; the facts below say   *)
(* that there is one, by induction in the form of the least number         *)
(* principle.                                                              *)
(***************************************************************************)
EXTENDS MerkleTree, TLAPS, WellFoundedInduction

NatLess == {ss \in Nat \X Nat : ss[1] < ss[2]}

(* The order on which every recursion over gindices descends.              *)
LEMMA NatLessWellFounded == IsWellFoundedOn(NatLess, Nat)
BY NatLessThanWellFounded DEF OpToRel, NatLess

(* Every nonempty set of naturals has a least element.                     *)
LEMMA LeastNat ==
    ASSUME NEW T, T \subseteq Nat, T # {}
    PROVE  \E x \in T : \A y \in T : x <= y
<1>1. PICK x \in T : \A y \in T : ~ (<<y, x>> \in NatLess)
  BY NatLessWellFounded, WFMin, Zenon
<1>2. \A y \in Nat, z \in Nat : <<y, z>> \in NatLess <=> y < z
  BY DEF NatLess
<1>3. ASSUME NEW y \in T PROVE x <= y
  <2>1. x \in Nat /\ y \in Nat
    OBVIOUS
  <2>2. ~ (y < x)
    BY <1>1, <1>2, <2>1
  <2> QED BY <2>1, <2>2
<1> QED BY <1>3

(* Every nonempty set of naturals below a bound has a greatest element.    *)
LEMMA GreatestNat ==
    ASSUME NEW n \in Nat, NEW T, T \subseteq 0 .. n, T # {}
    PROVE  \E x \in T : \A y \in T : y <= x
<1> DEFINE D == {n - y : y \in T}
<1>1. D \subseteq Nat /\ D # {}
  <2>1. \A y \in T : n - y \in Nat
    OBVIOUS
  <2> QED BY <2>1, Zenon
<1>2. PICK d \in D : \A e \in D : d <= e
  BY <1>1, LeastNat, Zenon
<1>3. PICK x \in T : d = n - x
  OBVIOUS
<1>4. ASSUME NEW y \in T PROVE y <= x
  <2>1. n - x <= n - y
    BY <1>2, <1>3
  <2> QED BY <2>1
<1> QED BY <1>4

-----------------------------------------------------------------------------
(* Halving: the recursion of Bits and Branch.                              *)

(* g_index >> 1 is a smaller gindex: the walk to the root ends.            *)
LEMMA HalfSmaller ==
    ASSUME NEW n \in Nat, n # 0
    PROVE  n \div 2 \in Nat /\ n \div 2 < n /\ n \div 2 <= n - 1
OBVIOUS

IsBits(f, n) == \A i \in 0 .. n : f[i] = IF i = 0 THEN 0 ELSE 1 + f[i \div 2]

(* Two functions that satisfy the recursion of Bits up to n agree.         *)
LEMMA BitsUnique ==
    ASSUME NEW f, NEW g, NEW n \in Nat, NEW m \in Nat, n <= m,
           IsBits(f, n), IsBits(g, m)
    PROVE  \A i \in 0 .. n : f[i] = g[i]
<1> SUFFICES ASSUME {i \in 0 .. n : f[i] # g[i]} # {} PROVE FALSE
  OBVIOUS
<1>1. PICK i \in {k \in 0 .. n : f[k] # g[k]} :
          \A k \in {k \in 0 .. n : f[k] # g[k]} : i <= k
  <2>1. {k \in 0 .. n : f[k] # g[k]} \subseteq Nat
    OBVIOUS
  <2> QED BY <2>1, LeastNat, Zenon
<1>2. i \in 0 .. n /\ i \in 0 .. m /\ f[i] # g[i]
  OBVIOUS
<1>3. /\ f[i] = IF i = 0 THEN 0 ELSE 1 + f[i \div 2]
      /\ g[i] = IF i = 0 THEN 0 ELSE 1 + g[i \div 2]
  BY <1>2 DEF IsBits
<1>4. i # 0
  BY <1>2, <1>3
<1>5. i \div 2 \in 0 .. n /\ i \div 2 < i
  BY <1>2, <1>4, HalfSmaller
<1>6. f[i \div 2] = g[i \div 2]
  BY <1>1, <1>2, <1>5
<1> QED BY <1>2, <1>3, <1>4, <1>6

(* There is a function that satisfies the recursion of Bits up to n.       *)
LEMMA BitsExists == ASSUME NEW n \in Nat PROVE \E f : IsBits(f, n)
<1> DEFINE Bad == {k \in Nat : ~ \E f : IsBits(f, k)}
<1> SUFFICES ASSUME Bad # {} PROVE FALSE
  OBVIOUS
<1>1. PICK k \in Bad : \A j \in Bad : k <= j
  <2>1. Bad \subseteq Nat
    OBVIOUS
  <2> QED BY <2>1, LeastNat, Zenon
<1>2. k # 0
  <2>1. IsBits([i \in 0 .. 0 |-> 0], 0)
    BY DEF IsBits
  <2> QED BY <2>1
<1>3. PICK f : IsBits(f, k - 1)
  BY <1>1, <1>2
<1> DEFINE h == [i \in 0 .. k |-> IF i < k THEN f[i] ELSE 1 + f[k \div 2]]
<1>4. ASSUME NEW i \in 0 .. k
      PROVE  h[i] = IF i = 0 THEN 0 ELSE 1 + h[i \div 2]
  <2>1. CASE i = 0
    BY <1>2, <1>3, <2>1 DEF IsBits
  <2>2. CASE i # 0
    <3>1. i \div 2 \in 0 .. k /\ i \div 2 < i /\ i \div 2 < k
      BY <2>2, HalfSmaller
    <3>2. h[i \div 2] = f[i \div 2]
      BY <3>1
    <3>3. CASE i < k
      <4>1. i \in 0 .. (k - 1)
        BY <3>3
      <4>2. f[i] = 1 + f[i \div 2]
        BY <4>1, <1>3, <2>2 DEF IsBits
      <4> QED BY <2>2, <3>2, <3>3, <4>2
    <3>4. CASE i = k
      BY <2>2, <3>2, <3>4
    <3> QED BY <3>3, <3>4
  <2> QED BY <2>1, <2>2
<1>5. IsBits(h, k)
  BY <1>4 DEF IsBits
<1> QED BY <1>5

(* Bits is what its recursion says: one bit more than half the gindex.     *)
LEMMA BitsUnfold ==
    /\ Bits[0] = 0
    /\ \A g \in Nat \ {0} : Bits[g] = 1 + Bits[g \div 2]
<1> DEFINE P(n) == CHOOSE f : IsBits(f, n)
           F    == [n \in Nat |-> P(n)[n]]
           Eqn(f) == f = [g \in Nat |-> IF g = 0 THEN 0 ELSE 1 + f[g \div 2]]
<1>1. \A n \in Nat : IsBits(P(n), n)
  BY BitsExists
<1>2. ASSUME NEW n \in Nat PROVE F[n] = IF n = 0 THEN 0 ELSE 1 + F[n \div 2]
  <2>1. P(n)[n] = IF n = 0 THEN 0 ELSE 1 + P(n)[n \div 2]
    BY <1>1 DEF IsBits
  <2>2. CASE n = 0
    BY <2>1, <2>2
  <2>3. CASE n # 0
    <3>1. n \div 2 \in Nat /\ n \div 2 <= n
      BY <2>3, HalfSmaller
    <3>2. P(n \div 2)[n \div 2] = P(n)[n \div 2]
      <4> HIDE DEF P
      <4>1. n \div 2 \in 0 .. (n \div 2)
        BY <3>1
      <4> QED BY <1>1, <3>1, <4>1, BitsUnique
    <3> QED BY <2>1, <2>3, <3>1, <3>2
  <2> QED BY <2>2, <2>3
<1>3. Eqn(F)
  <2> HIDE DEF P
  <2> QED BY <1>2
<1>4. Bits = CHOOSE f : Eqn(f)
  BY DEF Bits
<1>5. Eqn(Bits)
  <2> HIDE DEF F, Eqn
  <2> QED BY <1>3, <1>4
<1> QED BY <1>5

-----------------------------------------------------------------------------
IsBranch(f, n) == \A i \in 0 .. n : f[i] = IF i = 0 THEN {} ELSE {i} \cup f[i \div 2]

(* Two functions that satisfy the recursion of Branch up to n agree.       *)
LEMMA BranchUnique ==
    ASSUME NEW f, NEW g, NEW n \in Nat, NEW m \in Nat, n <= m,
           IsBranch(f, n), IsBranch(g, m)
    PROVE  \A i \in 0 .. n : f[i] = g[i]
<1> SUFFICES ASSUME {i \in 0 .. n : f[i] # g[i]} # {} PROVE FALSE
  OBVIOUS
<1>1. PICK i \in {k \in 0 .. n : f[k] # g[k]} :
          \A k \in {k \in 0 .. n : f[k] # g[k]} : i <= k
  <2>1. {k \in 0 .. n : f[k] # g[k]} \subseteq Nat
    OBVIOUS
  <2> QED BY <2>1, LeastNat, Zenon
<1>2. i \in 0 .. n /\ i \in 0 .. m /\ f[i] # g[i]
  OBVIOUS
<1>3. /\ f[i] = IF i = 0 THEN {} ELSE {i} \cup f[i \div 2]
      /\ g[i] = IF i = 0 THEN {} ELSE {i} \cup g[i \div 2]
  BY <1>2 DEF IsBranch
<1>4. i # 0
  BY <1>2, <1>3
<1>5. i \div 2 \in 0 .. n /\ i \div 2 < i
  BY <1>2, <1>4, HalfSmaller
<1>6. f[i \div 2] = g[i \div 2]
  BY <1>1, <1>2, <1>5
<1> QED BY <1>2, <1>3, <1>4, <1>6

(* There is a function that satisfies the recursion of Branch up to n.     *)
LEMMA BranchExists == ASSUME NEW n \in Nat PROVE \E f : IsBranch(f, n)
<1> DEFINE Bad == {k \in Nat : ~ \E f : IsBranch(f, k)}
<1> SUFFICES ASSUME Bad # {} PROVE FALSE
  OBVIOUS
<1>1. PICK k \in Bad : \A j \in Bad : k <= j
  <2>1. Bad \subseteq Nat
    OBVIOUS
  <2> QED BY <2>1, LeastNat, Zenon
<1>2. k # 0
  <2>1. IsBranch([i \in 0 .. 0 |-> {}], 0)
    BY DEF IsBranch
  <2> QED BY <2>1
<1>3. PICK f : IsBranch(f, k - 1)
  BY <1>1, <1>2
<1> DEFINE h == [i \in 0 .. k |-> IF i < k THEN f[i] ELSE {k} \cup f[k \div 2]]
<1>4. ASSUME NEW i \in 0 .. k
      PROVE  h[i] = IF i = 0 THEN {} ELSE {i} \cup h[i \div 2]
  <2>1. CASE i = 0
    <3>1. 0 \in 0 .. (k - 1) /\ 0 < k
      BY <1>2
    <3>2. f[0] = {}
      BY <1>3, <3>1 DEF IsBranch
    <3>3. h[0] = f[0]
      BY <3>1
    <3> QED BY <2>1, <3>2, <3>3
  <2>2. CASE i # 0
    <3>1. i \div 2 \in 0 .. k /\ i \div 2 < i /\ i \div 2 < k
      BY <2>2, HalfSmaller
    <3>2. h[i \div 2] = f[i \div 2]
      BY <3>1
    <3>3. CASE i < k
      <4>1. i \in 0 .. (k - 1)
        BY <3>3
      <4>2. f[i] = {i} \cup f[i \div 2]
        BY <4>1, <1>3, <2>2 DEF IsBranch
      <4> QED BY <2>2, <3>2, <3>3, <4>2
    <3>4. CASE i = k
      BY <2>2, <3>2, <3>4
    <3> QED BY <3>3, <3>4
  <2> QED BY <2>1, <2>2
<1>5. IsBranch(h, k)
  BY <1>4 DEF IsBranch
<1> QED BY <1>5

(* Branch is what its recursion says: the node and the branch above it.    *)
LEMMA BranchUnfold ==
    /\ Branch[0] = {}
    /\ \A g \in Nat \ {0} : Branch[g] = {g} \cup Branch[g \div 2]
<1> DEFINE P(n) == CHOOSE f : IsBranch(f, n)
           F    == [n \in Nat |-> P(n)[n]]
           Eqn(f) == f = [g \in Nat |-> IF g = 0 THEN {} ELSE {g} \cup f[g \div 2]]
<1>1. \A n \in Nat : IsBranch(P(n), n)
  BY BranchExists
<1>2. ASSUME NEW n \in Nat PROVE F[n] = IF n = 0 THEN {} ELSE {n} \cup F[n \div 2]
  <2>1. P(n)[n] = IF n = 0 THEN {} ELSE {n} \cup P(n)[n \div 2]
    <3> HIDE DEF P
    <3>1. n \in 0 .. n
      OBVIOUS
    <3>2. IsBranch(P(n), n)
      BY <1>1
    <3>3. \A i \in 0 .. n : P(n)[i] = IF i = 0 THEN {} ELSE {i} \cup P(n)[i \div 2]
      BY <3>2, Zenon DEF IsBranch
    <3> QED BY <3>1, <3>3
  <2>2. CASE n = 0
    BY <2>1, <2>2
  <2>3. CASE n # 0
    <3>1. n \div 2 \in Nat /\ n \div 2 <= n
      BY <2>3, HalfSmaller
    <3>2. P(n \div 2)[n \div 2] = P(n)[n \div 2]
      <4> HIDE DEF P
      <4>1. n \div 2 \in 0 .. (n \div 2)
        BY <3>1
      <4> QED BY <1>1, <3>1, <4>1, BranchUnique
    <3> QED BY <2>1, <2>3, <3>1, <3>2
  <2> QED BY <2>2, <2>3
<1>3. Eqn(F)
  <2> HIDE DEF P
  <2> QED BY <1>2
<1>4. Branch = CHOOSE f : Eqn(f)
  BY DEF Branch
<1>5. Eqn(Branch)
  <2> HIDE DEF F, Eqn
  <2> QED BY <1>3, <1>4
<1> QED BY <1>5

(* A branch leads from a node to the root: it holds both, and with every   *)
(* node but the root its parent.                                           *)
LEMMA BranchToRoot ==
    ASSUME NEW g \in Nat \ {0}
    PROVE  /\ Branch[g] \subseteq 1 .. g
           /\ g \in Branch[g] /\ 1 \in Branch[g]
           /\ \A j \in Branch[g] : j # 1 => j \div 2 \in Branch[g]
<1> DEFINE Good(n) == /\ Branch[n] \subseteq 1 .. n
                      /\ n \in Branch[n] /\ 1 \in Branch[n]
                      /\ \A j \in Branch[n] : j # 1 => j \div 2 \in Branch[n]
           Bad == {n \in Nat \ {0} : ~ Good(n)}
<1> SUFFICES ASSUME Bad # {} PROVE FALSE
  OBVIOUS
<1>1. PICK n \in Bad : \A j \in Bad : n <= j
  <2>1. Bad \subseteq Nat
    OBVIOUS
  <2> QED BY <2>1, LeastNat, Zenon
<1>2. n \in Nat \ {0} /\ ~ Good(n)
  OBVIOUS
<1>3. Branch[n] = {n} \cup Branch[n \div 2]
  BY <1>2, BranchUnfold
<1>4. CASE n = 1
  <2>1. n \div 2 = 0
    BY <1>4
  <2>2. Branch[n] = {1}
    BY <1>3, <1>4, <2>1, BranchUnfold
  <2>3. Good(n)
    BY <2>2, <1>4
  <2> QED BY <2>3, <1>2
<1>5. CASE n # 1
  <2>1. n \div 2 \in Nat \ {0} /\ n \div 2 < n
    BY <1>2, <1>5
  <2>2. Good(n \div 2)
    BY <2>1, <1>1
  <2>3. Good(n)
    BY <1>2, <1>3, <2>1, <2>2
  <2> QED BY <2>3, <1>2
<1> QED BY <1>4, <1>5

(* A child's branch is its parent's branch and the child.                  *)
LEMMA BranchOfChild ==
    ASSUME NEW g \in Nat \ {0}
    PROVE  /\ Branch[2 * g] = {2 * g} \cup Branch[g]
           /\ Branch[2 * g + 1] = {2 * g + 1} \cup Branch[g]
<1>1. 2 * g \in Nat \ {0} /\ 2 * g + 1 \in Nat \ {0}
  OBVIOUS
<1>2. (2 * g) \div 2 = g /\ (2 * g + 1) \div 2 = g
  OBVIOUS
<1> QED BY <1>1, <1>2, BranchUnfold

(* The children of a node are one level below it.                          *)
LEMMA BitsOfChild ==
    ASSUME NEW g \in Nat \ {0}
    PROVE  Bits[2 * g] = 1 + Bits[g] /\ Bits[2 * g + 1] = 1 + Bits[g]
<1>1. 2 * g \in Nat \ {0} /\ 2 * g + 1 \in Nat \ {0}
  OBVIOUS
<1>2. (2 * g) \div 2 = g /\ (2 * g + 1) \div 2 = g
  OBVIOUS
<1> QED BY <1>1, <1>2, BitsUnfold

(* The number of bits of a gindex is a number.                             *)
LEMMA BitsNat ==
    ASSUME NEW g \in Nat \ {0}
    PROVE  Bits[g] \in Nat \ {0}
<1> DEFINE Bad == {n \in Nat \ {0} : Bits[n] \notin Nat \ {0}}
<1> SUFFICES ASSUME Bad # {} PROVE FALSE
  OBVIOUS
<1>1. PICK n \in Bad : \A j \in Bad : n <= j
  <2>1. Bad \subseteq Nat
    OBVIOUS
  <2> QED BY <2>1, LeastNat, Zenon
<1>2. n \in Nat \ {0} /\ Bits[n] = 1 + Bits[n \div 2]
  BY BitsUnfold
<1>3. CASE n = 1
  <2>1. n \div 2 = 0
    BY <1>3
  <2> QED BY <1>2, <2>1, BitsUnfold
<1>4. CASE n # 1
  <2>1. n \div 2 \in Nat \ {0} /\ n \div 2 < n
    BY <1>2, <1>4
  <2>2. Bits[n \div 2] \in Nat \ {0}
    BY <2>1, <1>1
  <2>3. Bits[n] \in Nat \ {0}
    BY <1>2, <2>2
  <2> QED BY <2>3
<1> QED BY <1>3, <1>4

-----------------------------------------------------------------------------
(* The fold of a tree satisfies its equation at every node.                *)

IsFold(f, m, N, settled, base) ==
    f = [k \in m .. (2 * N - 1) |->
            IF k \in settled THEN base[k]
                             ELSE keccak_concat_hashes(f[2 * k], f[2 * k + 1])]

(* There is a function that satisfies the recursion of merkleize_subtree.  *)
LEMMA FoldExists ==
    ASSUME NEW N \in Nat \ {0}, NEW settled, NEW base,
           N .. (2 * N - 1) \subseteq settled
    PROVE  \A m \in 1 .. N : \E f : IsFold(f, m, N, settled, base)
<1> DEFINE Bad == {m \in 1 .. N : ~ \E f : IsFold(f, m, N, settled, base)}
<1> SUFFICES ASSUME Bad # {} PROVE FALSE
  OBVIOUS
<1>1. PICK m \in Bad : \A j \in Bad : j <= m
  <2>1. N \in Nat /\ Bad \subseteq 0 .. N
    OBVIOUS
  <2> QED BY <2>1, GreatestNat, Zenon
<1>2. m \in 1 .. N
  OBVIOUS
<1>3. m # N
  <2>1. ASSUME m = N PROVE FALSE
    <3> DEFINE h == [k \in N .. (2 * N - 1) |-> base[k]]
    <3>1. IsFold(h, N, N, settled, base)
      BY DEF IsFold
    <3> QED BY <2>1, <3>1
  <2> QED BY <2>1
<1>4. PICK f : IsFold(f, m + 1, N, settled, base)
  <2>1. m + 1 \in 1 .. N /\ ~ (m + 1 <= m)
    BY <1>2, <1>3
  <2> QED BY <2>1, <1>1
<1> DEFINE h == [k \in m .. (2 * N - 1) |->
                    IF k = m
                    THEN IF m \in settled
                         THEN base[m]
                         ELSE keccak_concat_hashes(f[2 * m], f[2 * m + 1])
                    ELSE f[k]]
<1>5. ASSUME NEW k \in m .. (2 * N - 1)
      PROVE  h[k] = IF k \in settled
                    THEN base[k]
                    ELSE keccak_concat_hashes(h[2 * k], h[2 * k + 1])
  <2>1. CASE k \in settled
    <3>1. CASE k = m
      BY <2>1, <3>1
    <3>2. CASE k # m
      <4>1. k \in (m + 1) .. (2 * N - 1)
        BY <1>2, <3>2
      <4>2. f[k] = base[k]
        BY <1>4, <2>1, <4>1 DEF IsFold
      <4> QED BY <2>1, <3>2, <4>2
    <3> QED BY <3>1, <3>2
  <2>2. CASE k \notin settled
    <3>1. k < N
      BY <2>2, <1>2
    <3>2. /\ 2 * k \in m .. (2 * N - 1) /\ 2 * k # m
          /\ 2 * k + 1 \in m .. (2 * N - 1) /\ 2 * k + 1 # m
      BY <1>2, <3>1
    <3>3. h[2 * k] = f[2 * k] /\ h[2 * k + 1] = f[2 * k + 1]
      BY <3>2
    <3>4. CASE k = m
      BY <2>2, <3>3, <3>4
    <3>5. CASE k # m
      <4>1. k \in (m + 1) .. (2 * N - 1)
        BY <1>2, <3>5
      <4>2. f[k] = keccak_concat_hashes(f[2 * k], f[2 * k + 1])
        BY <1>4, <2>2, <4>1 DEF IsFold
      <4> QED BY <2>2, <3>3, <3>5, <4>2
    <3> QED BY <3>4, <3>5
  <2> QED BY <2>1, <2>2
<1>6. IsFold(h, m, N, settled, base)
  BY <1>5 DEF IsFold
<1> QED BY <1>6

(* merkleize_subtree terminates with one value at every node: the value of *)
(* a settled node, the hash of its children's values for any other.        *)
LEMMA TreeFoldUnfold ==
    ASSUME NEW N \in Nat \ {0}, NEW settled, NEW base,
           N .. (2 * N - 1) \subseteq settled
    PROVE  LET T == TreeFold(N, settled, base)
           IN  /\ T = [k \in TreeNodes(N) |-> T[k]]
               /\ \A k \in TreeNodes(N) :
                     T[k] = IF k \in settled
                            THEN base[k]
                            ELSE keccak_concat_hashes(T[2 * k], T[2 * k + 1])
<1> DEFINE T == TreeFold(N, settled, base)
<1>1. 1 \in 1 .. N
  OBVIOUS
<1>2. \E f : IsFold(f, 1, N, settled, base)
  BY <1>1, FoldExists
<1>3. T = CHOOSE f : IsFold(f, 1, N, settled, base)
  BY DEF TreeFold, IsFold, TreeNodes
<1>4. IsFold(T, 1, N, settled, base)
  <2> HIDE DEF T
  <2> QED BY <1>2, <1>3
<1>5. T = [k \in TreeNodes(N) |->
              IF k \in settled THEN base[k]
                               ELSE keccak_concat_hashes(T[2 * k], T[2 * k + 1])]
  <2> HIDE DEF T
  <2> QED BY <1>4 DEF IsFold, TreeNodes
<1> HIDE DEF T
<1> SUFFICES /\ T = [k \in TreeNodes(N) |-> T[k]]
             /\ \A k \in TreeNodes(N) :
                   T[k] = IF k \in settled
                          THEN base[k]
                          ELSE keccak_concat_hashes(T[2 * k], T[2 * k + 1])
  BY DEF T
<1> QED BY <1>5

-----------------------------------------------------------------------------
(* Caches that may be used: below a settled node that is not a leaf both   *)
(* children are settled, and its value is the hash of theirs.              *)
Coherent(N, settled, base) ==
    \A k \in settled \cap (1 .. (N - 1)) :
        /\ 2 * k \in settled /\ 2 * k + 1 \in settled
        /\ base[k] = keccak_concat_hashes(base[2 * k], base[2 * k + 1])

(* With coherent caches merkleize_subtree returns what hashing the leaves  *)
(* from scratch returns.                                                   *)
LEMMA CoherentFold ==
    ASSUME NEW N \in Nat \ {0}, NEW settled, NEW base, NEW leaves,
           N .. (2 * N - 1) \subseteq settled,
           Coherent(N, settled, base),
           \A k \in N .. (2 * N - 1) : base[k] = leaves[k]
    PROVE  TreeFold(N, settled, base) = TreeFold(N, N .. (2 * N - 1), leaves)
<1> DEFINE T == TreeFold(N, settled, base)
           U == TreeFold(N, N .. (2 * N - 1), leaves)
           Bad == {k \in TreeNodes(N) : T[k] # U[k]}
<1>1. /\ T = [k \in TreeNodes(N) |-> T[k]]
      /\ \A k \in TreeNodes(N) :
            T[k] = IF k \in settled THEN base[k]
                                    ELSE keccak_concat_hashes(T[2 * k], T[2 * k + 1])
  BY TreeFoldUnfold
<1>2. /\ U = [k \in TreeNodes(N) |-> U[k]]
      /\ \A k \in TreeNodes(N) :
            U[k] = IF k \in N .. (2 * N - 1)
                   THEN leaves[k]
                   ELSE keccak_concat_hashes(U[2 * k], U[2 * k + 1])
  BY TreeFoldUnfold
<1> HIDE DEF T, U
<1>3. ASSUME Bad # {} PROVE FALSE
  <2>1. PICK k \in Bad : \A j \in Bad : j <= k
    <3>1. 2 * N \in Nat /\ Bad \subseteq 0 .. (2 * N)
      BY DEF TreeNodes
    <3> QED BY <1>3, <3>1, GreatestNat, Zenon
  <2>2. k \in TreeNodes(N) /\ T[k] # U[k]
    OBVIOUS
  <2>3. CASE k >= N
    <3>1. k \in N .. (2 * N - 1)
      BY <2>2, <2>3 DEF TreeNodes
    <3>2. T[k] = base[k] /\ U[k] = leaves[k]
      BY <1>1, <1>2, <2>2, <3>1
    <3> QED BY <2>2, <3>1, <3>2
  <2>4. CASE k < N
    <3>1. /\ k \in 1 .. (N - 1) /\ k \notin N .. (2 * N - 1)
          /\ 2 * k \in TreeNodes(N) /\ 2 * k + 1 \in TreeNodes(N)
          /\ ~ (2 * k <= k) /\ ~ (2 * k + 1 <= k)
      BY <2>2, <2>4 DEF TreeNodes
    <3>2. T[2 * k] = U[2 * k] /\ T[2 * k + 1] = U[2 * k + 1]
      BY <2>1, <3>1
    <3>3. U[k] = keccak_concat_hashes(U[2 * k], U[2 * k + 1])
      BY <1>2, <2>2, <3>1
    <3>4. T[k] = keccak_concat_hashes(T[2 * k], T[2 * k + 1])
      <4>1. CASE k \in settled
        <5>1. /\ 2 * k \in settled /\ 2 * k + 1 \in settled
              /\ base[k] = keccak_concat_hashes(base[2 * k], base[2 * k + 1])
          BY <3>1, <4>1 DEF Coherent
        <5>2. T[k] = base[k] /\ T[2 * k] = base[2 * k] /\ T[2 * k + 1] = base[2 * k + 1]
          BY <1>1, <2>2, <3>1, <4>1, <5>1
        <5> QED BY <5>1, <5>2
      <4>2. CASE k \notin settled
        BY <1>1, <2>2, <4>2
      <4> QED BY <4>1, <4>2
    <3> QED BY <2>2, <3>2, <3>3, <3>4
  <2>5. k \in Nat
    BY <2>2 DEF TreeNodes
  <2> QED BY <2>3, <2>4, <2>5
<1>4. \A k \in TreeNodes(N) : T[k] = U[k]
  BY <1>3
<1>5. T = U
  BY <1>1, <1>2, <1>4
<1> QED BY <1>5 DEF T, U

(* merkleize_subtree descends below every node it walks through that is    *)
(* not settled.                                                            *)
LEMMA VisitChildren ==
    ASSUME NEW N \in Nat \ {0}, NEW settled, NEW R,
           NEW k \in TreeVisit(N, settled, R), k \notin settled, k < N
    PROVE  /\ 2 * k \in TreeVisit(N, settled, R)
           /\ 2 * k + 1 \in TreeVisit(N, settled, R)
<1>1. k \in 1 .. (N - 1) /\ 2 * k \in TreeNodes(N) /\ 2 * k + 1 \in TreeNodes(N)
  BY DEF TreeVisit, TreeNodes
<1>2. PICK r \in R \cap Branch[k] :
          \A j \in Branch[k] : r <= j /\ j < k => j \notin settled
  BY DEF TreeVisit
<1>3. /\ Branch[2 * k] = {2 * k} \cup Branch[k]
      /\ Branch[2 * k + 1] = {2 * k + 1} \cup Branch[k]
      /\ Branch[k] \subseteq 1 .. k
  BY <1>1, BranchOfChild, BranchToRoot
<1>4. \A j \in Branch[2 * k] : r <= j /\ j < 2 * k => j \notin settled
  BY <1>1, <1>2, <1>3
<1>5. \A j \in Branch[2 * k + 1] : r <= j /\ j < 2 * k + 1 => j \notin settled
  BY <1>1, <1>2, <1>3
<1>6. r \in R \cap Branch[2 * k] /\ r \in R \cap Branch[2 * k + 1]
  BY <1>2, <1>3
<1> QED BY <1>1, <1>4, <1>5, <1>6 DEF TreeVisit

(* Storing the values of the nodes walked through keeps caches coherent,   *)
(* and every settled node holds the value merkleize_subtree returns.       *)
LEMMA CoherentStore ==
    ASSUME NEW N \in Nat \ {0}, NEW settled, NEW base, NEW R,
           N .. (2 * N - 1) \subseteq settled,
           Coherent(N, settled, base),
           NEW settled2, NEW base2,
           settled2 = settled \cup TreeVisit(N, settled, R),
           \A k \in TreeNodes(N) :
               base2[k] = IF k \in TreeVisit(N, settled, R) \ settled
                          THEN TreeFold(N, settled, base)[k]
                          ELSE base[k]
    PROVE  Coherent(N, settled2, base2)
<1> DEFINE T == TreeFold(N, settled, base)
           V == TreeVisit(N, settled, R)
<1>1. \A k \in TreeNodes(N) :
          T[k] = IF k \in settled THEN base[k]
                                  ELSE keccak_concat_hashes(T[2 * k], T[2 * k + 1])
  BY TreeFoldUnfold
<1> HIDE DEF T
<1>2. \A k \in TreeNodes(N) : k \in settled2 => base2[k] = T[k]
  BY <1>1 DEF T
<1> SUFFICES ASSUME NEW k \in settled2 \cap (1 .. (N - 1))
             PROVE  /\ 2 * k \in settled2 /\ 2 * k + 1 \in settled2
                    /\ base2[k] = keccak_concat_hashes(base2[2 * k], base2[2 * k + 1])
  BY DEF Coherent
<1>3. /\ k \in TreeNodes(N) /\ 2 * k \in TreeNodes(N) /\ 2 * k + 1 \in TreeNodes(N)
      /\ k < N
  BY DEF TreeNodes
<1>4. 2 * k \in settled2 /\ 2 * k + 1 \in settled2
  <2>1. CASE k \in settled
    BY <2>1 DEF Coherent
  <2>2. CASE k \notin settled
    <3>1. k \in V
      BY <2>2
    <3> QED BY <3>1, <2>2, <1>3, VisitChildren
  <2> QED BY <2>1, <2>2
<1>5. T[k] = keccak_concat_hashes(T[2 * k], T[2 * k + 1])
  <2>1. CASE k \in settled
    <3>1. /\ 2 * k \in settled /\ 2 * k + 1 \in settled
          /\ base[k] = keccak_concat_hashes(base[2 * k], base[2 * k + 1])
      BY <2>1 DEF Coherent
    <3>2. T[k] = base[k] /\ T[2 * k] = base[2 * k] /\ T[2 * k + 1] = base[2 * k + 1]
      BY <1>1, <1>3, <2>1, <3>1
    <3> QED BY <3>1, <3>2
  <2>2. CASE k \notin settled
    BY <1>1, <1>3, <2>2
  <2> QED BY <2>1, <2>2
<1> QED BY <1>2, <1>3, <1>4, <1>5

(* The proper ancestors of a node are at most half its index.              *)
LEMMA BranchHalf ==
    ASSUME NEW g \in Nat \ {0}, NEW j \in Branch[g], j # g
    PROVE  j \in 1 .. (g \div 2) /\ j < g
<1>1. j \in Branch[g \div 2]
  BY BranchUnfold
<1>2. g \div 2 # 0
  BY <1>1, BranchUnfold
<1>3. g \div 2 \in Nat \ {0} /\ g \div 2 < g
  BY <1>2, HalfSmaller
<1>4. Branch[g \div 2] \subseteq 1 .. (g \div 2)
  BY <1>3, BranchToRoot
<1> QED BY <1>1, <1>3, <1>4

(* The branch of an ancestor is part of the branch.                        *)
LEMMA BranchTransitive ==
    ASSUME NEW h \in Nat \ {0}, NEW g \in Branch[h]
    PROVE  Branch[g] \subseteq Branch[h]
<1> DEFINE Good(n) == \A j \in Branch[n] : Branch[j] \subseteq Branch[n]
           Bad == {n \in Nat \ {0} : ~ Good(n)}
<1>1. ASSUME Bad # {} PROVE FALSE
  <2>1. PICK n \in Bad : \A j \in Bad : n <= j
    <3>1. Bad \subseteq Nat
      OBVIOUS
    <3> QED BY <1>1, <3>1, LeastNat, Zenon
  <2>2. n \in Nat \ {0} /\ ~ Good(n)
    OBVIOUS
  <2>3. Branch[n] = {n} \cup Branch[n \div 2]
    BY <2>2, BranchUnfold
  <2>4. ASSUME NEW j \in Branch[n \div 2] PROVE Branch[j] \subseteq Branch[n]
    <3>1. n \div 2 # 0
      BY <2>4, BranchUnfold
    <3>2. n \div 2 \in Nat \ {0} /\ ~ (n <= n \div 2)
      BY <2>2, <3>1, HalfSmaller
    <3>3. Good(n \div 2)
      BY <2>1, <3>2
    <3> QED BY <2>3, <3>3
  <2>5. Good(n)
    BY <2>3, <2>4
  <2> QED BY <2>2, <2>5
<1>2. Good(h)
  BY <1>1
<1> QED BY <1>2

(* When nothing but the leaves is settled, hashing the root walks through  *)
(* the whole tree.                                                         *)
LEMMA VisitAll ==
    ASSUME NEW N \in Nat \ {0}
    PROVE  TreeVisit(N, N .. (2 * N - 1), {1}) = TreeNodes(N)
<1> SUFFICES ASSUME NEW k \in TreeNodes(N)
             PROVE  /\ 1 \in {1} \cap Branch[k]
                    /\ \A j \in Branch[k] :
                          1 <= j /\ j < k => j \notin N .. (2 * N - 1)
  BY DEF TreeVisit
<1>1. k \in Nat \ {0} /\ k \div 2 < N
  BY DEF TreeNodes
<1>2. 1 \in Branch[k]
  BY <1>1, BranchToRoot
<1>3. ASSUME NEW j \in Branch[k], j # k PROVE j \notin N .. (2 * N - 1)
  <2>1. j \in 1 .. (k \div 2)
    BY <1>1, <1>3, BranchHalf
  <2> QED BY <1>1, <2>1
<1>4. \A j \in Branch[k] : j < k => j # k
  BY <1>1, BranchToRoot
<1> QED BY <1>2, <1>3, <1>4

-----------------------------------------------------------------------------
(* A gindex never needs fewer bits than a smaller one.                     *)
LEMMA BitsMonotone ==
    ASSUME NEW m \in Nat \ {0}, NEW n \in Nat \ {0}, m <= n
    PROVE  Bits[m] <= Bits[n]
<1> DEFINE Good(b) == \A a \in 1 .. b : Bits[a] <= Bits[b]
           Bad == {b \in Nat \ {0} : ~ Good(b)}
<1>1. ASSUME Bad # {} PROVE FALSE
  <2>1. PICK b \in Bad : \A j \in Bad : b <= j
    <3>1. Bad \subseteq Nat
      OBVIOUS
    <3> QED BY <1>1, <3>1, LeastNat, Zenon
  <2>2. b \in Nat \ {0} /\ ~ Good(b)
    OBVIOUS
  <2>3. PICK a \in 1 .. b : ~ (Bits[a] <= Bits[b])
    BY <2>2
  <2>4. /\ Bits[a] = 1 + Bits[a \div 2] /\ Bits[b] = 1 + Bits[b \div 2]
        /\ Bits[a] \in Nat \ {0} /\ Bits[b] \in Nat \ {0}
    BY <2>2, <2>3, BitsUnfold, BitsNat
  <2>5. CASE a = 1
    <3>1. a \div 2 = 0
      BY <2>5
    <3>2. Bits[a] = 1
      BY <2>4, <3>1, BitsUnfold
    <3> QED BY <2>3, <2>4, <3>2
  <2>6. CASE a # 1
    <3>1. /\ b \div 2 \in Nat \ {0} /\ ~ (b <= b \div 2)
          /\ a \div 2 \in 1 .. (b \div 2) /\ a \div 2 \in Nat \ {0}
      BY <2>2, <2>3, <2>6
    <3>2. Good(b \div 2)
      BY <2>1, <3>1
    <3>3. Bits[a \div 2] <= Bits[b \div 2]
      BY <3>1, <3>2
    <3>4. Bits[a \div 2] \in Nat /\ Bits[b \div 2] \in Nat
      BY <3>1, BitsNat
    <3> QED BY <2>3, <2>4, <3>3, <3>4
  <2> QED BY <2>5, <2>6
<1>2. Good(n)
  BY <1>1
<1> QED BY <1>2

-----------------------------------------------------------------------------
IsZeros(f, n) ==
    \A i \in 0 .. n : f[i] = IF i = 0 THEN 0 ELSE keccak_concat_hashes(f[i - 1], f[i - 1])

(* Two functions that satisfy the recursion of ZERO_HASHES up to n agree.  *)
LEMMA ZerosUnique ==
    ASSUME NEW f, NEW g, NEW n \in Nat, NEW m \in Nat, n <= m,
           IsZeros(f, n), IsZeros(g, m)
    PROVE  \A i \in 0 .. n : f[i] = g[i]
<1> SUFFICES ASSUME {i \in 0 .. n : f[i] # g[i]} # {} PROVE FALSE
  OBVIOUS
<1>1. PICK i \in {k \in 0 .. n : f[k] # g[k]} :
          \A k \in {k \in 0 .. n : f[k] # g[k]} : i <= k
  <2>1. {k \in 0 .. n : f[k] # g[k]} \subseteq Nat
    OBVIOUS
  <2> QED BY <2>1, LeastNat, Zenon
<1>2. i \in 0 .. n /\ i \in 0 .. m /\ f[i] # g[i]
  OBVIOUS
<1>3. /\ f[i] = IF i = 0 THEN 0 ELSE keccak_concat_hashes(f[i - 1], f[i - 1])
      /\ g[i] = IF i = 0 THEN 0 ELSE keccak_concat_hashes(g[i - 1], g[i - 1])
  BY <1>2 DEF IsZeros
<1>4. i # 0
  BY <1>2, <1>3
<1>5. i - 1 \in 0 .. n /\ ~ (i <= i - 1)
  BY <1>2, <1>4
<1>6. f[i - 1] = g[i - 1]
  BY <1>1, <1>5
<1> QED BY <1>2, <1>3, <1>4, <1>6

(* There is a function that satisfies the recursion of ZERO_HASHES.        *)
LEMMA ZerosExists == ASSUME NEW n \in Nat PROVE \E f : IsZeros(f, n)
<1> DEFINE Bad == {k \in Nat : ~ \E f : IsZeros(f, k)}
<1> SUFFICES ASSUME Bad # {} PROVE FALSE
  OBVIOUS
<1>1. PICK k \in Bad : \A j \in Bad : k <= j
  <2>1. Bad \subseteq Nat
    OBVIOUS
  <2> QED BY <2>1, LeastNat, Zenon
<1>2. k # 0
  <2>1. IsZeros([i \in 0 .. 0 |-> 0], 0)
    BY DEF IsZeros
  <2> QED BY <2>1
<1>3. PICK f : IsZeros(f, k - 1)
  BY <1>1, <1>2
<1> DEFINE h == [i \in 0 .. k |-> IF i < k THEN f[i]
                                  ELSE keccak_concat_hashes(f[k - 1], f[k - 1])]
<1>4. ASSUME NEW i \in 0 .. k
      PROVE  h[i] = IF i = 0 THEN 0 ELSE keccak_concat_hashes(h[i - 1], h[i - 1])
  <2>1. CASE i < k
    <3>1. i \in 0 .. (k - 1)
      BY <2>1
    <3>2. f[i] = IF i = 0 THEN 0 ELSE keccak_concat_hashes(f[i - 1], f[i - 1])
      BY <1>3, <3>1 DEF IsZeros
    <3>3. h[i] = f[i] /\ (i # 0 => h[i - 1] = f[i - 1])
      BY <2>1, <3>1
    <3> QED BY <3>2, <3>3
  <2>2. CASE i = k
    <3>1. k - 1 \in 0 .. k /\ k - 1 < k
      BY <1>2
    <3>2. h[k - 1] = f[k - 1]
      BY <3>1
    <3>3. h[k] = keccak_concat_hashes(f[k - 1], f[k - 1])
      OBVIOUS
    <3> QED BY <1>2, <2>2, <3>2, <3>3
  <2> QED BY <2>1, <2>2
<1>5. IsZeros(h, k)
  BY <1>4 DEF IsZeros
<1> QED BY <1>5

(* ZERO_HASHES starts with the zero leaf, and every level hashes two       *)
(* copies of the level below.                                              *)
LEMMA ZeroHashesUnfold ==
    /\ ZERO_HASHES[0] = 0
    /\ \A i \in Nat \ {0} :
          ZERO_HASHES[i] = keccak_concat_hashes(ZERO_HASHES[i - 1], ZERO_HASHES[i - 1])
<1> DEFINE P(n) == CHOOSE f : IsZeros(f, n)
           F    == [n \in Nat |-> P(n)[n]]
           Eqn(f) == f = [i \in Nat |-> IF i = 0 THEN 0
                                        ELSE keccak_concat_hashes(f[i - 1], f[i - 1])]
<1>1. \A n \in Nat : IsZeros(P(n), n)
  BY ZerosExists
<1>2. ASSUME NEW n \in Nat
      PROVE  F[n] = IF n = 0 THEN 0 ELSE keccak_concat_hashes(F[n - 1], F[n - 1])
  <2>1. P(n)[n] = IF n = 0 THEN 0 ELSE keccak_concat_hashes(P(n)[n - 1], P(n)[n - 1])
    <3> HIDE DEF P
    <3>1. n \in 0 .. n
      OBVIOUS
    <3>2. IsZeros(P(n), n)
      BY <1>1
    <3> QED BY <3>1, <3>2 DEF IsZeros
  <2>2. CASE n = 0
    BY <2>1, <2>2
  <2>3. CASE n # 0
    <3>1. n - 1 \in Nat /\ n - 1 <= n
      BY <2>3
    <3>2. P(n - 1)[n - 1] = P(n)[n - 1]
      <4> HIDE DEF P
      <4>1. n - 1 \in 0 .. (n - 1)
        BY <3>1
      <4> QED BY <1>1, <3>1, <4>1, ZerosUnique
    <3> HIDE DEF P
    <3> QED BY <2>1, <2>3, <3>1, <3>2
  <2> QED BY <2>2, <2>3
<1>3. Eqn(F)
  <2> HIDE DEF P
  <2> QED BY <1>2
<1>4. ZERO_HASHES = CHOOSE f : Eqn(f)
  BY DEF ZERO_HASHES
<1>5. Eqn(ZERO_HASHES)
  <2> HIDE DEF F, Eqn
  <2> QED BY <1>3, <1>4
<1> QED BY <1>5
=============================================================================
