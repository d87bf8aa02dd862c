---------------------------- MODULE MipsVmProofs ----------------------------
(***************************************************************************)
(* Proofs about MipsVm, for words of every width the model allows, the 32  *)
(* bits of the code among them, every set of registers and instructions,   *)
(* and every memory.                                                       *)
(***************************************************************************)
EXTENDS MipsVm, WellFoundedInduction, TLAPS

-----------------------------------------------------------------------------
(* Arithmetic.                                                             *)

(* Every nonempty set of naturals has a least element.                     *)
LEMMA LeastNat ==
    ASSUME NEW T, T \subseteq Nat, T # {}
    PROVE  \E x \in T : \A y \in T : x <= y
<1> DEFINE Less == OpToRel(<, Nat)
<1>1. IsWellFoundedOn(Less, Nat)
  BY NatLessThanWellFounded
<1>2. \A y \in Nat, z \in Nat : <<y, z>> \in Less <=> y < z
  BY DEF OpToRel
<1> HIDE DEF Less
<1>3. PICK x \in T : \A y \in T : ~ (<<y, x>> \in Less)
  BY <1>1, WFMin, Zenon
<1>4. ASSUME NEW y \in T PROVE x <= y
  <2>1. x \in Nat /\ y \in Nat
    OBVIOUS
  <2>2. ~ (y < x)
    BY <1>2, <1>3, <2>1
  <2> QED BY <2>1, <2>2
<1> QED BY <1>4

(* The powers of two up to the width of a word, one by one.                *)
P(n) == 2^n

LEMMA Powers ==
    ASSUME NEW n \in 0 .. 32
    PROVE  P(n) \in Nat /\ P(n) >= 1 /\ P(n + 1) = 2 * P(n)
<1>0. CASE n = 0 BY <1>0 DEF P
<1>1. CASE n = 1 BY <1>1 DEF P
<1>2. CASE n = 2 BY <1>2 DEF P
<1>3. CASE n = 3 BY <1>3 DEF P
<1>4. CASE n = 4 BY <1>4 DEF P
<1>5. CASE n = 5 BY <1>5 DEF P
<1>6. CASE n = 6 BY <1>6 DEF P
<1>7. CASE n = 7 BY <1>7 DEF P
<1>8. CASE n = 8 BY <1>8 DEF P
<1>9. CASE n = 9 BY <1>9 DEF P
<1>10. CASE n = 10 BY <1>10 DEF P
<1>11. CASE n = 11 BY <1>11 DEF P
<1>12. CASE n = 12 BY <1>12 DEF P
<1>13. CASE n = 13 BY <1>13 DEF P
<1>14. CASE n = 14 BY <1>14 DEF P
<1>15. CASE n = 15 BY <1>15 DEF P
<1>16. CASE n = 16 BY <1>16 DEF P
<1>17. CASE n = 17 BY <1>17 DEF P
<1>18. CASE n = 18 BY <1>18 DEF P
<1>19. CASE n = 19 BY <1>19 DEF P
<1>20. CASE n = 20 BY <1>20 DEF P
<1>21. CASE n = 21 BY <1>21 DEF P
<1>22. CASE n = 22 BY <1>22 DEF P
<1>23. CASE n = 23 BY <1>23 DEF P
<1>24. CASE n = 24 BY <1>24 DEF P
<1>25. CASE n = 25 BY <1>25 DEF P
<1>26. CASE n = 26 BY <1>26 DEF P
<1>27. CASE n = 27 BY <1>27 DEF P
<1>28. CASE n = 28 BY <1>28 DEF P
<1>29. CASE n = 29 BY <1>29 DEF P
<1>30. CASE n = 30 BY <1>30 DEF P
<1>31. CASE n = 31 BY <1>31 DEF P
<1>32. CASE n = 32 BY <1>32 DEF P
<1> QED BY <1>0, <1>1, <1>2, <1>3, <1>4, <1>5, <1>6, <1>7, <1>8, <1>9,
          <1>10, <1>11, <1>12, <1>13, <1>14, <1>15, <1>16, <1>17, <1>18, <1>19,
          <1>20, <1>21, <1>22, <1>23, <1>24, <1>25, <1>26, <1>27, <1>28, <1>29,
          <1>30, <1>31, <1>32

LEMMA PowerNext ==
    ASSUME NEW n \in 0 .. 32, NEW m \in Int, m = n + 1
    PROVE  P(n) \in Nat /\ P(n) >= 1 /\ P(m) = 2 * P(n)
BY Powers

LEMMA PowerZero == P(0) = 1
BY DEF P

LEMMA PowerSum ==
    ASSUME NEW a \in 0 .. 32, NEW b \in 0 .. 32, a + b <= 32
    PROVE  P(a + b) = P(a) * P(b)
<1> DEFINE Bad == {k \in 0 .. 32 : a + k <= 32 /\ P(a + k) # P(a) * P(k)}
<1> SUFFICES ASSUME Bad # {} PROVE FALSE
  OBVIOUS
<1>1. PICK k \in Bad : \A j \in Bad : k <= j
  <2>1. Bad \subseteq Nat
    OBVIOUS
  <2> QED BY <2>1, LeastNat, Zenon
<1>2. P(a) \in Nat
  BY Powers
<1>3. k \in 0 .. 32 /\ a + k <= 32 /\ P(a + k) # P(a) * P(k)
  OBVIOUS
<1>4. CASE k = 0
  <2>1. a + k = a
    BY <1>4
  <2>2. P(a + k) = P(a) * P(k)
    BY <1>2, <1>4, <2>1, PowerZero
  <2> QED BY <1>3, <2>2
<1>5. CASE k # 0
  <2> DEFINE j == k - 1
  <2>1. j \in 0 .. 32 /\ a + j \in 0 .. 32 /\ k = j + 1 /\ a + k = (a + j) + 1 /\ ~ (k <= j)
    BY <1>3, <1>5
  <2>2. P(a + j) = P(a) * P(j)
    BY <1>1, <2>1
  <2> HIDE DEF j, Bad
  <2>3. P(k) = 2 * P(j) /\ P(j) \in Nat
    BY <2>1, PowerNext
  <2>4. P(a + k) = 2 * P(a + j)
    BY <2>1, Powers
  <2>5. 2 * (P(a) * P(j)) = P(a) * (2 * P(j))
    BY <1>2, <2>3
  <2> QED BY <1>3, <2>2, <2>3, <2>4, <2>5
<1> QED BY <1>4, <1>5

(* Quotient and remainder, and that there is only one of each.             *)
LEMMA DivMod ==
    ASSUME NEW a \in Int, NEW b \in Nat, b >= 1
    PROVE  /\ a \div b \in Int /\ a % b \in 0 .. (b - 1)
           /\ a = (a \div b) * b + (a % b)
           /\ a >= 0 => a \div b \in Nat
OBVIOUS

LEMMA DivModIs ==
    ASSUME NEW a \in Int, NEW b \in Nat, b >= 1, NEW q \in Int, NEW r \in 0 .. (b - 1),
           a = q * b + r
    PROVE  a \div b = q /\ a % b = r
<1> DEFINE t == a \div b
           s == a % b
<1>1. t \in Int /\ s \in 0 .. (b - 1) /\ a = t * b + s
  BY DivMod
<1> HIDE DEF t, s
<1>2. t = q
  <2>1. ASSUME t >= q + 1 PROVE FALSE
    <3>1. t * b >= (q + 1) * b
      BY <1>1, <2>1
    <3>2. (q + 1) * b = q * b + b /\ q * b \in Int /\ t * b \in Int
      BY <1>1
    <3> QED BY <1>1, <3>1, <3>2
  <2>2. ASSUME q >= t + 1 PROVE FALSE
    <3>1. q * b >= (t + 1) * b
      BY <1>1, <2>2
    <3>2. (t + 1) * b = t * b + b /\ q * b \in Int /\ t * b \in Int
      BY <1>1
    <3> QED BY <1>1, <3>1, <3>2
  <2> QED BY <1>1, <2>1, <2>2
<1>3. s = r
  <2>1. q * b \in Int
    OBVIOUS
  <2> QED BY <1>1, <1>2, <2>1
<1> QED BY <1>2, <1>3 DEF t, s

(* Two divisions are one.                                                  *)
LEMMA DivDiv ==
    ASSUME NEW x \in Int, NEW b \in Nat, b >= 1, NEW c \in Nat, c >= 1
    PROVE  /\ (x \div b) \div c = x \div (b * c)
           /\ x % (b * c) = ((x \div b) % c) * b + (x % b)
<1> DEFINE q == x \div b
           r == x % b
           t == q \div c
           s == q % c
<1>1. q \in Int /\ r \in 0 .. (b - 1) /\ x = q * b + r
  BY DivMod
<1>2. t \in Int /\ s \in 0 .. (c - 1) /\ q = t * c + s
  <2> HIDE DEF q
  <2> QED BY <1>1, DivMod
<1> HIDE DEF q, r, t, s
<1>3. b * c \in Nat /\ b * c >= 1
  BY SMT
<1>4. x = t * (b * c) + (s * b + r)
  <2>1. (t * c + s) * b = t * (b * c) + s * b /\ t * (b * c) \in Int /\ s * b \in Int
    BY <1>2
  <2> QED BY <1>1, <1>2, <2>1
<1>5. s * b + r \in 0 .. (b * c - 1)
  <2>1. s * b <= (c - 1) * b /\ s * b >= 0 /\ s * b \in Int
    BY <1>2
  <2>2. (c - 1) * b = b * c - b
    OBVIOUS
  <2> QED BY <1>1, <1>3, <2>1, <2>2
<1>6. x \div (b * c) = t /\ x % (b * c) = s * b + r
  BY <1>2, <1>3, <1>4, <1>5, DivModIs
<1> QED BY <1>6 DEF q, r, t, s

LEMMA Halves ==
    ASSUME NEW x \in Int, NEW c \in Nat, c >= 1
    PROVE  (x \div 2) \div c = x \div (2 * c)
<1> DEFINE two == 2
<1>1. two \in Nat /\ two >= 1
  OBVIOUS
<1> HIDE DEF two
<1>2. (x \div two) \div c = x \div (two * c)
  BY <1>1, DivDiv
<1> QED BY <1>2 DEF two

LEMMA Half ==
    ASSUME NEW x \in Nat
    PROVE  x \div 2 \in Nat /\ x % 2 \in {0, 1} /\ x = 2 * (x \div 2) + (x % 2)
OBVIOUS

-----------------------------------------------------------------------------
(* The bitwise operators.                                                  *)

Table == [0 .. 2 -> {0, 1}]

LEMMA Width == B \in 1 .. 8 /\ W \in 4 .. 32 /\ W = 4 * B
BY MipsAssumption DEF W

LEMMA Tables == AndTable \in Table /\ OrTable \in Table /\ XorTable \in Table
BY DEF Table, AndTable, OrTable, XorTable

IsLow(f, t, x, y, m) ==
    f = [n \in 0 .. m |->
            IF n = 0 THEN 0 ELSE f[n - 1] + t[Bit(x, n - 1) + Bit(y, n - 1)] * P(n - 1)]

LEMMA LowExists == ASSUME NEW t, NEW x, NEW y, NEW m \in Nat PROVE \E f : IsLow(f, t, x, y, m)
<1> DEFINE Bad == {k \in Nat : ~ \E f : IsLow(f, t, x, y, k)}
<1> SUFFICES ASSUME Bad # {} PROVE FALSE
  OBVIOUS
<1>1. PICK k \in Bad : \A j \in Bad : k <= j
  <2>1. Bad \subseteq Nat
    OBVIOUS
  <2> QED BY <2>1, LeastNat, Zenon
<1> DEFINE E(g, n) == IF n = 0 THEN 0 ELSE g[n - 1] + t[Bit(x, n - 1) + Bit(y, n - 1)] * P(n - 1)
<1>2. k # 0
  <2> DEFINE z == [n \in 0 .. 0 |-> 0]
  <2>1. \A n \in 0 .. 0 : E(z, n) = 0
    OBVIOUS
  <2>2. z = [n \in 0 .. 0 |-> E(z, n)]
    <3> HIDE DEF E
    <3> QED BY <2>1
  <2>3. IsLow(z, t, x, y, 0)
    BY <2>2 DEF IsLow
  <2> HIDE DEF z
  <2> QED BY <2>3
<1>3. PICK f : IsLow(f, t, x, y, k - 1)
  BY <1>1, <1>2
<1> DEFINE h == [n \in 0 .. k |-> IF n < k THEN f[n] ELSE E(f, n)]
<1>4. ASSUME NEW n \in 0 .. k PROVE h[n] = E(h, n)
  <2>1. h[n] = E(f, n)
    <3>1. CASE n < k
      <4>1. n \in 0 .. (k - 1)
        BY <3>1
      <4>2. f[n] = E(f, n)
        BY <1>3, <4>1 DEF IsLow
      <4> HIDE DEF E
      <4> QED BY <3>1, <4>2
    <3>2. CASE ~ (n < k)
      <4> HIDE DEF E
      <4> QED BY <3>2
    <3> QED BY <3>1, <3>2
  <2>2. n # 0 => h[n - 1] = f[n - 1]
    <3> HIDE DEF E
    <3> QED OBVIOUS
  <2> HIDE DEF h
  <2> QED BY <2>1, <2>2
<1>5. IsLow(h, t, x, y, k)
  <2>1. h = [n \in 0 .. k |-> h[n]]
    OBVIOUS
  <2> HIDE DEF h
  <2>2. [n \in 0 .. k |-> h[n]] = [n \in 0 .. k |-> E(h, n)]
    <3> HIDE DEF E
    <3> QED BY <1>4
  <2> QED BY <2>1, <2>2 DEF IsLow
<1> HIDE DEF h
<1> QED BY <1>5

(* The recursion of Low.                                                   *)
LEMMA LowDef ==
    ASSUME NEW t, NEW x, NEW y
    PROVE  /\ Low(t, x, y)[0] = 0
           /\ \A n \in 0 .. (W - 1) :
                  Low(t, x, y)[n + 1] = Low(t, x, y)[n] + t[Bit(x, n) + Bit(y, n)] * P(n)
<1> DEFINE f == Low(t, x, y)
           E(n) == IF n = 0 THEN 0 ELSE f[n - 1] + t[Bit(x, n - 1) + Bit(y, n - 1)] * P(n - 1)
<1>1. f = CHOOSE g : IsLow(g, t, x, y, W)
  BY Zenon DEF Low, IsLow, P
<1>2. \E g : IsLow(g, t, x, y, W)
  BY Width, LowExists
<1>3. IsLow(f, t, x, y, W)
  BY <1>1, <1>2
<1>4. f = [n \in 0 .. W |-> E(n)]
  BY <1>3, Zenon DEF IsLow
<1> HIDE DEF f, E
<1>5. \A n \in 0 .. W : f[n] = E(n)
  BY <1>4
<1>6. f[0] = 0
  BY <1>5, Width DEF E
<1>7. ASSUME NEW n \in 0 .. (W - 1)
      PROVE  f[n + 1] = f[n] + t[Bit(x, n) + Bit(y, n)] * P(n)
  <2>1. n + 1 \in 0 .. W /\ n + 1 # 0 /\ (n + 1) - 1 = n
    BY Width
  <2>2. f[n + 1] = E(n + 1)
    BY <1>5, <2>1
  <2> QED BY <2>1, <2>2 DEF E
<1> QED BY <1>6, <1>7 DEF f

LEMMA BitIs == \A x, k : Bit(x, k) = (x \div P(k)) % 2
BY DEF Bit, P

LEMMA Bits ==
    ASSUME NEW x \in Nat, NEW k \in 0 .. 31
    PROVE  /\ Bit(x, k) \in {0, 1}
           /\ x \div 2 \in Nat /\ Bit(x \div 2, k) = Bit(x, k + 1)
<1>1. P(k) \in Nat /\ P(k) >= 1 /\ P(k + 1) = 2 * P(k)
  <2>1. k \in 0 .. 32
    OBVIOUS
  <2> QED BY <2>1, Powers
<1>2. x \div P(k) \in Nat
  BY <1>1
<1>3. Bit(x, k) \in {0, 1}
  BY <1>2, BitIs
<1>4. x \div 2 \in Nat
  BY Half
<1>5. (x \div 2) \div P(k) = x \div (2 * P(k))
  BY <1>1, Halves
<1> QED BY <1>1, <1>3, <1>4, <1>5, BitIs

LEMMA LowestBit ==
    ASSUME NEW t \in Table, NEW x \in Nat, NEW y \in Nat
    PROVE  /\ t[(x % 2) + (y % 2)] \in {0, 1}
           /\ t[Bit(x, 0) + Bit(y, 0)] = t[(x % 2) + (y % 2)]
<1>1. P(0) = 1
  BY PowerZero
<1>2. x \div 1 = x /\ y \div 1 = y
  OBVIOUS
<1>3. Bit(x, 0) = x % 2 /\ Bit(y, 0) = y % 2
  BY <1>1, <1>2, BitIs
<1>4. x % 2 \in {0, 1} /\ y % 2 \in {0, 1}
  BY Half
<1>5. (x % 2) + (y % 2) \in 0 .. 2
  BY <1>4
<1> QED BY <1>3, <1>5 DEF Table

LEMMA TableBit ==
    ASSUME NEW t \in Table, NEW x \in Nat, NEW y \in Nat, NEW k \in 0 .. 31
    PROVE  t[Bit(x, k) + Bit(y, k)] \in {0, 1}
<1>1. Bit(x, k) \in {0, 1} /\ Bit(y, k) \in {0, 1}
  BY Bits
<1>2. Bit(x, k) + Bit(y, k) \in 0 .. 2
  BY <1>1
<1> QED BY <1>2 DEF Table

LEMMA LowType ==
    ASSUME NEW t \in Table, NEW x \in Nat, NEW y \in Nat, NEW n \in 0 .. W
    PROVE  Low(t, x, y)[n] \in 0 .. (P(n) - 1)
<1> DEFINE low == Low(t, x, y)
           Bad == {k \in 0 .. W : low[k] \notin 0 .. (P(k) - 1)}
<1> SUFFICES ASSUME Bad # {} PROVE FALSE
  OBVIOUS
<1>1. PICK k \in Bad : \A j \in Bad : k <= j
  <2>1. Bad \subseteq Nat
    BY Width
  <2> QED BY <2>1, LeastNat, Zenon
<1>2. low[0] = 0 /\ P(0) = 1
  BY LowDef, PowerZero
<1>3. CASE k = 0
  <2>1. low[k] = 0 /\ P(k) = 1
    BY <1>2, <1>3
  <2> QED BY <1>1, <2>1
<1>4. CASE k # 0
  <2> DEFINE j == k - 1
             b == t[Bit(x, j) + Bit(y, j)]
  <2>1. j \in 0 .. (W - 1) /\ j \in 0 .. W /\ j \in 0 .. 31 /\ j + 1 = k /\ ~ (k <= j)
    BY <1>4, Width
  <2>2. low[j] \in 0 .. (P(j) - 1)
    BY <1>1, <2>1
  <2>3. low[k] = low[j] + b * P(j)
    BY <2>1, LowDef
  <2>4. b \in {0, 1}
    BY <2>1, TableBit
  <2>5. P(j) \in Nat /\ P(k) = 2 * P(j)
    BY <2>1, PowerNext
  <2>6. low[k] \notin 0 .. (P(k) - 1)
    BY <1>1
  <2> HIDE DEF low, b, j, Bad
  <2>7. b * P(j) = 0 \/ b * P(j) = P(j)
    BY <2>4, <2>5
  <2> QED BY <2>2, <2>3, <2>5, <2>6, <2>7
<1> QED BY <1>3, <1>4

(* The lowest bit first.                                                   *)
LEMMA LowHalf ==
    ASSUME NEW t \in Table, NEW x \in Nat, NEW y \in Nat, NEW n \in 0 .. (W - 1)
    PROVE  Low(t, x, y)[n + 1]
               = t[(x % 2) + (y % 2)] + 2 * Low(t, x \div 2, y \div 2)[n]
<1>2. x \div 2 \in Nat /\ y \div 2 \in Nat
  BY Half
<1>3. /\ t[(x % 2) + (y % 2)] \in {0, 1}
      /\ t[Bit(x, 0) + Bit(y, 0)] = t[(x % 2) + (y % 2)]
  BY LowestBit
<1>4. Low(t, x, y)[0 + 1] = Low(t, x, y)[0] + t[Bit(x, 0) + Bit(y, 0)] * P(0)
  <2> DEFINE o == 0
  <2>1. o \in 0 .. (W - 1)
    BY Width
  <2> HIDE DEF o
  <2>2. Low(t, x, y)[o + 1] = Low(t, x, y)[o] + t[Bit(x, o) + Bit(y, o)] * P(o)
    BY <2>1, LowDef
  <2> QED BY <2>2 DEF o
<1> DEFINE low == Low(t, x, y)
           half == Low(t, x \div 2, y \div 2)
           b0 == t[(x % 2) + (y % 2)]
           Bad == {k \in 0 .. (W - 1) : low[k + 1] # b0 + 2 * half[k]}
<1> SUFFICES ASSUME Bad # {} PROVE FALSE
  OBVIOUS
<1>1. PICK k \in Bad : \A j \in Bad : k <= j
  <2>1. Bad \subseteq Nat
    BY Width
  <2> QED BY <2>1, LeastNat, Zenon
<1>5. CASE k = 0
  <2>1. half[0] = 0 /\ low[0] = 0
    BY LowDef
  <2>2. low[0 + 1] = low[0] + b0 * P(0)
    BY <1>3, <1>4
  <2>3. P(0) = 1
    BY PowerZero
  <2>4. low[k + 1] # b0 + 2 * half[k]
    BY <1>1
  <2>5. b0 \in {0, 1}
    BY <1>3
  <2> HIDE DEF low, half, b0, Bad
  <2> QED BY <2>5, <1>5, <2>1, <2>2, <2>3, <2>4
<1>6. CASE k # 0
  <2> DEFINE j == k - 1
             b == t[Bit(x, k) + Bit(y, k)]
             c == t[Bit(x \div 2, j) + Bit(y \div 2, j)]
  <2>1. j \in 0 .. (W - 1) /\ j \in 0 .. 31 /\ j \in 0 .. W /\ k \in 0 .. (W - 1)
           /\ k \in 0 .. W /\ k \in 0 .. 31 /\ j + 1 = k /\ ~ (k <= j)
    BY <1>6, Width
  <2>2. low[k] = b0 + 2 * half[j]
    BY <1>1, <2>1
  <2>3. low[k + 1] = low[k] + b * P(k)
    BY <2>1, LowDef
  <2>4. half[k] = half[j] + c * P(j)
    BY <2>1, LowDef
  <2>5. b = c
    <3>1. Bit(x \div 2, j) = Bit(x, k) /\ Bit(y \div 2, j) = Bit(y, k)
      BY <2>1, Bits
    <3> QED BY <3>1
  <2>6. b \in {0, 1}
    BY <2>1, TableBit
  <2>7. P(j) \in Nat /\ P(k) = 2 * P(j)
    BY <2>1, PowerNext
  <2>8. half[j] \in Nat
    <3>1. half[j] \in 0 .. (P(j) - 1)
      BY <1>2, <2>1, LowType
    <3> QED BY <2>7, <3>1
  <2>9. low[k + 1] # b0 + 2 * half[k]
    BY <1>1
  <2>10. b0 \in {0, 1}
    BY <1>3
  <2> HIDE DEF low, half, b0, b, c, j, Bad
  <2>11. b * (2 * P(j)) = 2 * (b * P(j)) /\ b * P(j) \in Int
    BY <2>6, <2>7
  <2> QED BY <2>11, <2>2, <2>3, <2>4, <2>5, <2>7, <2>8, <2>9, <2>10
<1> QED BY <1>5, <1>6

LEMMA HalfSum ==
    ASSUME NEW a \in Nat, NEW z \in Nat
    PROVE  (a + 2 * z) \div 2 = (a \div 2) + z /\ (a + 2 * z) % 2 = a % 2
OBVIOUS

(* The bits below n and those from n on do not meet.                       *)
LEMMA LowSplit ==
    ASSUME NEW t \in Table, NEW n \in 0 .. W, NEW k \in 0 .. W, n + k <= W,
           NEW x \in 0 .. (P(n) - 1), NEW y \in 0 .. (P(n) - 1), NEW u \in Nat, NEW v \in Nat
    PROVE  Low(t, x + P(n) * u, y + P(n) * v)[n + k]
               = Low(t, x, y)[n] + P(n) * Low(t, u, v)[k]
<1> DEFINE Holds(m, a, b) ==
               Low(t, a + P(m) * u, b + P(m) * v)[m + k] = Low(t, a, b)[m] + P(m) * Low(t, u, v)[k]
           Bad == {m \in 0 .. W : /\ m + k <= W
                                  /\ \E a \in 0 .. (P(m) - 1), b \in 0 .. (P(m) - 1) : ~ Holds(m, a, b)}
<1> SUFFICES ASSUME Bad # {} PROVE FALSE
  <2> HIDE DEF Holds
  <2>1. Holds(n, x, y)
    OBVIOUS
  <2> QED BY <2>1 DEF Holds
<1>1. PICK m \in Bad : \A j \in Bad : m <= j
  <2>1. Bad \subseteq Nat
    BY Width
  <2> QED BY <2>1, LeastNat, Zenon
<1>2. m \in 0 .. W /\ m + k <= W /\ m \in 0 .. 32 /\ m + k \in 0 .. W
  BY Width
<1>3. PICK a \in 0 .. (P(m) - 1), b \in 0 .. (P(m) - 1) : ~ Holds(m, a, b)
  <2> HIDE DEF Holds
  <2> QED OBVIOUS
<1>4. Low(t, u, v)[k] \in Nat
  <2>1. Low(t, u, v)[k] \in 0 .. (P(k) - 1)
    BY LowType
  <2> QED BY <2>1
<1>5. P(m) \in Nat
  BY <1>2, Powers
<1>6. CASE m = 0
  <2>1. a = 0 /\ b = 0 /\ P(m) = 1 /\ m + k = k
    BY <1>3, <1>6, PowerZero
  <2>2. Low(t, a, b)[m] = 0
    BY <1>6, LowDef
  <2>3. a + P(m) * u = u /\ b + P(m) * v = v
    BY <2>1
  <2>4. Holds(m, a, b)
    BY <1>4, <2>1, <2>2, <2>3
  <2> QED BY <1>3, <2>4
<1>7. CASE m # 0
  <2> DEFINE j == m - 1
             c == a \div 2
             d == b \div 2
             e == t[(a % 2) + (b % 2)]
  <2>1. j \in 0 .. W /\ j \in 0 .. 32 /\ j \in 0 .. (W - 1) /\ m = j + 1 /\ ~ (m <= j)
           /\ j + k \in 0 .. (W - 1) /\ j + k <= W /\ m + k = (j + k) + 1
    BY <1>2, <1>7, Width
  <2>2. P(m) = 2 * P(j) /\ P(j) \in Nat /\ P(j) >= 1
    <3> HIDE DEF j
    <3> QED BY <1>2, <2>1, PowerNext
  <2>3. a \in Nat /\ b \in Nat
    BY <1>3
  <2>4. c \in 0 .. (P(j) - 1) /\ d \in 0 .. (P(j) - 1)
    <3> HIDE DEF j
    <3>1. a <= 2 * P(j) - 1 /\ b <= 2 * P(j) - 1
      BY <1>3, <2>2
    <3> QED BY <2>2, <2>3, <3>1, Half
  <2>5. Holds(j, c, d)
    <3> HIDE DEF c, d, j, Holds
    <3>1. j \notin Bad
      BY <1>1, <2>1
    <3> QED BY <2>1, <2>4, <3>1
  <2>6. P(j) * u \in Nat /\ P(j) * v \in Nat /\ P(m) * u = 2 * (P(j) * u) /\ P(m) * v = 2 * (P(j) * v)
    <3> HIDE DEF j
    <3> QED BY <2>2
  <2>7. /\ (a + P(m) * u) \div 2 = c + P(j) * u /\ (a + P(m) * u) % 2 = a % 2
        /\ (b + P(m) * v) \div 2 = d + P(j) * v /\ (b + P(m) * v) % 2 = b % 2
        /\ a + P(m) * u \in Nat /\ b + P(m) * v \in Nat
    <3> DEFINE z == P(j) * u
               w == P(j) * v
    <3>1. /\ (a + 2 * z) \div 2 = c + z /\ (a + 2 * z) % 2 = a % 2
          /\ (b + 2 * w) \div 2 = d + w /\ (b + 2 * w) % 2 = b % 2
          /\ a + 2 * z \in Nat /\ b + 2 * w \in Nat
      <4>1. z \in Nat /\ w \in Nat
        BY <2>6
      <4> HIDE DEF z, w
      <4> QED BY <2>3, <4>1, HalfSum
    <3> QED BY <2>6, <3>1
  <2>8. Low(t, a + P(m) * u, b + P(m) * v)[m + k]
           = e + 2 * Low(t, c + P(j) * u, d + P(j) * v)[j + k]
    <3> DEFINE X == a + P(m) * u
               Y == b + P(m) * v
               i == j + k
    <3>1. Low(t, X, Y)[i + 1] = t[(X % 2) + (Y % 2)] + 2 * Low(t, X \div 2, Y \div 2)[i]
      <4>1. X \in Nat /\ Y \in Nat /\ i \in 0 .. (W - 1)
        BY <2>1, <2>7
      <4> HIDE DEF X, Y, i
      <4> QED BY <4>1, LowHalf
    <3> QED BY <2>1, <2>7, <3>1
  <2>9. Low(t, a, b)[m] = e + 2 * Low(t, c, d)[j]
    <3>1. Low(t, a, b)[j + 1] = e + 2 * Low(t, c, d)[j]
      <4> HIDE DEF j
      <4> QED BY <2>1, <2>3, LowHalf
    <3> QED BY <2>1, <3>1
  <2>10. e \in Int /\ Low(t, c, d)[j] \in Int
    <3>1. e \in {0, 1}
      BY <2>3, LowestBit
    <3>2. Low(t, c, d)[j] \in 0 .. (P(j) - 1)
      <4> HIDE DEF c, d, j
      <4>1. c \in Nat /\ d \in Nat
        BY <2>2, <2>4
      <4> QED BY <2>1, <4>1, LowType
    <3> HIDE DEF e, c, d, j
    <3> QED BY <2>2, <3>1, <3>2
  <2>11. Low(t, a + P(m) * u, b + P(m) * v)[m + k] # Low(t, a, b)[m] + P(m) * Low(t, u, v)[k]
    BY <1>3
  <2>12. Low(t, c + P(j) * u, d + P(j) * v)[j + k] = Low(t, c, d)[j] + P(j) * Low(t, u, v)[k]
    BY <2>5
  <2> DEFINE f == Low(t, u, v)[k]
             g == Low(t, c, d)[j]
             p == P(j)
  <2>13. e + 2 * (g + p * f) = (e + 2 * g) + (2 * p) * f
    <3> HIDE DEF e, f, g, p
    <3>1. e \in Int /\ g \in Int /\ f \in Nat /\ p \in Nat
      BY <1>4, <2>2, <2>10 DEF f, g, p
    <3>2. 2 * (p * f) = (2 * p) * f /\ p * f \in Int
      BY <3>1
    <3> QED BY <3>1, <3>2
  <2> HIDE DEF c, d, e, j
  <2> QED BY <2>2, <2>8, <2>9, <2>11, <2>12, <2>13
<1> QED BY <1>6, <1>7

LEMMA LowJoin ==
    ASSUME NEW t \in Table, NEW n \in 0 .. W, NEW k \in 0 .. W, NEW m, n + k <= W, m = n + k,
           NEW x \in 0 .. (P(n) - 1), NEW y \in 0 .. (P(n) - 1), NEW u \in Nat, NEW v \in Nat,
           NEW p, p = P(n), NEW X, X = x + p * u, NEW Y, Y = y + p * v
    PROVE  Low(t, X, Y)[m] = Low(t, x, y)[n] + p * Low(t, u, v)[k]
BY LowSplit

(* What the operators do with no bits and with all bits.                   *)
LEMMA LowMasks ==
    ASSUME NEW n \in 0 .. W, NEW x \in 0 .. (P(n) - 1)
    PROVE  /\ Low(AndTable, x, 0)[n] = 0 /\ Low(AndTable, x, P(n) - 1)[n] = x
           /\ Low(OrTable, x, 0)[n] = x /\ Low(OrTable, 0, x)[n] = x
           /\ Low(XorTable, P(n) - 1, x)[n] = P(n) - 1 - x
<1> DEFINE Holds(m, a) ==
               /\ Low(AndTable, a, 0)[m] = 0 /\ Low(AndTable, a, P(m) - 1)[m] = a
               /\ Low(OrTable, a, 0)[m] = a /\ Low(OrTable, 0, a)[m] = a
               /\ Low(XorTable, P(m) - 1, a)[m] = P(m) - 1 - a
           Bad == {m \in 0 .. W : \E a \in 0 .. (P(m) - 1) : ~ Holds(m, a)}
<1> SUFFICES ASSUME Bad # {} PROVE FALSE
  <2> HIDE DEF Holds
  <2>1. Holds(n, x)
    OBVIOUS
  <2> QED BY <2>1 DEF Holds
<1>1. PICK m \in Bad : \A j \in Bad : m <= j
  <2>1. Bad \subseteq Nat
    BY Width
  <2> QED BY <2>1, LeastNat, Zenon
<1>2. m \in 0 .. W /\ m \in 0 .. 32
  BY Width
<1>3. PICK a \in 0 .. (P(m) - 1) : ~ Holds(m, a)
  <2> HIDE DEF Holds
  <2> QED OBVIOUS
<1>4. CASE m = 0
  <2>1. a = 0 /\ P(m) - 1 = 0
    BY <1>3, <1>4, PowerZero
  <2>2. \A t, y, z : Low(t, y, z)[m] = 0
    BY <1>4, LowDef
  <2>3. Holds(m, a)
    BY <2>1, <2>2
  <2> QED BY <1>3, <2>3
<1>5. CASE m # 0
  <2> DEFINE j == m - 1
             h == a \div 2
             e == a % 2
             o == P(m) - 1
             q == P(j) - 1
  <2>1. j \in 0 .. W /\ j \in 0 .. 32 /\ j \in 0 .. (W - 1) /\ m = j + 1 /\ ~ (m <= j)
    BY <1>2, <1>5, Width
  <2>2. P(m) = 2 * P(j) /\ P(j) \in Nat /\ P(j) >= 1
    <3> HIDE DEF j
    <3> QED BY <1>2, <2>1, PowerNext
  <2>3. a \in Nat /\ h \in 0 .. q /\ h \in Nat /\ e \in {0, 1} /\ a = 2 * h + e
    <3> HIDE DEF j
    <3>1. a \in Nat /\ a <= 2 * P(j) - 1
      BY <1>3, <2>2
    <3> QED BY <2>2, <3>1, Half
  <2>4. o \in Nat /\ o \div 2 = q /\ o % 2 = 1 /\ o = 2 * q + 1 /\ q \in Nat
    <3> DEFINE p == P(j)
    <3>1. p \in Nat /\ p >= 1 /\ o = 2 * p - 1 /\ q = p - 1
      BY <2>2
    <3> HIDE DEF p, o, q
    <3> QED BY <3>1
  <2>5. Holds(j, h)
    <3> HIDE DEF h, j, Holds
    <3>1. j \notin Bad
      BY <1>1, <2>1
    <3> QED BY <2>1, <2>3, <3>1
  <2>6. \E zero : zero \in Nat /\ zero = 0 /\ zero \div 2 = zero /\ zero % 2 = 0
    OBVIOUS
  <2>7. PICK zero : zero \in Nat /\ zero = 0 /\ zero \div 2 = zero /\ zero % 2 = 0
    BY <2>6
  <2>17. /\ a \in Nat /\ o \in Nat /\ a \div 2 = h /\ a % 2 = e /\ o \div 2 = q /\ o % 2 = 1
         /\ AndTable \in Table /\ OrTable \in Table /\ XorTable \in Table
         /\ j \in 0 .. (W - 1) /\ m = j + 1
    BY <2>1, <2>3, <2>4, Tables
  <2>18. \A t \in Table, y \in Nat, z \in Nat :
            Low(t, y, z)[m] = t[(y % 2) + (z % 2)] + 2 * Low(t, y \div 2, z \div 2)[j]
    <3> HIDE DEF j, o, q, h, e, Holds, Bad
    <3> TAKE t \in Table, y \in Nat, z \in Nat
    <3>1. Low(t, y, z)[j + 1] = t[(y % 2) + (z % 2)] + 2 * Low(t, y \div 2, z \div 2)[j]
      BY <2>17, LowHalf
    <3> QED BY <2>17, <3>1
  <2>8. Low(AndTable, a, 0)[m] = AndTable[e + 0] + 2 * Low(AndTable, h, 0)[j]
    <3>1. Low(AndTable, a, zero)[m]
             = AndTable[(a % 2) + (zero % 2)] + 2 * Low(AndTable, a \div 2, zero \div 2)[j]
      <4> HIDE DEF j, o, q, h, e, Holds, Bad
      <4> QED BY <2>7, <2>17, <2>18
    <3> HIDE DEF j, o, q, h, e, Holds, Bad
    <3> QED BY <2>7, <2>17, <3>1
  <2>9. Low(AndTable, a, o)[m] = AndTable[e + 1] + 2 * Low(AndTable, h, q)[j]
    <3> HIDE DEF j, o, q, h, e, Holds, Bad
    <3>1. Low(AndTable, a, o)[m]
             = AndTable[(a % 2) + (o % 2)] + 2 * Low(AndTable, a \div 2, o \div 2)[j]
      BY <2>17, <2>18
    <3> QED BY <2>17, <3>1
  <2>10. Low(OrTable, a, 0)[m] = OrTable[e + 0] + 2 * Low(OrTable, h, 0)[j]
    <3> HIDE DEF j, o, q, h, e, Holds, Bad
    <3>1. Low(OrTable, a, zero)[m]
             = OrTable[(a % 2) + (zero % 2)] + 2 * Low(OrTable, a \div 2, zero \div 2)[j]
      BY <2>7, <2>17, <2>18
    <3> QED BY <2>7, <2>17, <3>1
  <2>11. Low(OrTable, 0, a)[m] = OrTable[0 + e] + 2 * Low(OrTable, 0, h)[j]
    <3> HIDE DEF j, o, q, h, e, Holds, Bad
    <3>1. Low(OrTable, zero, a)[m]
             = OrTable[(zero % 2) + (a % 2)] + 2 * Low(OrTable, zero \div 2, a \div 2)[j]
      BY <2>7, <2>17, <2>18
    <3> QED BY <2>7, <2>17, <3>1
  <2>12. Low(XorTable, o, a)[m] = XorTable[1 + e] + 2 * Low(XorTable, q, h)[j]
    <3> HIDE DEF j, o, q, h, e, Holds, Bad
    <3>1. Low(XorTable, o, a)[m]
             = XorTable[(o % 2) + (a % 2)] + 2 * Low(XorTable, o \div 2, a \div 2)[j]
      BY <2>17, <2>18
    <3> QED BY <2>17, <3>1
  <2>13. /\ Low(AndTable, h, 0)[j] = 0 /\ Low(AndTable, h, q)[j] = h
         /\ Low(OrTable, h, 0)[j] = h /\ Low(OrTable, 0, h)[j] = h
         /\ Low(XorTable, q, h)[j] = q - h
    BY <2>5
  <2>14. /\ AndTable[e + 0] = 0 /\ AndTable[e + 1] = e
         /\ OrTable[e + 0] = e /\ OrTable[0 + e] = e /\ XorTable[1 + e] = 1 - e
    <3> HIDE DEF e
    <3> QED BY <2>3 DEF AndTable, OrTable, XorTable
  <2>15. /\ Low(AndTable, a, 0)[m] = 0 /\ Low(AndTable, a, o)[m] = a
         /\ Low(OrTable, a, 0)[m] = a /\ Low(OrTable, 0, a)[m] = a
         /\ Low(XorTable, o, a)[m] = o - a
    <3> HIDE DEF h, e, j, o, q
    <3> QED BY <2>3, <2>4, <2>8, <2>9, <2>10, <2>11, <2>12, <2>13, <2>14
  <2>16. Holds(m, a)
    BY <2>15
  <2> QED BY <1>3, <2>16
<1> QED BY <1>4, <1>5

-----------------------------------------------------------------------------
(* Words.                                                                  *)

LEMMA WordSize ==
    /\ P(W) \in Nat /\ P(W) >= 16 /\ P(W) >= 1
    /\ P(W - 1) \in Nat /\ P(W - 1) >= 8 /\ P(W) = 2 * P(W - 1)
    /\ P(W - 2) \in Nat /\ P(W - 2) >= 4 /\ P(W) = 4 * P(W - 2)
<1>1. CASE W = 4 BY <1>1 DEF P
<1>2. CASE W = 8 BY <1>2 DEF P
<1>3. CASE W = 16 BY <1>3 DEF P
<1>4. CASE W = 32 BY <1>4 DEF P
<1> QED BY <1>1, <1>2, <1>3, <1>4, MipsAssumption DEF W

LEMMA Words ==
    /\ Word = 0 .. (P(W) - 1) /\ WordAddress = 0 .. (P(W - 2) - 1)
    /\ Ones = P(W) - 1
    /\ \A x : Wrap(x) = x % P(W) /\ Flip(x) = P(W) - 1 - x
    /\ \A x : Signed(x) = IF x < P(W - 1) THEN x ELSE x - P(W)
    /\ \A x, n : Shl(x, n) = (x * P(n % W)) % P(W) /\ Shr(x, n) = x \div P(n % W)
BY DEF Word, WordAddress, Ones, Wrap, Flip, Signed, Shl, Shr, P

LEMMA Bitwise ==
    ASSUME NEW x \in Nat, NEW y \in Nat
    PROVE  x & y \in Word /\ x | y \in Word /\ x ^^ y \in Word
<1>1. W \in 0 .. W
  BY Width
<1> QED BY <1>1, LowType, Tables, Words DEF &, |, ^^

LEMMA WrapType == ASSUME NEW x \in Int PROVE Wrap(x) \in Word
<1> DEFINE p == P(W)
<1>1. p \in Nat /\ p >= 1
  BY WordSize
<1> HIDE DEF p
<1>2. x % p \in 0 .. (p - 1)
  BY <1>1, DivMod
<1> QED BY <1>2, Words DEF p

LEMMA ModWidth ==
    ASSUME NEW n \in Int
    PROVE  n % W \in 0 .. (W - 1) /\ n % W \in 0 .. 32
           /\ P(n % W) \in Nat /\ P(n % W) >= 1
<1>1. n % W \in 0 .. (W - 1)
  BY Width
<1> DEFINE k == n % W
<1> HIDE DEF k
<1>2. k \in 0 .. (W - 1)
  BY <1>1 DEF k
<1>3. k \in 0 .. 32
  BY <1>2, Width
<1>4. P(k) \in Nat /\ P(k) >= 1
  BY <1>3, Powers
<1> QED BY <1>2, <1>3, <1>4 DEF k

LEMMA DivBound ==
    ASSUME NEW x \in Nat, NEW b \in Nat, b >= 1
    PROVE  x \div b \in 0 .. x
<1> DEFINE q == x \div b
           r == x % b
<1>1. q \in Int /\ r \in 0 .. (b - 1) /\ x = q * b + r /\ q \in Nat
  <2>1. x \in Int /\ x >= 0
    OBVIOUS
  <2> QED BY <2>1, DivMod
<1> HIDE DEF q, r
<1>2. q * b >= q
  BY <1>1
<1>3. q * b \in Int
  BY <1>1
<1>4. q \in 0 .. x
  BY <1>1, <1>2, <1>3
<1> QED BY <1>4 DEF q

LEMMA ShiftType ==
    ASSUME NEW x \in Word, NEW n \in Int
    PROVE  Shl(x, n) \in Word /\ Shr(x, n) \in Word
<1>1. x \in Nat /\ x <= P(W) - 1
  BY Words, WordSize
<1> DEFINE p == P(n % W)
<1>2. p \in Nat /\ p >= 1
  BY ModWidth
<1> HIDE DEF p
<1>3. (x * p) % P(W) \in 0 .. (P(W) - 1)
  <2> DEFINE y == x * p
  <2>1. y \in Int
    BY <1>1, <1>2
  <2> HIDE DEF y
  <2>2. Wrap(y) \in Word /\ Wrap(y) = y % P(W)
    BY <2>1, WrapType, Words
  <2> QED BY <2>2, Words DEF y
<1>4. x \div p \in 0 .. x
  BY <1>1, <1>2, DivBound
<1>5. x \div p \in 0 .. (P(W) - 1)
  BY <1>1, <1>4, WordSize
<1> QED BY <1>3, <1>5, Words DEF p

LEMMA FlipType == ASSUME NEW x \in Word PROVE Flip(x) \in Word
<1>1. Flip(x) = P(W) - 1 - x /\ x \in 0 .. (P(W) - 1)
  BY Words
<1>2. P(W) - 1 - x \in 0 .. (P(W) - 1)
  BY <1>1, WordSize
<1> QED BY <1>1, <1>2, Words

LEMMA WordNat == ASSUME NEW x \in Word PROVE x \in Nat /\ x < P(W)
BY Words, WordSize

LEMMA SignedType ==
    ASSUME NEW x \in Word
    PROVE  Signed(x) \in Int /\ Signed(x) >= - P(W - 1) /\ Signed(x) < P(W - 1)
           /\ (Signed(x) = x \/ Signed(x) = x - P(W)) /\ Wrap(Signed(x)) = x
<1>1. x \in Nat /\ x < P(W)
  BY WordNat
<1>2. Signed(x) = IF x < P(W - 1) THEN x ELSE x - P(W)
  BY Words
<1>3. Signed(x) \in Int /\ Signed(x) >= - P(W - 1) /\ Signed(x) < P(W - 1)
           /\ (Signed(x) = x \/ Signed(x) = x - P(W))
  BY <1>1, <1>2, WordSize
<1>4. Wrap(Signed(x)) = x
  <2>1. Wrap(Signed(x)) = Signed(x) % P(W)
    BY Words
  <2>2. x \in 0 .. (P(W) - 1) /\ P(W) \in Nat /\ P(W) >= 1
    BY <1>1, WordSize
  <2>3. CASE Signed(x) = x
    <3>1. x = 0 * P(W) + x
      BY <1>1, WordSize
    <3>2. x % P(W) = x
      BY <2>2
    <3> QED BY <2>1, <2>3, <3>2
  <2>4. CASE Signed(x) = x - P(W)
    <3> DEFINE q == -1
               d == x - P(W)
    <3>1. d \in Int /\ q \in Int /\ d = q * P(W) + x
      BY <1>1, WordSize
    <3> HIDE DEF d, q
    <3>2. d % P(W) = x
      BY <2>2, <3>1, DivModIs
    <3> QED BY <2>1, <2>4, <3>2 DEF d
  <2> QED BY <1>3, <2>3, <2>4
<1> QED BY <1>3, <1>4

LEMMA sign_extendType ==
    ASSUME NEW data \in Word, NEW index \in Int
    PROVE  sign_extend(data, index) \in Word
<1> DEFINE signed == Shl(Wrap(Shl(1, W - index) - 1), index)
           mask   == Wrap(Shl(1, index) - 1)
<1>0. 1 \in Word /\ W \in Int
  BY Words, WordSize, Width
<1>1. Shl(1, W - index) \in Word /\ Shl(1, index) \in Word
  <2>1. W - index \in Int
    BY <1>0
  <2> QED BY <1>0, <2>1, ShiftType
<1>2. mask \in Word
  <2>1. Shl(1, index) - 1 \in Int
    BY <1>1, WordNat
  <2> QED BY <2>1, WrapType
<1>3. signed \in Word
  <2>1. Shl(1, W - index) - 1 \in Int
    BY <1>1, WordNat
  <2>2. Wrap(Shl(1, W - index) - 1) \in Word
    BY <2>1, WrapType
  <2> QED BY <2>2, ShiftType
<1>4. sign_extend(data, index)
         = IF Shr(data, index - 1) # 0 THEN (data & mask) | signed ELSE data & mask
  BY DEF sign_extend
<1> HIDE DEF signed, mask
<1>5. data \in Nat /\ mask \in Nat /\ signed \in Nat
  BY <1>2, <1>3, WordNat
<1>6. data & mask \in Word
  BY <1>5, Bitwise
<1>7. data & mask \in Nat
  BY <1>6, WordNat
<1>8. (data & mask) | signed \in Word
  BY <1>5, <1>7, Bitwise
<1> QED BY <1>4, <1>6, <1>8

-----------------------------------------------------------------------------
(* Counting leading ones.                                                  *)

LEMMA PowersGrow ==
    ASSUME NEW a \in 0 .. 32, NEW b \in 0 .. 32, a <= b
    PROVE  P(a) \in Nat /\ P(b) \in Nat /\ P(a) <= P(b)
<1> DEFINE c == b - a
           p == P(a)
           q == P(c)
<1>1. c \in 0 .. 32 /\ a + c = b
  OBVIOUS
<1>2. p \in Nat /\ q \in Nat /\ q >= 1
  <2> HIDE DEF c
  <2> QED BY <1>1, Powers
<1>3. P(b) = p * q
  <2> HIDE DEF c
  <2> QED BY <1>1, PowerSum
<1>4. p * q >= p /\ p * q \in Nat
  <2> HIDE DEF p, q
  <2> QED BY <1>2
<1> QED BY <1>2, <1>3, <1>4

(* y, the distance of a word to 2^W, says how many ones the word leads.    *)
Leads(n, y) == /\ n \in 0 .. W
               /\ y <= P(W - n)
               /\ n < W => y > P(W - n - 1)

LEMMA LeadsUnique ==
    ASSUME NEW y \in Int, NEW n, NEW m, Leads(n, y), Leads(m, y)
    PROVE  n = m
<1>1. n \in 0 .. W /\ m \in 0 .. W
  BY DEF Leads
<1>2. ASSUME NEW a \in 0 .. W, NEW b \in 0 .. W, Leads(a, y), Leads(b, y), a < b PROVE FALSE
  <2> DEFINE c == W - a - 1
             d == W - b
  <2>1. c \in 0 .. 32 /\ d \in 0 .. 32 /\ d <= c /\ a < W
    BY <1>2, Width
  <2>2. P(d) <= P(c) /\ P(d) \in Nat /\ P(c) \in Nat
    <3> HIDE DEF c, d
    <3> QED BY <2>1, PowersGrow
  <2>3. y <= P(d) /\ y > P(c)
    BY <1>2, <2>1 DEF Leads
  <2> HIDE DEF c, d
  <2> QED BY <2>2, <2>3
<1> QED BY <1>1, <1>2

LEMMA LeadsExists ==
    ASSUME NEW y \in 1 .. P(W)
    PROVE  \E n : Leads(n, y)
<1> DEFINE T == {n \in 0 .. W : n < W => y > P(W - n - 1)}
<1>1. W \in T
  BY Width
<1>2. PICK n \in T : \A m \in T : n <= m
  <2>1. T \subseteq Nat /\ T # {}
    BY <1>1, Width
  <2> HIDE DEF T
  <2> QED BY <2>1, LeastNat, Zenon
<1>3. n \in 0 .. W /\ (n < W => y > P(W - n - 1))
  OBVIOUS
<1>4. CASE n = 0
  <2>1. W - n = W
    BY <1>4, Width
  <2>2. y <= P(W - n)
    BY <2>1, WordSize
  <2> QED BY <1>3, <2>2 DEF Leads
<1>5. CASE n # 0
  <2> DEFINE m == n - 1
  <2>1. m \in 0 .. W /\ m < W /\ ~ (n <= m) /\ W - m - 1 = W - n /\ W - n \in 0 .. 32
    BY <1>3, <1>5, Width
  <2>2. m \notin T
    <3> HIDE DEF m, T
    <3> QED BY <1>2, <2>1
  <2>3. ~ (y > P(W - m - 1))
    <3> HIDE DEF m
    <3> QED BY <2>1, <2>2
  <2>4. P(W - n) \in Nat
    <3> DEFINE k == W - n
    <3> HIDE DEF k
    <3>1. k \in 0 .. 32
      BY <2>1 DEF k
    <3>2. P(k) \in Nat
      BY <3>1, Powers
    <3> QED BY <3>2 DEF k
  <2>5. y <= P(W - n)
    <3> HIDE DEF m, T
    <3> QED BY <2>1, <2>3, <2>4, WordSize
  <2> QED BY <1>3, <2>5 DEF Leads
<1> QED BY <1>4, <1>5

(* One turn of the loop.                                                   *)
LEMMA LeadsStep ==
    ASSUME NEW x \in Word
    PROVE  /\ P(W) - x \in 1 .. P(W)
           /\ x < P(W - 1) => Leads(0, P(W) - x)
           /\ x >= P(W - 1) =>
                /\ Shl(x, 1) \in Word
                /\ \A n : Leads(n, P(W) - Shl(x, 1)) => n + 1 \in 0 .. W /\ Leads(n + 1, P(W) - x)
<1>1. x \in Nat /\ x < P(W)
  BY WordNat
<1>2. P(W) - x \in 1 .. P(W)
  BY <1>1, WordSize
<1>3. ASSUME x < P(W - 1) PROVE Leads(0, P(W) - x)
  <2>1. W - 0 = W /\ W - 0 - 1 = W - 1 /\ 0 \in 0 .. W
    BY Width
  <2>2. P(W) - x <= P(W) /\ P(W) - x > P(W - 1)
    BY <1>1, <1>3, WordSize
  <2> QED BY <2>1, <2>2 DEF Leads
<1>4. ASSUME x >= P(W - 1)
      PROVE  /\ Shl(x, 1) \in Word
             /\ \A n : Leads(n, P(W) - Shl(x, 1)) => n + 1 \in 0 .. W /\ Leads(n + 1, P(W) - x)
  <2> DEFINE s == Shl(x, 1)
  <2>1. s = 2 * x - P(W) /\ s \in Word
    <3>1. 1 % W = 1
      BY Width
    <3>2. P(1) = 2
      BY DEF P
    <3>3. s = (x * 2) % P(W)
      BY <3>1, <3>2, Words
    <3> DEFINE y == x * 2
               q == 1
               r == 2 * x - P(W)
    <3>4. y \in Int /\ q \in Int /\ r \in 0 .. (P(W) - 1) /\ y = q * P(W) + r
      BY <1>1, <1>4, WordSize
    <3> HIDE DEF y, q, r
    <3>5. y % P(W) = r
      BY <3>4, WordSize, DivModIs
    <3> QED BY <3>3, <3>4, <3>5, Words DEF y, r
  <2> HIDE DEF s
  <2>2. ASSUME NEW n, Leads(n, P(W) - s) PROVE n + 1 \in 0 .. W /\ Leads(n + 1, P(W) - x)
    <3> DEFINE y == P(W) - x
    <3>1. P(W) - s = 2 * y /\ y \in Nat /\ y >= 1 /\ y <= P(W - 1)
      BY <1>1, <1>4, <2>1, WordSize
    <3>2. n \in 0 .. W /\ 2 * y <= P(W - n) /\ (n < W => 2 * y > P(W - n - 1))
      BY <2>2, <3>1 DEF Leads
    <3> HIDE DEF y
    <3>3. n # W
      <4>1. SUFFICES ASSUME n = W PROVE FALSE
        OBVIOUS
      <4>2. P(W - n) = 1
        <5>1. W - n = 0
          BY <4>1, Width
        <5> QED BY <5>1, PowerZero
      <4> QED BY <3>1, <3>2, <4>2
    <3> DEFINE k == W - n
               j == W - (n + 1)
    <3>4. n + 1 \in 0 .. W /\ j \in 0 .. 32 /\ k = j + 1 /\ k \in Int /\ j = W - n - 1
      BY <3>2, <3>3, Width
    <3>5. P(j) \in Nat /\ P(k) = 2 * P(j)
      <4> HIDE DEF j, k
      <4> QED BY <3>4, PowerNext
    <3>6. y <= P(j)
      <4>1. 2 * y <= P(k)
        BY <3>2
      <4> HIDE DEF j, k
      <4> QED BY <3>1, <3>5, <4>1
    <3>7. ASSUME n + 1 < W PROVE y > P(W - (n + 1) - 1)
      <4> DEFINE i == W - (n + 1) - 1
      <4>1. i \in 0 .. 32 /\ j = i + 1 /\ j \in Int
        BY <3>2, <3>4, <3>7, Width
      <4>2. P(i) \in Nat /\ P(j) = 2 * P(i)
        <5> HIDE DEF i, j
        <5> QED BY <4>1, PowerNext
      <4>3. 2 * y > P(j)
        <5>1. n < W
          BY <3>2, <3>3, Width
        <5>2. 2 * y > P(W - n - 1)
          BY <3>2, <5>1
        <5> QED BY <3>4, <5>2
      <4> HIDE DEF i, j
      <4>4. y > P(i)
        BY <3>1, <4>2, <4>3
      <4> QED BY <4>4 DEF i
    <3>8. Leads(n + 1, y)
      BY <3>4, <3>6, <3>7 DEF Leads
    <3> QED BY <3>4, <3>8 DEF y
  <2> QED BY <2>1, <2>2 DEF s
<1> QED BY <1>2, <1>3, <1>4

Turn(f, x) == IF x >= P(W - 1) THEN 1 + f[Shl(x, 1)] ELSE 0

LEMMA LeadingOnesDef ==
    ASSUME NEW x \in Word
    PROVE  LeadingOnes[x] = Turn(LeadingOnes, x)
<1> DEFINE C(z) == CHOOSE n : Leads(n, P(W) - z)
           f == [z \in Word |-> C(z)]
<1>1. ASSUME NEW z \in Word PROVE Leads(C(z), P(W) - z)
  <2>1. P(W) - z \in 1 .. P(W)
    BY LeadsStep
  <2>2. \E n : Leads(n, P(W) - z)
    <3> DEFINE y == P(W) - z
    <3> HIDE DEF y
    <3>1. y \in 1 .. P(W)
      BY <2>1 DEF y
    <3>2. \E n : Leads(n, y)
      BY <3>1, LeadsExists
    <3> QED BY <3>2 DEF y
  <2> QED BY <2>2
<1> HIDE DEF C
<1>2. ASSUME NEW z \in Word PROVE f[z] = Turn(f, z)
  <2>1. Leads(f[z], P(W) - z) /\ P(W) - z \in Int
    <3>1. P(W) - z \in 1 .. P(W)
      BY LeadsStep
    <3> QED BY <1>1, <3>1
  <2>2. CASE z >= P(W - 1)
    <3> DEFINE s == Shl(z, 1)
    <3>1. s \in Word /\ Leads(f[s], P(W) - s)
      <4>1. s \in Word
        BY <2>2, LeadsStep
      <4> HIDE DEF s
      <4> QED BY <1>1, <4>1
    <3>2. Leads(f[s] + 1, P(W) - z) /\ f[s] \in 0 .. W
      <4>1. Leads(f[s] + 1, P(W) - z)
        <5> HIDE DEF f
        <5> QED BY <2>2, <3>1, LeadsStep
      <4> HIDE DEF f, s
      <4> QED BY <3>1, <4>1 DEF Leads
    <3>3. f[z] = f[s] + 1
      <4> HIDE DEF f, s
      <4> QED BY <2>1, <3>2, LeadsUnique
    <3>4. f[s] + 1 = 1 + f[s]
      <4> HIDE DEF f, s
      <4> QED BY <3>2, Width
    <3> HIDE DEF f
    <3> QED BY <2>2, <3>3, <3>4 DEF Turn
  <2>3. CASE ~ (z >= P(W - 1))
    <3>1. Leads(0, P(W) - z)
      <4>1. z < P(W - 1)
        BY <2>3, WordNat, WordSize
      <4> QED BY <4>1, LeadsStep
    <3>2. f[z] = 0
      <4> HIDE DEF f
      <4> QED BY <2>1, <3>1, LeadsUnique
    <3> HIDE DEF f
    <3> QED BY <2>3, <3>2 DEF Turn
  <2> QED BY <2>2, <2>3
<1>3. f = [z \in Word |-> Turn(f, z)]
  <2>1. f = [z \in Word |-> f[z]]
    OBVIOUS
  <2> HIDE DEF f
  <2> QED BY <1>2, <2>1
<1> HIDE DEF f
<1> DEFINE L == LeadingOnes
<1>4. L = CHOOSE g : g = [z \in Word |-> Turn(g, z)]
  BY Zenon DEF LeadingOnes, Turn, P
<1> HIDE DEF L
<1>5. L = [z \in Word |-> Turn(L, z)]
  <2>1. \E g : g = [z \in Word |-> Turn(g, z)]
    BY <1>3
  <2> QED BY <1>4, <2>1, Zenon
<1>6. L[x] = Turn(L, x)
  BY <1>5, Zenon
<1> QED BY <1>6 DEF L

(* What clo counts.                                                        *)
LEMMA LeadingOnesLeads ==
    ASSUME NEW x \in Word
    PROVE  LeadingOnes[x] \in 0 .. W /\ Leads(LeadingOnes[x], P(W) - x)
<1> DEFINE Holds(z) == Leads(LeadingOnes[z], P(W) - z)
           N(n) == {z \in Word : ~ Holds(z) /\ Leads(n, P(W) - z)}
           T == {n \in 0 .. W : N(n) # {}}
<1> HIDE DEF Holds
<1>1. SUFFICES Holds(x)
  BY DEF Holds, Leads
<1> SUFFICES ASSUME ~ Holds(x) PROVE FALSE
  OBVIOUS
<1>2. ASSUME NEW z \in Word PROVE P(W) - z \in Int /\ \E n : Leads(n, P(W) - z)
  <2> DEFINE y == P(W) - z
  <2>1. y \in 1 .. P(W)
    BY LeadsStep
  <2> HIDE DEF y
  <2>2. \E n : Leads(n, y)
    BY <2>1, LeadsExists
  <2>3. y \in Int
    BY <2>1
  <2> QED BY <2>2, <2>3 DEF y
<1>3. PICK n \in T : \A m \in T : n <= m
  <2>1. PICK m : Leads(m, P(W) - x)
    BY <1>2
  <2>2. m \in T
    BY <2>1 DEF Leads
  <2>3. T \subseteq Nat
    BY Width
  <2> HIDE DEF T
  <2> QED BY <2>2, <2>3, LeastNat, Zenon
<1>4. PICK z \in Word : ~ Holds(z) /\ Leads(n, P(W) - z)
  OBVIOUS
<1>5. LeadingOnes[z] = Turn(LeadingOnes, z)
  BY LeadingOnesDef
<1>6. CASE z >= P(W - 1)
  <2> DEFINE s == Shl(z, 1)
  <2>1. s \in Word
    BY <1>6, LeadsStep
  <2>2. PICK m : Leads(m, P(W) - s)
    <3> HIDE DEF s
    <3> QED BY <1>2, <2>1
  <2>3. m + 1 \in 0 .. W /\ Leads(m + 1, P(W) - z)
    BY <1>6, <2>2, LeadsStep
  <2>4. m + 1 = n
    BY <1>2, <1>4, <2>3, LeadsUnique
  <2>5. m \in 0 .. W /\ ~ (n <= m)
    BY <2>2, <2>4, Width DEF Leads
  <2>6. Holds(s)
    <3>1. m \notin T
      <4> HIDE DEF T
      <4> QED BY <1>3, <2>5
    <3> HIDE DEF s
    <3> QED BY <2>1, <2>2, <2>5, <3>1
  <2>7. Leads(LeadingOnes[s], P(W) - s)
    BY <2>6 DEF Holds
  <2>8. Leads(LeadingOnes[s] + 1, P(W) - z) /\ LeadingOnes[s] \in 0 .. W
    <3>1. Leads(LeadingOnes[s] + 1, P(W) - z)
      BY <1>6, <2>7, LeadsStep
    <3> HIDE DEF s
    <3> QED BY <2>7, <3>1 DEF Leads
  <2>9. LeadingOnes[z] = LeadingOnes[s] + 1
    <3>1. LeadingOnes[z] = 1 + LeadingOnes[s]
      BY <1>5, <1>6 DEF Turn
    <3> HIDE DEF s
    <3> QED BY <2>8, <3>1, Width
  <2> QED BY <1>4, <2>8, <2>9 DEF Holds
<1>7. CASE ~ (z >= P(W - 1))
  <2>1. LeadingOnes[z] = 0
    BY <1>5, <1>7 DEF Turn
  <2>2. z < P(W - 1)
    BY <1>7, WordNat, WordSize
  <2>3. Leads(0, P(W) - z)
    BY <2>2, LeadsStep
  <2> QED BY <1>4, <2>1, <2>3 DEF Holds
<1> QED BY <1>6, <1>7

-----------------------------------------------------------------------------
(* What an instruction leaves in registers and memory are words.           *)

LEMMA SmallWords == 0 \in Word /\ 1 \in Word /\ 4 \in Word /\ Ones \in Word
                    /\ \A n \in 0 .. W : n \in Word
<1>1. P(W) > W
  <2>1. CASE W = 4 BY <2>1 DEF P
  <2>2. CASE W = 8 BY <2>2 DEF P
  <2>3. CASE W = 16 BY <2>3 DEF P
  <2>4. CASE W = 32 BY <2>4 DEF P
  <2> QED BY <2>1, <2>2, <2>3, <2>4, MipsAssumption DEF W
<1>2. Word = 0 .. (P(W) - 1) /\ Ones = P(W) - 1
  BY Words
<1>3. W \in Nat /\ P(W) \in Nat /\ P(W) >= 16
  BY Width, WordSize
<1> QED BY <1>1, <1>2, <1>3

(* The powers that byte and half word arithmetic needs.                    *)
LEMMA BytePowers ==
    /\ P(B) \in Nat /\ P(B) >= 2 /\ P(B) >= 1 /\ P(2 * B) \in Nat /\ P(2 * B) >= 1
    /\ P(2 * B) < P(W) /\ P(B) < P(W)
<1>1. CASE B = 1 BY <1>1 DEF P, W
<1>2. CASE B = 2 BY <1>2 DEF P, W
<1>3. CASE B = 4 BY <1>3 DEF P, W
<1>4. CASE B = 8 BY <1>4 DEF P, W
<1> QED BY <1>1, <1>2, <1>3, <1>4, MipsAssumption

LEMMA ByteProducts ==
    P(2 * B) = P(B) * P(B) /\ P(3 * B) = P(B) * P(2 * B) /\ P(W) = P(B) * P(3 * B)
<1>1. CASE B = 1 BY <1>1 DEF P, W
<1>2. CASE B = 2 BY <1>2 DEF P, W
<1>3. CASE B = 4 BY <1>3 DEF P, W
<1>4. CASE B = 8 BY <1>4 DEF P, W
<1> QED BY <1>1, <1>2, <1>3, <1>4, MipsAssumption

LEMMA BelowWord == ASSUME NEW x \in Nat, x < P(W) PROVE x \in Word
<1>1. Word = 0 .. (P(W) - 1) /\ P(W) \in Nat
  BY Words, WordSize
<1> QED BY <1>1

LEMMA Masks == ByteMask = P(B) - 1 /\ HalfMask = P(2 * B) - 1
               /\ ByteMask \in Word /\ HalfMask \in Word
<1>1. ByteMask = P(B) - 1 /\ HalfMask = P(2 * B) - 1
  BY DEF ByteMask, HalfMask, P
<1>2. ByteMask \in Nat /\ HalfMask \in Nat /\ ByteMask < P(W) /\ HalfMask < P(W)
  BY <1>1, BytePowers, WordSize
<1> QED BY <1>1, <1>2, BelowWord

LEMMA ImmType ==
    ASSUME NEW i, i.imm \in Nat
    PROVE  /\ i.imm % P(2 * B) \in 0 .. (P(2 * B) - 1)
           /\ SignExtImm(i) \in Word /\ ZeroExtImm(i) \in Word
<1> DEFINE z == i.imm % P(2 * B)
<1>1. z \in 0 .. (P(2 * B) - 1)
  <2> DEFINE n == i.imm
             p == P(2 * B)
  <2>1. n \in Int /\ p \in Nat /\ p >= 1
    BY BytePowers
  <2> HIDE DEF n, p
  <2>2. n % p \in 0 .. (p - 1)
    BY <2>1, DivMod
  <2> QED BY <2>2 DEF n, p
<1>2. SignExtImm(i) = sign_extend(z, 2 * B) /\ ZeroExtImm(i) = z
  BY DEF SignExtImm, ZeroExtImm, P
<1> HIDE DEF z
<1>3. z \in Word /\ 2 * B \in Int
  <2>1. z \in Nat /\ z < P(W)
    BY <1>1, BytePowers, WordSize
  <2> QED BY <2>1, BelowWord, Width
<1>4. sign_extend(z, 2 * B) \in Word
  BY <1>3, sign_extendType
<1> QED BY <1>1, <1>2, <1>3, <1>4 DEF z

LEMMA SumType ==
    ASSUME NEW x \in Word, NEW y \in Word
    PROVE  Wrap(x + y) \in Word /\ Wrap(x - y) \in Word /\ Wrap(Signed(x) * Signed(y)) \in Word
<1>1. x \in Int /\ y \in Int
  BY WordNat
<1>2. Signed(x) \in Int /\ Signed(y) \in Int
  BY SignedType
<1>3. x + y \in Int /\ x - y \in Int
  BY <1>1
<1>4. Signed(x) * Signed(y) \in Int
  BY <1>2
<1> QED BY <1>3, <1>4, WrapType

AluOps == {"sll", "srl", "sra", "sllv", "srlv", "srav", "sync", "add", "sub", "and",
           "or", "xor", "nor", "slt", "sltu", "mul", "clz", "clo"}

LEMMA execute_aluType ==
    ASSUME NEW i, i.imm \in Nat, NEW rs \in Word, NEW rt \in Word,
           i.op \in AluOps \cup ImmediateOps \cup {"lui"}
    PROVE  execute_alu(i, rs, rt) \in Word
<1> DEFINE op == Fun(i.op)
<1>1. op \in AluOps \cup {"lui"}
  BY DEF AluOps, ImmediateOps, Fun
<1>2. rs \in Nat /\ rt \in Nat
  BY WordNat
<1>3. Shl(rt, i.imm) \in Word /\ Shr(rt, i.imm) \in Word /\ Shl(rt, rs) \in Word
          /\ Shr(rt, rs) \in Word /\ Shl(rt, 2 * B) \in Word
  <2>1. i.imm \in Int /\ rs \in Int /\ 2 * B \in Int
    BY <1>2, Width
  <2> DEFINE n == i.imm
             b == 2 * B
  <2>2. n \in Int /\ b \in Int /\ rs \in Int
    BY <2>1
  <2> HIDE DEF n, b
  <2>3. Shl(rt, n) \in Word /\ Shr(rt, n) \in Word /\ Shl(rt, rs) \in Word
          /\ Shr(rt, rs) \in Word /\ Shl(rt, b) \in Word
    BY <2>2, ShiftType
  <2> QED BY <2>3 DEF n, b
<1>4. sign_extend(Shr(rt, i.imm), W - i.imm) \in Word
  <2>1. W - i.imm \in Int
    BY Width
  <2> QED BY <1>3, <2>1, sign_extendType
<1>5. sign_extend(Shr(rt, rs), Wrap(W - rs)) \in Word
  <2>1. W - rs \in Int
    BY <1>2, Width
  <2>2. Wrap(W - rs) \in Word
    BY <2>1, WrapType
  <2>3. Wrap(W - rs) \in Int
    BY <2>2, WordNat
  <2> QED BY <1>3, <2>3, sign_extendType
<1>6. rs & rt \in Word /\ rs | rt \in Word /\ rs ^^ rt \in Word /\ Flip(rs | rt) \in Word
  <2>1. rs & rt \in Word /\ rs | rt \in Word /\ rs ^^ rt \in Word
    BY <1>2, Bitwise
  <2> QED BY <2>1, FlipType
<1>7. \A b \in BOOLEAN : BoolWord(b) \in Word
  BY SmallWords DEF BoolWord
<1>8. BoolWord(Signed(rs) < Signed(rt)) \in Word /\ BoolWord(rs < rt) \in Word
  BY SmallWords DEF BoolWord
<1>9. LeadingOnes[Flip(rs)] \in Word /\ LeadingOnes[rs] \in Word
  <2>1. Flip(rs) \in Word
    BY FlipType
  <2>2. LeadingOnes[Flip(rs)] \in 0 .. W /\ LeadingOnes[rs] \in 0 .. W
    BY <2>1, LeadingOnesLeads
  <2> QED BY <2>2, SmallWords
<1>10. Wrap(rs + rt) \in Word /\ Wrap(rs - rt) \in Word /\ Wrap(Signed(rs) * Signed(rt)) \in Word
  BY SumType
<1> HIDE DEF op
<1>11. execute_alu(i, rs, rt) =
         CASE op = "sll"  -> Shl(rt, i.imm)
          [] op = "srl"  -> Shr(rt, i.imm)
          [] op = "sra"  -> sign_extend(Shr(rt, i.imm), W - i.imm)
          [] op = "sllv" -> Shl(rt, rs)
          [] op = "srlv" -> Shr(rt, rs)
          [] op = "srav" -> sign_extend(Shr(rt, rs), Wrap(W - rs))
          [] op = "sync" -> rs
          [] op = "add"  -> Wrap(rs + rt)
          [] op = "sub"  -> Wrap(rs - rt)
          [] op = "and"  -> rs & rt
          [] op = "or"   -> rs | rt
          [] op = "xor"  -> rs ^^ rt
          [] op = "nor"  -> Flip(rs | rt)
          [] op = "slt"  -> BoolWord(Signed(rs) < Signed(rt))
          [] op = "sltu" -> BoolWord(rs < rt)
          [] op = "mul"  -> Wrap(Signed(rs) * Signed(rt))
          [] op = "clz"  -> LeadingOnes[Flip(rs)]
          [] op = "clo"  -> LeadingOnes[rs]
          [] op = "lui"  -> Shl(rt, 2 * B)
  BY Zenon DEF execute_alu, op
<1> QED BY <1>1, <1>3, <1>4, <1>5, <1>6, <1>8, <1>9, <1>10, <1>11 DEF AluOps

StoreOps == {"sb", "sh", "swl", "swr", "sw", "sc"}

(* The shift amounts of loads and stores, in bits.                         *)
left(k)  == k * B
right(k) == 3 * B - k * B
half(k)  == 2 * B - (IF k >= 2 THEN 2 ELSE 0) * B

LEMMA execute_memIs ==
    ASSUME NEW op, NEW rs, NEW rt, NEW mem, NEW k, k = rs % 4
    PROVE
        /\ op = "lb"  => execute_mem(op, rs, rt, mem) = sign_extend(Shr(mem, right(k)) & ByteMask, B)
        /\ op = "lh"  => execute_mem(op, rs, rt, mem) = sign_extend(Shr(mem, half(k)) & HalfMask, 2 * B)
        /\ op = "lbu" => execute_mem(op, rs, rt, mem) = Shr(mem, right(k)) & ByteMask
        /\ op = "lhu" => execute_mem(op, rs, rt, mem) = Shr(mem, half(k)) & HalfMask
        /\ op \in {"lw", "ll"} => execute_mem(op, rs, rt, mem) = mem
        /\ op = "lwl" => execute_mem(op, rs, rt, mem)
                            = (rt & Flip(Shl(Ones, left(k)))) | Shl(mem, left(k))
        /\ op = "lwr" => execute_mem(op, rs, rt, mem)
                            = (rt & Flip(Shr(Ones, right(k)))) | Shr(mem, right(k))
        /\ op = "sb"  => execute_mem(op, rs, rt, mem)
                            = (mem & (Ones ^^ Shl(ByteMask, right(k)))) | Shl(rt & ByteMask, right(k))
        /\ op = "sh"  => execute_mem(op, rs, rt, mem)
                            = (mem & (Ones ^^ Shl(HalfMask, half(k)))) | Shl(rt & HalfMask, half(k))
        /\ op = "swl" => execute_mem(op, rs, rt, mem)
                            = (mem & Flip(Shr(Ones, left(k)))) | Shr(rt, left(k))
        /\ op = "swr" => execute_mem(op, rs, rt, mem)
                            = (mem & Flip(Shl(Ones, right(k)))) | Shl(rt, right(k))
        /\ op \in {"sw", "sc"} => execute_mem(op, rs, rt, mem) = rt
<1> DEFINE r == right(k)
           l == left(k)
           h == half(k)
<1>1. r = 3 * B - (rs % 4) * B /\ l = (rs % 4) * B
        /\ h = 2 * B - (IF rs % 4 >= 2 THEN 2 ELSE 0) * B
  BY DEF left, right, half
<1> HIDE DEF r, l, h
<1>2. execute_mem(op, rs, rt, mem) =
        CASE op = "lb"  -> sign_extend(Shr(mem, r) & ByteMask, B)
          [] op = "lh"  -> sign_extend(Shr(mem, h) & HalfMask, 2 * B)
          [] op = "lbu" -> Shr(mem, r) & ByteMask
          [] op = "lhu" -> Shr(mem, h) & HalfMask
          [] op \in {"lw", "ll"} -> mem
          [] op = "lwl" -> (rt & Flip(Shl(Ones, l))) | Shl(mem, l)
          [] op = "lwr" -> (rt & Flip(Shr(Ones, r))) | Shr(mem, r)
          [] op = "sb"  -> (mem & (Ones ^^ Shl(ByteMask, r))) | Shl(rt & ByteMask, r)
          [] op = "sh"  -> (mem & (Ones ^^ Shl(HalfMask, h))) | Shl(rt & HalfMask, h)
          [] op = "swl" -> (mem & Flip(Shr(Ones, l))) | Shr(rt, l)
          [] op = "swr" -> (mem & Flip(Shl(Ones, r))) | Shl(rt, r)
          [] op \in {"sw", "sc"} -> rt
  BY <1>1, Zenon DEF execute_mem
<1> QED BY <1>2, Zenon DEF r, l, h

LEMMA ShiftAmounts ==
    ASSUME NEW k \in 0 .. 3
    PROVE  left(k) \in Int /\ right(k) \in Int /\ half(k) \in Int
BY Width DEF left, right, half

LEMMA execute_memType ==
    ASSUME NEW op \in LoadOps \cup StoreOps, NEW rs \in Nat, NEW rt \in Word, NEW mem \in Word
    PROVE  execute_mem(op, rs, rt, mem) \in Word
<1> DEFINE k == rs % 4
           r == right(k)
           l == left(k)
           h == half(k)
<1>0. k \in 0 .. 3
  OBVIOUS
<1>1. r \in Int /\ l \in Int /\ h \in Int
  <2> HIDE DEF k
  <2> QED BY <1>0, ShiftAmounts
<1> HIDE DEF r, l, h
<1>2. rt \in Nat /\ mem \in Nat /\ ByteMask \in Nat /\ HalfMask \in Nat /\ Ones \in Nat
         /\ Ones \in Word /\ ByteMask \in Word /\ HalfMask \in Word
  BY WordNat, Masks, SmallWords
<1>3. \A x \in Word, y \in Word : x & y \in Word /\ x | y \in Word /\ x ^^ y \in Word
  <2> TAKE x \in Word, y \in Word
  <2>1. x \in Nat /\ y \in Nat
    BY WordNat
  <2> QED BY <2>1, Bitwise
<1>4. \A x \in Word, n \in Int : Shl(x, n) \in Word /\ Shr(x, n) \in Word
  BY ShiftType
<1>5. \A x \in Word : Flip(x) \in Word
  BY FlipType
<1>6. \A x \in Word : sign_extend(x, B) \in Word /\ sign_extend(x, 2 * B) \in Word
  <2>1. B \in Int /\ 2 * B \in Int
    BY Width
  <2> QED BY <2>1, sign_extendType
<1>7. Shr(mem, r) & ByteMask \in Word /\ Shr(mem, h) & HalfMask \in Word
  BY <1>1, <1>2, <1>3, <1>4
<1>8. (rt & Flip(Shl(Ones, l))) | Shl(mem, l) \in Word
  BY <1>1, <1>2, <1>3, <1>4, <1>5
<1>9. (rt & Flip(Shr(Ones, r))) | Shr(mem, r) \in Word
  BY <1>1, <1>2, <1>3, <1>4, <1>5
<1>10. (mem & (Ones ^^ Shl(ByteMask, r))) | Shl(rt & ByteMask, r) \in Word
  BY <1>1, <1>2, <1>3, <1>4, <1>5
<1>11. (mem & (Ones ^^ Shl(HalfMask, h))) | Shl(rt & HalfMask, h) \in Word
  BY <1>1, <1>2, <1>3, <1>4, <1>5
<1>12. (mem & Flip(Shr(Ones, l))) | Shr(rt, l) \in Word
  BY <1>1, <1>2, <1>3, <1>4, <1>5
<1>13. (mem & Flip(Shl(Ones, r))) | Shl(rt, r) \in Word
  BY <1>1, <1>2, <1>3, <1>4, <1>5
<1> HIDE DEF k
<1> QED BY <1>6, <1>7, <1>8, <1>9, <1>10, <1>11, <1>12, <1>13, execute_memIs
        DEF LoadOps, StoreOps, r, l, h, k

-----------------------------------------------------------------------------
(* Products and quotients.                                                 *)

LEMMA HighLow ==
    ASSUME NEW X \in Int, NEW M \in Nat, M >= 1
    PROVE  /\ (X % (M * M)) \div M = (X \div M) % M
           /\ (X % (M * M)) % M = X % M
<1> DEFINE q == (X \div M) % M
           r == X % M
           a == X % (M * M)
<1>1. a = q * M + r
  BY DivDiv
<1>2. q \in 0 .. (M - 1) /\ r \in 0 .. (M - 1)
  <2> DEFINE d == X \div M
  <2>1. d \in Int
    BY DivMod
  <2> HIDE DEF d
  <2>2. d % M \in 0 .. (M - 1) /\ X % M \in 0 .. (M - 1)
    BY <2>1, DivMod
  <2> QED BY <2>2 DEF d
<1> HIDE DEF q, r, a
<1>3. a \in Int
  BY <1>1, <1>2
<1>4. a \div M = q /\ a % M = r
  BY <1>1, <1>2, <1>3, DivModIs
<1> QED BY <1>4 DEF q, r, a

(* A product of two signed words lies well within a double word.           *)
LEMMA SmallProduct ==
    ASSUME NEW H \in Nat, NEW x \in Int, NEW y \in Int, x >= - H, x <= H, y >= - H, y <= H
    PROVE  x * y \in Int /\ x * y <= H * H /\ x * y >= - (H * H)
<1>1. ASSUME NEW a \in Nat, NEW b \in Nat, a <= H, b <= H PROVE a * b \in Nat /\ a * b <= H * H
  <2>1. a * b <= H * b
    BY <1>1
  <2>2. H * b <= H * H
    BY <1>1
  <2>3. a * b \in Nat /\ H * b \in Nat /\ H * H \in Nat
    OBVIOUS
  <2> QED BY <2>1, <2>2, <2>3
<1>2. \A a \in Nat, b \in Nat : a <= H /\ b <= H => a * b \in Nat /\ a * b <= H * H
  BY <1>1
<1> DEFINE u == - x
           v == - y
<1>3. H * H \in Nat
  OBVIOUS
<1>4. CASE x >= 0 /\ y >= 0
  BY <1>2, <1>3, <1>4
<1>5. CASE x < 0 /\ y < 0
  <2>1. u \in Nat /\ v \in Nat /\ u <= H /\ v <= H /\ x * y = u * v
    BY <1>5
  <2> HIDE DEF u, v
  <2> QED BY <1>2, <1>3, <2>1
<1>6. CASE x < 0 /\ y >= 0
  <2>1. u \in Nat /\ y \in Nat /\ u <= H /\ x * y = - (u * y)
    BY <1>6
  <2> HIDE DEF u
  <2> QED BY <1>2, <1>3, <2>1
<1>7. CASE x >= 0 /\ y < 0
  <2>1. v \in Nat /\ x \in Nat /\ v <= H /\ x * y = - (x * v)
    BY <1>7
  <2> HIDE DEF v
  <2> QED BY <1>2, <1>3, <2>1
<1> QED BY <1>4, <1>5, <1>6, <1>7

LEMMA ProductExact ==
    ASSUME NEW rs \in Word, NEW rt \in Word, NEW op,
           NEW h, h = Product(op, rs, rt) \div P(W), NEW l, l = Wrap(Product(op, rs, rt))
    PROVE  /\ h \in Word /\ l \in Word
           /\ op = "mult" => Signed(h) * P(W) + l = Signed(rs) * Signed(rt)
           /\ op # "mult" => h * P(W) + l = rs * rt
<1> DEFINE M == P(W)
           X == IF op = "mult" THEN Signed(rs) * Signed(rt) ELSE rs * rt
           q == X \div M
           r == X % M
<1>1. M \in Nat /\ M >= 1 /\ M >= 16
  BY WordSize
<1>2. /\ rs \in Nat /\ rt \in Nat /\ rs < M /\ rt < M
      /\ Signed(rs) \in Int /\ Signed(rt) \in Int
  BY WordNat, SignedType
<1>3. X \in Int
  <2>1. Signed(rs) * Signed(rt) \in Int /\ rs * rt \in Int
    BY <1>2
  <2> QED BY <2>1
<1>4. Product(op, rs, rt) = X % (M * M)
  BY DEF Product, P
<1>5. h = q % M /\ l = r
  <2> HIDE DEF X, M
  <2>1. h = (X % (M * M)) \div M /\ l = (X % (M * M)) % M
    BY <1>4, Words DEF M
  <2> QED BY <1>1, <1>3, <2>1, HighLow
<1>6. q \in Int /\ r \in 0 .. (M - 1) /\ X = q * M + r
  <2> HIDE DEF X, M
  <2> QED BY <1>1, <1>3, DivMod
<1>7. h \in Word /\ l \in Word
  <2>1. h = Wrap(q) /\ l = Wrap(X)
    BY <1>5, Words
  <2> HIDE DEF q, X
  <2> QED BY <1>3, <1>6, <2>1, WrapType
<1>8. ASSUME op = "mult" PROVE Signed(h) * P(W) + l = Signed(rs) * Signed(rt)
  <2> DEFINE H == P(W - 1)
  <2>1. H \in Nat /\ M = 2 * H /\ H >= 8
    BY WordSize
  <2>2. Signed(rs) >= - H /\ Signed(rs) <= H /\ Signed(rt) >= - H /\ Signed(rt) <= H
    BY <2>1, SignedType
  <2>3. X <= H * H /\ X >= - (H * H)
    <3>1. X = Signed(rs) * Signed(rt)
      BY <1>8
    <3> HIDE DEF X, H
    <3> QED BY <1>2, <2>1, <2>2, <3>1, SmallProduct
  <2> HIDE DEF H, M, X, q, r
  <2>4. q < H /\ q >= - H
    <3>1. H * H \in Nat /\ H * M = 2 * (H * H) /\ H * H >= 8 * H
      BY <2>1
    <3>2. q * M <= H * H /\ q * M > - (H * H) - M /\ q * M \in Int
      <4>1. q * M \in Int
        BY <1>1, <1>6
      <4> QED BY <1>1, <1>3, <1>6, <2>3, <3>1, <4>1
    <3>3. ASSUME q >= H PROVE FALSE
      <4>1. q * M >= H * M
        BY <1>1, <1>6, <2>1, <3>3
      <4> QED BY <2>1, <3>1, <3>2, <4>1
    <3>4. ASSUME q < - H PROVE FALSE
      <4>1. q * M <= (- H) * M
        BY <1>1, <1>6, <2>1, <3>4
      <4>2. (- H) * M = - (H * M)
        BY <1>1, <2>1
      <4> QED BY <2>1, <3>1, <3>2, <4>1, <4>2
    <3> QED BY <1>6, <2>1, <3>3, <3>4
  <2>5. Signed(h) = q
    <3>1. Signed(h) = IF h < H THEN h ELSE h - M
      BY Words DEF H, M
    <3>2. CASE q >= 0
      <4>1. q \in 0 .. (M - 1)
        BY <1>6, <2>1, <2>4, <3>2
      <4>2. q % M = q
        <5> DEFINE z == 0
        <5>1. z \in Int /\ q = z * M + q
          BY <1>1, <1>6
        <5> HIDE DEF z
        <5> QED BY <1>1, <1>6, <4>1, <5>1, DivModIs
      <4> QED BY <1>5, <2>4, <3>1, <4>2
    <3>3. CASE q < 0
      <4> DEFINE z == -1
                 w == q + M
      <4>1. w \in 0 .. (M - 1) /\ w >= H /\ w - M = q
        BY <1>1, <1>6, <2>1, <2>4, <3>3
      <4>2. z \in Int /\ q = z * M + w
        BY <1>1, <1>6
      <4> HIDE DEF z, w
      <4>3. q % M = w
        BY <1>1, <1>6, <4>1, <4>2, DivModIs
      <4> QED BY <1>5, <2>1, <3>1, <4>1, <4>3
    <3> QED BY <1>6, <3>2, <3>3
  <2>6. X = Signed(rs) * Signed(rt)
    BY <1>8 DEF X
  <2> QED BY <1>5, <1>6, <2>5, <2>6 DEF M
<1>9. ASSUME op # "mult" PROVE h * P(W) + l = rs * rt
  <2>1. X = rs * rt
    BY <1>9
  <2> HIDE DEF M, X, q, r
  <2>2. X \in Nat /\ X < M * M
    <3>1. rs * rt <= rs * M
      BY <1>1, <1>2
    <3>2. rs * M <= (M - 1) * M
      BY <1>1, <1>2
    <3>3. (M - 1) * M = M * M - M /\ M * M \in Int /\ rs * M \in Int /\ rs * rt \in Nat
      BY <1>1, <1>2
    <3> QED BY <1>1, <2>1, <3>1, <3>2, <3>3
  <2>3. q \in 0 .. (M - 1)
    <3>1. q \in Nat
      BY <1>1, <2>2 DEF q
    <3>2. ASSUME q >= M PROVE FALSE
      <4>1. q * M >= M * M
        BY <1>1, <1>6, <3>2
      <4>2. q * M \in Int /\ M * M \in Int
        BY <1>1, <1>6
      <4> QED BY <1>6, <2>2, <4>1, <4>2
    <3> QED BY <1>1, <3>1, <3>2
  <2>4. q % M = q
    <3> DEFINE z == 0
    <3>1. z \in Int /\ q = z * M + q
      BY <1>1, <1>6
    <3> HIDE DEF z
    <3> QED BY <1>1, <1>6, <2>3, <3>1, DivModIs
  <2> QED BY <1>5, <1>6, <2>1, <2>4 DEF M
<1> QED BY <1>7, <1>8, <1>9

(* Division rounding to zero.                                              *)
LEMMA QuotRemain ==
    ASSUME NEW x \in Int, NEW y \in Int, y # 0
    PROVE  /\ Quot(x, y) \in Int /\ Remain(x, y) \in Int
           /\ Quot(x, y) * y + Remain(x, y) = x
           /\ Abs(Remain(x, y)) < Abs(y)
           /\ Remain(x, y) # 0 => (Remain(x, y) < 0 <=> x < 0)
           /\ Quot(x, y) <= Abs(x) /\ Quot(x, y) >= - Abs(x)
           /\ Quot(x, y) = Abs(x) => x = 0 \/ (Abs(y) = 1 /\ (x < 0 <=> y < 0))
<1> DEFINE a == Abs(x)
           b == Abs(y)
           q == a \div b
           r == a % b
<1>1. a \in Nat /\ b \in Nat /\ b >= 1
  BY DEF Abs
<1>2. q \in Nat /\ r \in 0 .. (b - 1) /\ a = q * b + r
  <2> HIDE DEF a, b
  <2>1. a \in Int /\ a >= 0
    BY <1>1
  <2> QED BY <1>1, <2>1, DivMod
<1>3. q <= a /\ (q = a => a = 0 \/ b = 1)
  <2> HIDE DEF a, b, q, r
  <2>1. q * b >= q /\ q * b \in Int
    BY <1>1, <1>2
  <2>2. ASSUME b # 1 PROVE q * b >= 2 * q
    <3>1. b >= 2
      BY <1>1, <2>2
    <3> QED BY <1>1, <1>2, <3>1
  <2> QED BY <1>1, <1>2, <2>1, <2>2
<1>4. /\ Quot(x, y) = IF (x < 0) <=> (y < 0) THEN q ELSE - q
      /\ Remain(x, y) = x - y * Quot(x, y)
  BY DEF Quot, Remain
<1>5. /\ a = IF x < 0 THEN - x ELSE x
      /\ b = IF y < 0 THEN - y ELSE y
  BY DEF Abs
<1>6. Remain(x, y) = IF x < 0 THEN - r ELSE r
  <2> HIDE DEF a, b, q, r
  <2>1. CASE x < 0 /\ y < 0
    <3>1. Quot(x, y) = q /\ x = - a /\ y = - b
      BY <1>1, <1>4, <1>5, <2>1
    <3>2. (- b) * q = - (q * b) /\ q * b \in Int
      BY <1>1, <1>2
    <3> QED BY <1>1, <1>2, <1>4, <2>1, <3>1, <3>2
  <2>2. CASE x < 0 /\ ~ (y < 0)
    <3>1. Quot(x, y) = - q /\ x = - a /\ y = b
      BY <1>1, <1>4, <1>5, <2>2
    <3>2. b * (- q) = - (q * b) /\ q * b \in Int
      BY <1>1, <1>2
    <3> QED BY <1>1, <1>2, <1>4, <2>2, <3>1, <3>2
  <2>3. CASE ~ (x < 0) /\ y < 0
    <3>1. Quot(x, y) = - q /\ x = a /\ y = - b
      BY <1>1, <1>4, <1>5, <2>3
    <3>2. (- b) * (- q) = q * b /\ q * b \in Int
      BY <1>1, <1>2
    <3> QED BY <1>1, <1>2, <1>4, <2>3, <3>1, <3>2
  <2>4. CASE ~ (x < 0) /\ ~ (y < 0)
    <3>1. Quot(x, y) = q /\ x = a /\ y = b
      BY <1>1, <1>4, <1>5, <2>4
    <3>2. b * q = q * b /\ q * b \in Int
      BY <1>1, <1>2
    <3> QED BY <1>1, <1>2, <1>4, <2>4, <3>1, <3>2
  <2> QED BY <2>1, <2>2, <2>3, <2>4
<1>7. Quot(x, y) \in Int /\ Quot(x, y) <= a /\ Quot(x, y) >= - a
  <2> HIDE DEF a, b, q, r
  <2> QED BY <1>1, <1>2, <1>3, <1>4
<1>8. Quot(x, y) * y + Remain(x, y) = x
  <2> DEFINE t == Quot(x, y)
  <2>1. t \in Int /\ Remain(x, y) = x - y * t
    BY <1>4, <1>7
  <2> HIDE DEF t
  <2>2. t * y = y * t /\ y * t \in Int
    BY <2>1
  <2>3. t * y + Remain(x, y) = x
    BY <2>1, <2>2
  <2> QED BY <2>3 DEF t
<1>9. Remain(x, y) \in Int /\ Abs(Remain(x, y)) < b
      /\ (Remain(x, y) # 0 => (Remain(x, y) < 0 <=> x < 0))
  <2> HIDE DEF a, b, q, r
  <2> QED BY <1>1, <1>2, <1>6 DEF Abs
<1>10. Quot(x, y) = a => x = 0 \/ (b = 1 /\ (x < 0 <=> y < 0))
  <2> HIDE DEF b, q, r
  <2> QED BY <1>1, <1>2, <1>3, <1>4, <1>5
<1> QED BY <1>7, <1>8, <1>9, <1>10

LEMMA WrapSigned ==
    ASSUME NEW x \in Int, x >= - P(W - 1), x < P(W - 1)
    PROVE  Wrap(x) \in Word /\ Signed(Wrap(x)) = x /\ (Wrap(x) = 0 <=> x = 0)
<1> DEFINE M == P(W)
           H == P(W - 1)
<1>1. H \in Nat /\ M = 2 * H /\ H >= 8 /\ M \in Nat /\ M >= 1
  BY WordSize
<1>2. Wrap(x) = x % M /\ Signed(Wrap(x)) = IF Wrap(x) < H THEN Wrap(x) ELSE Wrap(x) - M
  BY Words
<1>3. x >= - H /\ x < H
  OBVIOUS
<1> HIDE DEF M, H
<1>4. CASE x >= 0
  <2> DEFINE z == 0
  <2>1. z \in Int /\ x = z * M + x /\ x \in 0 .. (M - 1)
    BY <1>1, <1>3, <1>4
  <2> HIDE DEF z
  <2>2. x % M = x
    BY <1>1, <2>1, DivModIs
  <2> QED BY <1>1, <1>2, <1>3, <2>2, WrapType
<1>5. CASE x < 0
  <2> DEFINE z == -1
             w == x + M
  <2>1. z \in Int /\ x = z * M + w /\ w \in 0 .. (M - 1) /\ w >= H /\ w - M = x /\ w # 0
    BY <1>1, <1>3, <1>5
  <2> HIDE DEF z, w
  <2>2. x % M = w
    BY <1>1, <2>1, DivModIs
  <2> QED BY <1>1, <1>2, <1>5, <2>1, <2>2, WrapType
<1> QED BY <1>4, <1>5

LEMMA DivExact ==
    ASSUME NEW rs \in Word, NEW rt \in Word, ~ DivPanics("div", rs, rt),
           NEW h, h = Wrap(Remain(Signed(rs), Signed(rt))),
           NEW l, l = Wrap(Quot(Signed(rs), Signed(rt)))
    PROVE  /\ h \in Word /\ l \in Word
           /\ Signed(l) * Signed(rt) + Signed(h) = Signed(rs)
           /\ Abs(Signed(h)) < Abs(Signed(rt))
           /\ h # 0 => (Signed(h) < 0 <=> Signed(rs) < 0)
<1> DEFINE x == Signed(rs)
           y == Signed(rt)
           q == Quot(x, y)
           r == Remain(x, y)
           H == P(W - 1)
<1>1. x \in Int /\ y \in Int /\ x >= - H /\ x < H /\ y >= - H /\ y < H
  BY SignedType
<1>2. y # 0
  <2>1. rt # 0
    BY DEF DivPanics
  <2>2. rt \in Nat /\ rt < P(W) /\ P(W) \in Nat
    BY WordNat, WordSize
  <2>3. y = rt \/ y = rt - P(W)
    BY SignedType
  <2> QED BY <2>1, <2>2, <2>3
<1>3. ~ (x = - H /\ y = -1)
  BY DEF DivPanics, P
<1>4. H \in Nat
  BY WordSize
<1>5. /\ q \in Int /\ r \in Int /\ q * y + r = x /\ Abs(r) < Abs(y)
      /\ r # 0 => (r < 0 <=> x < 0)
      /\ q <= Abs(x) /\ q >= - Abs(x)
      /\ q = Abs(x) => x = 0 \/ (Abs(y) = 1 /\ (x < 0 <=> y < 0))
  <2> HIDE DEF x, y
  <2> QED BY <1>1, <1>2, QuotRemain
<1> HIDE DEF x, y, q, r, H
<1>6. r >= - H /\ r < H
  BY <1>1, <1>4, <1>5 DEF Abs
<1>7. q >= - H /\ q < H
  <2>1. Abs(x) <= H /\ Abs(x) \in Nat /\ (Abs(x) = H => x = - H)
    BY <1>1, <1>4 DEF Abs
  <2>2. H >= 8
    BY WordSize DEF H
  <2>3. ASSUME q >= H PROVE FALSE
    <3>1. q = Abs(x) /\ x = - H
      BY <1>4, <1>5, <2>1, <2>3
    <3>2. Abs(y) = 1 /\ y < 0
      BY <1>4, <1>5, <2>2, <3>1
    <3>3. y = -1
      BY <1>1, <3>2 DEF Abs
    <3> QED BY <1>3, <3>1, <3>3
  <2> QED BY <1>4, <1>5, <2>1, <2>3
<1>8. h \in Word /\ Signed(h) = r /\ (h = 0 <=> r = 0)
  <2>1. h = Wrap(r)
    BY DEF r, x, y
  <2>2. r >= - P(W - 1) /\ r < P(W - 1)
    BY <1>6 DEF H
  <2> QED BY <1>5, <2>1, <2>2, WrapSigned
<1>9. l \in Word /\ Signed(l) = q
  <2>1. l = Wrap(q)
    BY DEF q, x, y
  <2>2. q >= - P(W - 1) /\ q < P(W - 1)
    BY <1>7 DEF H
  <2> QED BY <1>5, <2>1, <2>2, WrapSigned
<1> QED BY <1>5, <1>8, <1>9 DEF x, y

LEMMA DivuExact ==
    ASSUME NEW rs \in Word, NEW rt \in Word, ~ DivPanics("divu", rs, rt)
    PROVE  /\ rs % rt \in Word /\ rs \div rt \in Word
           /\ (rs \div rt) * rt + (rs % rt) = rs /\ rs % rt < rt
<1>1. rs \in Nat /\ rs < P(W) /\ rt \in Nat /\ rt < P(W) /\ P(W) \in Nat
  BY WordNat, WordSize
<1>2. rt # 0
  BY DEF DivPanics
<1>3. rt >= 1
  BY <1>1, <1>2
<1> DEFINE q == rs \div rt
           r == rs % rt
<1>4. q \in 0 .. rs /\ r \in 0 .. (rt - 1) /\ rs = q * rt + r
  <2>1. rs \in Int
    BY <1>1
  <2> QED BY <1>1, <1>3, <2>1, DivBound, DivMod
<1> HIDE DEF q, r
<1>5. q \in Nat /\ q < P(W) /\ r \in Nat /\ r < P(W) /\ r < rt
  BY <1>1, <1>4
<1>6. q \in Word /\ r \in Word
  BY <1>5, BelowWord
<1> QED BY <1>4, <1>5, <1>6 DEF q, r

-----------------------------------------------------------------------------
(* The register file.                                                      *)

LEMMA WriteRegType ==
    ASSUME registers \in [Reg -> Word], registers[0] = 0,
           NEW r \in Reg, NEW val \in Word, WriteReg(r, val)
    PROVE  /\ registers' \in [Reg -> Word] /\ registers'[0] = 0
           /\ r # 0 => registers'[r] = val
BY MipsAssumption DEF WriteReg

LEMMA WrapSmall == ASSUME NEW x \in Word PROVE Wrap(x) = x
<1> DEFINE z == 0
<1>1. x \in Int /\ x \in 0 .. (P(W) - 1) /\ z \in Int /\ x = z * P(W) + x
  BY WordNat, WordSize, Words
<1> HIDE DEF z
<1>2. x % P(W) = x
  BY <1>1, WordSize, DivModIs
<1> QED BY <1>2, Words

LEMMA WrapSum ==
    ASSUME NEW x \in Word
    PROVE  Wrap(x + 4) \in Word /\ Wrap(x + 8) \in Word
<1>1. x + 4 \in Int /\ x + 8 \in Int
  BY WordNat
<1> QED BY <1>1, WrapType

LEMMA AdvanceType ==
    ASSUME next_pc \in Word, Advance
    PROVE  pc' \in Word /\ next_pc' \in Word
BY WrapSum DEF Advance

LEMMA RefuseType ==
    ASSUME RegisterFile, NEW outcome \in {"err", "panic"}, Refuse(outcome)
    PROVE  RegisterFile'
BY DEF RegisterFile, Refuse

(* The operands of an instruction.                                         *)
LEMMA Operands ==
    ASSUME RegisterFile, NEW i \in Instr
    PROVE  /\ i.rs \in Reg /\ i.rt \in Reg /\ i.rd \in Reg /\ i.imm \in Nat
           /\ registers[i.rs] \in Word /\ registers[i.rt] \in Word
           /\ EffectiveAddress(i) \in Word
           /\ EffectiveAddress(i) \div 4 \in WordAddress
           /\ memory[EffectiveAddress(i) \div 4] \in Word
<1>1. i.rs \in Reg /\ i.rt \in Reg /\ i.rd \in Reg /\ i.imm \in Nat
  BY MipsAssumption
<1>2. registers[i.rs] \in Word /\ registers[i.rt] \in Word
  BY <1>1 DEF RegisterFile
<1>3. SignExtImm(i) \in Word
  BY <1>1, ImmType
<1>4. EffectiveAddress(i) \in Word
  BY <1>2, <1>3, SumType DEF EffectiveAddress
<1> DEFINE a == EffectiveAddress(i)
<1> HIDE DEF a
<1>5. a \in Nat /\ a < P(W)
  BY <1>4, WordNat DEF a
<1>6. a \div 4 \in 0 .. (P(W - 2) - 1)
  BY <1>5, WordSize
<1>7. a \div 4 \in WordAddress
  BY <1>6, Words
<1>8. memory[a \div 4] \in Word
  BY <1>7 DEF RegisterFile
<1> QED BY <1>1, <1>2, <1>4, <1>7, <1>8 DEF a

LEMMA handle_rdType ==
    ASSUME RegisterFile, NEW r \in Reg, NEW val, NEW conditional \in BOOLEAN,
           conditional => val \in Word, handle_rd(r, val, conditional)
    PROVE  RegisterFile'
<1>1. registers' \in [Reg -> Word] /\ registers'[0] = 0
  <2>1. CASE conditional
    BY <2>1, WriteRegType DEF handle_rd, RegisterFile
  <2>2. CASE ~ conditional
    BY <2>2 DEF handle_rd, RegisterFile
  <2> QED BY <2>1, <2>2
<1>2. pc' \in Word /\ next_pc' \in Word
  BY AdvanceType DEF handle_rd, RegisterFile
<1> QED BY <1>1, <1>2 DEF handle_rd, RegisterFile

LEMMA handle_jumpType ==
    ASSUME RegisterFile, NEW link \in Reg, NEW dest \in Word, handle_jump(link, dest)
    PROVE  RegisterFile'
<1>1. CASE InDelaySlot /\ Refuse("err")
  BY <1>1, RefuseType
<1>2. CASE ~ (InDelaySlot /\ Refuse("err"))
  <2>1. /\ pc' = next_pc /\ next_pc' = dest /\ WriteReg(link, Wrap(pc + 8))
        /\ UNCHANGED <<hi, lo, memory, status>>
    BY <1>2 DEF handle_jump
  <2>2. Wrap(pc + 8) \in Word
    BY WrapSum DEF RegisterFile
  <2>3. registers' \in [Reg -> Word] /\ registers'[0] = 0
    BY <2>1, <2>2, WriteRegType DEF RegisterFile
  <2> QED BY <2>1, <2>3 DEF RegisterFile
<1> QED BY <1>1, <1>2

LEMMA JumpTarget ==
    ASSUME NEW x \in Word, NEW n \in Nat
    PROVE  ((x \div 2^TargetBits) * 2^TargetBits) + ((n * 4) % 2^TargetBits) \in Word
<1> DEFINE t == TargetBits
           c == W - t
           p == P(t)
           d == P(c)
           q == x \div p
           r == (n * 4) % p
<1>1. t \in 0 .. 32 /\ c \in 0 .. 32 /\ t + c = W /\ t + c <= 32
  BY MipsAssumption, Width
<1>2. p \in Nat /\ p >= 1 /\ d \in Nat /\ d >= 1 /\ P(W) = p * d
  <2> HIDE DEF t, c
  <2>1. P(t + c) = P(t) * P(c)
    BY <1>1, PowerSum
  <2> QED BY <1>1, <2>1, Powers
<1>3. x \in Nat /\ x < P(W)
  BY WordNat
<1> HIDE DEF p, d
<1>4. r \in 0 .. (p - 1)
  <2> DEFINE y == n * 4
  <2>1. y \in Int
    OBVIOUS
  <2> HIDE DEF y
  <2>2. y % p \in 0 .. (p - 1)
    BY <1>2, <2>1, DivMod
  <2> QED BY <2>2 DEF y
<1>5. q \in Nat /\ x = q * p + (x % p) /\ (x % p) \in 0 .. (p - 1)
  <2>1. x \in Int /\ x >= 0
    BY <1>3
  <2> QED BY <1>2, <2>1, DivMod
<1> DEFINE s == x % p
<1> HIDE DEF q, r, s
<1>6. q <= d - 1
  <2>1. ASSUME q >= d PROVE FALSE
    <3>1. q * p >= p * d /\ q * p \in Int /\ p * d \in Int
      BY <1>2, <1>5, <2>1
    <3>2. x >= q * p
      BY <1>2, <1>3, <1>5, <3>1 DEF s
    <3> QED BY <1>2, <1>3, <3>1, <3>2
  <2> QED BY <1>2, <1>5, <2>1
<1>7. q * p + r \in Nat /\ q * p + r < p * d
  <2>1. q * p <= (d - 1) * p /\ q * p \in Nat
    BY <1>2, <1>5, <1>6
  <2>2. (d - 1) * p = p * d - p /\ p * d \in Nat
    BY <1>2
  <2> QED BY <1>2, <1>4, <2>1, <2>2
<1>8. q * p + r \in Word
  BY <1>2, <1>7, BelowWord
<1> QED BY <1>8 DEF q, p, r, P

LEMMA handle_branchType ==
    ASSUME RegisterFile, NEW i \in Instr, NEW b, handle_branch(i, b)
    PROVE  RegisterFile'
<1>1. CASE InDelaySlot /\ Refuse("err")
  BY <1>1, RefuseType
<1>2. CASE ~ (InDelaySlot /\ Refuse("err"))
  <2>1. /\ pc' = next_pc
        /\ next_pc' = IF b THEN Wrap(pc + 4 + Shl(SignExtImm(i), 2)) ELSE Wrap(next_pc + 4)
        /\ UNCHANGED <<registers, hi, lo, memory, status>>
    BY <1>2 DEF handle_branch
  <2>2. Shl(SignExtImm(i), 2) \in Word
    <3> DEFINE two == 2
    <3>1. SignExtImm(i) \in Word /\ two \in Int
      BY Operands, ImmType
    <3> HIDE DEF two
    <3>2. Shl(SignExtImm(i), two) \in Word
      BY <3>1, ShiftType
    <3> QED BY <3>2 DEF two
  <2>3. Wrap(pc + 4 + Shl(SignExtImm(i), 2)) \in Word
    <3>1. pc \in Nat /\ Shl(SignExtImm(i), 2) \in Nat
      BY <2>2, WordNat DEF RegisterFile
    <3>2. pc + 4 + Shl(SignExtImm(i), 2) \in Int
      BY <3>1
    <3> QED BY <3>2, WrapType
  <2>4. Wrap(next_pc + 4) \in Word
    BY WrapSum DEF RegisterFile
  <2> QED BY <2>1, <2>3, <2>4 DEF RegisterFile
<1> QED BY <1>1, <1>2

LEMMA handle_hi_loType ==
    ASSUME RegisterFile, NEW i \in Instr, NEW rs \in Word, NEW rt \in Word,
           ~ DivPanics(i.op, rs, rt), handle_hi_lo(i, rs, rt)
    PROVE  RegisterFile'
<1>1. Product(i.op, rs, rt) \div P(W) \in Word /\ Wrap(Product(i.op, rs, rt)) \in Word
  <2> DEFINE h == Product(i.op, rs, rt) \div P(W)
             l == Wrap(Product(i.op, rs, rt))
  <2> HIDE DEF h, l
  <2>1. h \in Word /\ l \in Word
    BY ProductExact DEF h, l
  <2> QED BY <2>1 DEF h, l
<1>2. i.op = "div" => /\ Wrap(Remain(Signed(rs), Signed(rt))) \in Word
                      /\ Wrap(Quot(Signed(rs), Signed(rt))) \in Word
  BY DivExact
<1>3. i.op = "divu" => rs % rt \in Word /\ rs \div rt \in Word
  BY DivuExact
<1>4. hi \in Word /\ lo \in Word /\ registers \in [Reg -> Word] /\ registers[0] = 0
         /\ i.rd \in Reg /\ 0 \in Word
  BY Operands, SmallWords DEF RegisterFile
<1>5. hi' \in Word
  <2>1. hi' = CASE i.op = "mthi" -> rs
               [] i.op \in {"mult", "multu"} -> Product(i.op, rs, rt) \div P(W)
               [] i.op = "div"  -> Wrap(Remain(Signed(rs), Signed(rt)))
               [] i.op = "divu" -> rs % rt
               [] OTHER -> hi
    BY DEF handle_hi_lo, P
  <2> QED BY <1>1, <1>2, <1>3, <1>4, <2>1
<1>6. lo' \in Word
  <2>1. lo' = CASE i.op = "mtlo" -> rs
               [] i.op \in {"mult", "multu"} -> Wrap(Product(i.op, rs, rt))
               [] i.op = "div"  -> Wrap(Quot(Signed(rs), Signed(rt)))
               [] i.op = "divu" -> rs \div rt
               [] OTHER -> lo
    BY DEF handle_hi_lo
  <2> QED BY <1>1, <1>2, <1>3, <1>4, <2>1
<1>7. registers' \in [Reg -> Word] /\ registers'[0] = 0
  <2> DEFINE val == CASE i.op = "mfhi" -> hi [] i.op = "mflo" -> lo [] OTHER -> 0
  <2>1. WriteReg(i.rd, val)
    BY DEF handle_hi_lo
  <2>2. val \in Word
    BY <1>4
  <2> HIDE DEF val
  <2> QED BY <1>4, <2>1, <2>2, WriteRegType
<1>8. pc' \in Word /\ next_pc' \in Word
  BY AdvanceType DEF handle_hi_lo, RegisterFile
<1> QED BY <1>5, <1>6, <1>7, <1>8 DEF handle_hi_lo, RegisterFile

LEMMA RegisterFileInit == Init => RegisterFile
<1> SUFFICES ASSUME Init PROVE RegisterFile
  OBVIOUS
<1>1. 0 \in Word /\ 4 \in Word
  BY SmallWords
<1>2. registers \in [Reg -> Word] /\ registers[0] = 0
  <2>1. registers \in [Reg -> Values] /\ registers[0] = 0
    BY DEF Init
  <2> QED BY <2>1, MipsAssumption
<1>3. memory \in [WordAddress -> Word]
  BY MipsAssumption DEF Init
<1> QED BY <1>1, <1>2, <1>3 DEF Init, RegisterFile

LEMMA RegisterFileStep == RegisterFile /\ [inner_step]_vars => RegisterFile'
<1> SUFFICES ASSUME RegisterFile, [inner_step]_vars PROVE RegisterFile'
  OBVIOUS
<1>1. CASE UNCHANGED vars
  BY <1>1 DEF vars, RegisterFile
<1>2. CASE FetchUnaligned
  BY <1>2, RefuseType DEF FetchUnaligned
<1>3. ASSUME NEW i \in Instr, Unknown(i) PROVE RegisterFile'
  BY <1>3, RefuseType DEF Unknown
<1>4. ASSUME NEW i \in Instr, Jump(i) PROVE RegisterFile'
  <2> DEFINE link == IF i.op = "jal" THEN 31 ELSE 0
             dest == ((next_pc \div 2^TargetBits) * 2^TargetBits)
                         + ((i.imm * 4) % 2^TargetBits)
  <2>1. link \in Reg
    BY MipsAssumption
  <2>2. dest \in Word
    <3>1. next_pc \in Word /\ i.imm \in Nat
      BY Operands DEF RegisterFile
    <3> QED BY <3>1, JumpTarget
  <2>3. handle_jump(link, dest)
    BY <1>4 DEF Jump
  <2> HIDE DEF link, dest
  <2> QED BY <2>1, <2>2, <2>3, handle_jumpType
<1>5. ASSUME NEW i \in Instr, JumpRegister(i) PROVE RegisterFile'
  <2> DEFINE link == IF i.op = "jalr" THEN i.rd ELSE 0
  <2>1. link \in Reg /\ registers[i.rs] \in Word
    BY MipsAssumption, Operands
  <2>2. handle_jump(link, registers[i.rs])
    BY <1>5 DEF JumpRegister
  <2> HIDE DEF link
  <2> QED BY <2>1, <2>2, handle_jumpType
<1>6. ASSUME NEW i \in Instr, Branch(i) PROVE RegisterFile'
  BY <1>6, handle_branchType DEF Branch
<1>7. ASSUME NEW i \in Instr, Alu(i) PROVE RegisterFile'
  <2> DEFINE val == execute_alu(i, registers[i.rs], registers[i.rt])
  <2>1. i.op \in AluOps /\ handle_rd(i.rd, val, TRUE)
    BY <1>7 DEF Alu, AluOps
  <2>2. val \in Word /\ i.rd \in Reg
    BY <2>1, Operands, execute_aluType
  <2> HIDE DEF val
  <2> QED BY <2>1, <2>2, handle_rdType
<1>8. ASSUME NEW i \in Instr, AluImmediate(i) PROVE RegisterFile'
  <2> DEFINE imm == IF i.op \in {"andi", "ori", "xori"} THEN ZeroExtImm(i) ELSE SignExtImm(i)
             val == execute_alu(i, registers[i.rs], imm)
  <2>1. i.op \in ImmediateOps \cup {"lui"} /\ handle_rd(i.rt, val, TRUE)
    BY <1>8 DEF AluImmediate
  <2>2. imm \in Word /\ i.imm \in Nat /\ registers[i.rs] \in Word /\ i.rt \in Reg
    BY Operands, ImmType
  <2> HIDE DEF imm
  <2>3. val \in Word
    BY <2>1, <2>2, execute_aluType
  <2> HIDE DEF val
  <2> QED BY <2>1, <2>2, <2>3, handle_rdType
<1>9. ASSUME NEW i \in Instr, Move(i) PROVE RegisterFile'
  <2> DEFINE cond == (i.op = "movz") <=> (registers[i.rt] = 0)
  <2>1. cond \in BOOLEAN
    OBVIOUS
  <2>2. registers[i.rs] \in Word /\ i.rd \in Reg
    BY Operands
  <2>3. handle_rd(i.rd, registers[i.rs], cond)
    BY <1>9 DEF Move
  <2> HIDE DEF cond
  <2> QED BY <2>1, <2>2, <2>3, handle_rdType
<1>10. ASSUME NEW i \in Instr, HiLo(i) PROVE RegisterFile'
  <2> DEFINE rs == registers[i.rs]
             rt == registers[i.rt]
  <2>1. rs \in Word /\ rt \in Word
    BY Operands
  <2>2. \/ DivPanics(i.op, rs, rt) /\ Refuse("panic")
        \/ ~ DivPanics(i.op, rs, rt) /\ handle_hi_lo(i, rs, rt)
    BY <1>10 DEF HiLo
  <2> HIDE DEF rs, rt
  <2> QED BY <2>1, <2>2, RefuseType, handle_hi_loType
<1>11. ASSUME NEW i \in Instr, Load(i) PROVE RegisterFile'
  <2> DEFINE a == EffectiveAddress(i)
             val == execute_mem(i.op, a, registers[i.rt], memory[a \div 4])
  <2>1. i.op \in LoadOps /\ handle_rd(i.rt, val, TRUE)
    BY <1>11 DEF Load
  <2>2. a \in Nat /\ registers[i.rt] \in Word /\ memory[a \div 4] \in Word /\ i.rt \in Reg
    BY Operands, WordNat
  <2> HIDE DEF a
  <2>3. val \in Word
    BY <2>1, <2>2, execute_memType
  <2> HIDE DEF val
  <2> QED BY <2>1, <2>2, <2>3, handle_rdType
<1>12. ASSUME NEW i \in Instr, Store(i) PROVE RegisterFile'
  <2> DEFINE a == EffectiveAddress(i)
             q == a \div 4
             val == execute_mem(i.op, a, registers[i.rt], memory[q])
  <2>1. /\ i.op \in StoreOps /\ Advance /\ UNCHANGED <<hi, lo, status>>
        /\ IF i.op = "sc" THEN WriteReg(i.rt, 1) ELSE UNCHANGED registers
        /\ memory' = [memory EXCEPT ![q] = val]
    BY <1>12 DEF Store, StoreOps
  <2>2. a \in Nat /\ registers[i.rt] \in Word /\ q \in WordAddress /\ memory[q] \in Word
           /\ i.rt \in Reg /\ 1 \in Word
    BY Operands, WordNat, SmallWords
  <2> HIDE DEF a, q
  <2>3. val \in Word
    BY <2>1, <2>2, execute_memType
  <2> HIDE DEF val
  <2>4. memory' \in [WordAddress -> Word]
    BY <2>1, <2>2, <2>3 DEF RegisterFile
  <2>5. registers' \in [Reg -> Word] /\ registers'[0] = 0
    BY <2>1, <2>2, WriteRegType DEF RegisterFile
  <2>6. pc' \in Word /\ next_pc' \in Word
    BY <2>1, AdvanceType DEF RegisterFile
  <2> QED BY <2>1, <2>4, <2>5, <2>6 DEF RegisterFile
<1> QED BY <1>1, <1>2, <1>3, <1>4, <1>5, <1>6, <1>7, <1>8, <1>9, <1>10, <1>11, <1>12
        DEF inner_step

(* Registers, hi, lo, the program counters and memory hold words after any *)
(* sequence of instructions, and register 0 holds zero (inner_step).       *)
THEOREM RegistersCorrect == Spec => []RegisterFile
BY RegisterFileInit, RegisterFileStep, PTL DEF Spec

-----------------------------------------------------------------------------
(* Delay slots.                                                            *)

(* While the machine runs, next_pc is where the last instruction sends     *)
(* control, once the instruction at pc has run.                            *)
NextPc == Running => next_pc = IF jumped.taken THEN jumped.target ELSE Wrap(pc + 4)

LEMMA ExecutingJumped ==
    ASSUME NEW i, Executing(i)
    PROVE  jumped'.taken = Transfers(i) /\ jumped'.target = Target(i)
BY DEF Executing

(* What a step that keeps the machine running does to the two program      *)
(* counters, by what it records of itself: only an instruction whose next  *)
(* one follows it may transfer control.                                    *)
LEMMA ControlStep ==
    ASSUME inner_step, status' = "running"
    PROVE  /\ pc' = next_pc
           /\ \/ ~ jumped'.taken /\ next_pc' = Wrap(next_pc + 4)
              \/ /\ jumped'.taken /\ next_pc' = jumped'.target
                 /\ next_pc = Wrap(pc + 4)
<1> DEFINE Straight == pc' = next_pc /\ ~ jumped'.taken /\ next_pc' = Wrap(next_pc + 4)
           Transfer == /\ pc' = next_pc /\ jumped'.taken /\ next_pc' = jumped'.target
                       /\ next_pc = Wrap(pc + 4)
<1>1. CASE FetchUnaligned
  BY <1>1 DEF FetchUnaligned, Refuse
<1>2. ASSUME NEW i \in Instr, Unknown(i) PROVE FALSE
  BY <1>2 DEF Unknown, Refuse
<1>3. ASSUME NEW i \in Instr, Executing(i), Advance, i.op \notin JumpOps \cup BranchOps
      PROVE  Straight
  <2>1. ~ Transfers(i)
    BY <1>3 DEF Transfers
  <2> QED BY <1>3, <2>1, ExecutingJumped DEF Advance
<1>4. ASSUME NEW i \in Instr, Alu(i) \/ AluImmediate(i) \/ Move(i) \/ Load(i) PROVE Straight
  <2>1. Executing(i) /\ Advance
    BY <1>4, Zenon DEF Alu, AluImmediate, Move, Load, handle_rd
  <2>2. i.op \notin JumpOps \cup BranchOps
    BY <1>4 DEF Alu, AluImmediate, Move, Load, LoadOps, ImmediateOps, JumpOps, BranchOps
  <2> QED BY <2>1, <2>2, <1>3
<1>5. ASSUME NEW i \in Instr, HiLo(i) PROVE Straight
  <2>1. Executing(i) /\ Advance
    BY <1>5 DEF HiLo, handle_hi_lo, Refuse
  <2>2. i.op \notin JumpOps \cup BranchOps
    BY <1>5 DEF HiLo, JumpOps, BranchOps
  <2> QED BY <2>1, <2>2, <1>3
<1>6. ASSUME NEW i \in Instr, Store(i) PROVE Straight
  <2>1. Executing(i) /\ Advance
    BY <1>6, Zenon DEF Store
  <2>2. i.op \notin JumpOps \cup BranchOps
    BY <1>6 DEF Store, JumpOps, BranchOps
  <2> QED BY <2>1, <2>2, <1>3
<1>7. ASSUME NEW i \in Instr, NEW link, NEW dest, Executing(i), i.op \in JumpOps,
             handle_jump(link, dest), next_pc = Wrap(pc + 4) => dest = Target(i)
      PROVE  Transfer
  <2>1. Transfers(i)
    BY <1>7 DEF Transfers
  <2>2. pc' = next_pc /\ next_pc' = dest /\ next_pc = Wrap(pc + 4)
    BY <1>7 DEF handle_jump, Refuse, InDelaySlot
  <2> QED BY <1>7, <2>1, <2>2, ExecutingJumped
<1>8. ASSUME NEW i \in Instr, Jump(i) PROVE Transfer
  <2> DEFINE link == IF i.op = "jal" THEN 31 ELSE 0
             dest == ((next_pc \div 2^TargetBits) * 2^TargetBits) + ((i.imm * 4) % 2^TargetBits)
  <2>1. Executing(i) /\ i.op \in {"j", "jal"} /\ handle_jump(link, dest)
    BY <1>8, Zenon DEF Jump
  <2>2. next_pc = Wrap(pc + 4) => dest = Target(i)
    BY <2>1, Zenon DEF Target
  <2>3. i.op \in JumpOps
    BY <2>1 DEF JumpOps
  <2> HIDE DEF link, dest
  <2> QED BY <2>1, <2>2, <2>3, <1>7
<1>9. ASSUME NEW i \in Instr, JumpRegister(i) PROVE Transfer
  <2> DEFINE link == IF i.op = "jalr" THEN i.rd ELSE 0
             dest == registers[i.rs]
  <2>1. Executing(i) /\ i.op \in {"jr", "jalr"} /\ handle_jump(link, dest)
    BY <1>9, Zenon DEF JumpRegister
  <2>2. dest = Target(i)
    BY <2>1 DEF Target
  <2>3. i.op \in JumpOps
    BY <2>1 DEF JumpOps
  <2> HIDE DEF link, dest
  <2> QED BY <2>1, <2>2, <2>3, <1>7
<1>10. ASSUME NEW i \in Instr, Branch(i) PROVE Straight \/ Transfer
  <2>1. Executing(i) /\ i.op \in BranchOps /\ handle_branch(i, Taken(i))
    BY <1>10, Zenon DEF Branch
  <2>2. /\ pc' = next_pc /\ next_pc = Wrap(pc + 4)
        /\ next_pc' = IF Taken(i) THEN Wrap(pc + 4 + Shl(SignExtImm(i), 2)) ELSE Wrap(next_pc + 4)
    BY <2>1 DEF handle_branch, Refuse, InDelaySlot
  <2>3. i.op \notin JumpOps /\ i.op \notin {"j", "jal"} /\ i.op \notin {"jr", "jalr"}
    BY <2>1 DEF BranchOps, JumpOps
  <2>4. Target(i) = Wrap(pc + 4 + Shl(SignExtImm(i), 2))
    BY <2>3 DEF Target
  <2>5. Transfers(i) <=> Taken(i)
    BY <2>1, <2>3, Zenon DEF Transfers
  <2>6. (jumped'.taken <=> Transfers(i)) /\ jumped'.target = Target(i)
    BY <2>1, ExecutingJumped
  <2>7. CASE Taken(i)
    BY <2>2, <2>4, <2>5, <2>6, <2>7
  <2>8. CASE ~ Taken(i)
    BY <2>2, <2>5, <2>6, <2>8
  <2> QED BY <2>7, <2>8
<1> QED BY <1>1, <1>2, <1>4, <1>5, <1>6, <1>8, <1>9, <1>10, Zenon DEF inner_step

LEMMA NextPcStep ==
    ASSUME NextPc, [inner_step]_vars
    PROVE  NextPc'
<1>1. CASE UNCHANGED vars
  BY <1>1 DEF NextPc, Running, vars
<1>2. CASE inner_step
  <2> SUFFICES ASSUME status' = "running"
               PROVE  next_pc' = IF jumped'.taken THEN jumped'.target ELSE Wrap(pc' + 4)
    BY DEF NextPc, Running
  <2> QED BY <1>2, ControlStep
<1> QED BY <1>1, <1>2

(* A step that keeps the machine running goes where the instruction before *)
(* it said, and does not say otherwise itself.                             *)
LEMMA DelaySlotStep ==
    ASSUME NextPc, inner_step, Running, status' = "running"
    PROVE  /\ pc' = IF jumped.taken THEN jumped.target ELSE Wrap(pc + 4)
           /\ jumped.taken /\ jumped'.taken => jumped.target = Wrap(pc + 4)
BY ControlStep DEF NextPc

(* The instruction after a jump or a taken branch runs and control then    *)
(* goes to the target, in every sequence of instructions; a jump or a      *)
(* taken branch in a delay slot runs only where the target is the address  *)
(* after the slot (handle_jump, handle_branch).                            *)
THEOREM DelaySlotCorrect == Spec => DelaySlot
<1> DEFINE A == Running /\ status' = "running" =>
                   /\ pc' = IF jumped.taken THEN jumped.target ELSE Wrap(pc + 4)
                   /\ jumped.taken /\ jumped'.taken => jumped.target = Wrap(pc + 4)
<1>1. Init => NextPc
  <2>1. Wrap(4) = 4
    BY SmallWords, WrapSmall
  <2> QED BY <2>1 DEF Init, NextPc
<1>2. NextPc /\ [inner_step]_vars => NextPc'
  BY NextPcStep
<1>3. NextPc /\ [inner_step]_vars => [A]_vars
  BY DelaySlotStep
<1> QED BY <1>1, <1>2, <1>3, PTL DEF Spec, DelaySlot

-----------------------------------------------------------------------------
(* Multiplication and division.                                            *)

(* A step that runs an instruction, by the instruction.                    *)
LEMMA StepCases ==
    ASSUME inner_step
    PROVE  \/ FetchUnaligned
           \/ \E i \in Instr :
                /\ Executing(i)
                /\ \/ Load(i) \/ Store(i) \/ HiLo(i) \/ Alu(i)
                   \/ /\ ~ Load(i) /\ ~ Store(i) /\ ~ HiLo(i) /\ ~ Alu(i)
                      /\ \/ Unknown(i) \/ Jump(i) \/ JumpRegister(i)
                         \/ Branch(i) \/ AluImmediate(i) \/ Move(i)
<1>1. ASSUME NEW i \in Instr,
             \/ Unknown(i) \/ Jump(i) \/ JumpRegister(i) \/ Branch(i)
             \/ Alu(i) \/ AluImmediate(i) \/ Move(i) \/ HiLo(i) \/ Load(i) \/ Store(i)
      PROVE  Executing(i)
  BY <1>1, Zenon DEF Unknown, Jump, JumpRegister, Branch, Alu, AluImmediate, Move, HiLo, Load, Store
<1> QED BY <1>1, Zenon DEF inner_step

LEMMA ExecutingIs ==
    ASSUME NEW i, Executing(i)
    PROVE  /\ last'.op = i.op /\ last'.imm = i.imm
           /\ last'.rd = (IF i.op \in LoadOps THEN i.rt ELSE i.rd)
           /\ last'.rs = registers[i.rs] /\ last'.rt = registers[i.rt]
           /\ last'.address = EffectiveAddress(i) /\ last'.mem = memory
BY DEF Executing

(* The opcodes of the other instructions.                                  *)
LEMMA OtherOps ==
    ASSUME NEW i,
           \/ Unknown(i) \/ Jump(i) \/ JumpRegister(i) \/ Branch(i) \/ AluImmediate(i) \/ Move(i)
    PROVE  i.op \notin LoadOps \cup StoreOps \cup AluOps \cup {"mult", "multu", "div", "divu"}
BY DEF Unknown, Jump, JumpRegister, Branch, BranchOps, AluImmediate, Move, ImmediateOps,
       LoadOps, StoreOps, AluOps

LEMMA HiLoStep ==
    ASSUME RegisterFile, inner_step
    PROVE  HiLoExact'
<1>1. CASE FetchUnaligned
  BY <1>1 DEF FetchUnaligned, Refuse, HiLoExact
<1>2. ASSUME NEW i \in Instr, Executing(i),
             i.op \notin {"mult", "multu", "div", "divu"}
      PROVE  HiLoExact'
  BY <1>2, ExecutingIs DEF HiLoExact
<1>3. ASSUME NEW i \in Instr, Executing(i), HiLo(i) PROVE HiLoExact'
  <2> DEFINE rs == registers[i.rs]
             rt == registers[i.rt]
  <2>1. rs \in Word /\ rt \in Word
    BY Operands
  <2>2. \/ DivPanics(i.op, rs, rt) /\ Refuse("panic")
        \/ ~ DivPanics(i.op, rs, rt) /\ handle_hi_lo(i, rs, rt)
    BY <1>3 DEF HiLo
  <2>3. last'.op = i.op /\ last'.rs = rs /\ last'.rt = rt
    BY <1>3, ExecutingIs
  <2> HIDE DEF rs, rt
  <2>4. CASE Refuse("panic")
    BY <2>4 DEF Refuse, HiLoExact
  <2>5. CASE ~ DivPanics(i.op, rs, rt) /\ handle_hi_lo(i, rs, rt)
    <3> DEFINE h == hi'
               l == lo'
    <3>1. h = CASE i.op = "mthi" -> rs
               [] i.op \in {"mult", "multu"} -> Product(i.op, rs, rt) \div P(W)
               [] i.op = "div"  -> Wrap(Remain(Signed(rs), Signed(rt)))
               [] i.op = "divu" -> rs % rt
               [] OTHER -> hi
      BY <2>5 DEF handle_hi_lo, P
    <3>2. l = CASE i.op = "mtlo" -> rs
               [] i.op \in {"mult", "multu"} -> Wrap(Product(i.op, rs, rt))
               [] i.op = "div"  -> Wrap(Quot(Signed(rs), Signed(rt)))
               [] i.op = "divu" -> rs \div rt
               [] OTHER -> lo
      BY <2>5 DEF handle_hi_lo
    <3> HIDE DEF h, l
    <3>3. CASE i.op \in {"mult", "multu"}
      <4>1. h = Product(i.op, rs, rt) \div P(W) /\ l = Wrap(Product(i.op, rs, rt))
        BY <3>1, <3>2, <3>3
      <4>2. /\ i.op = "mult" => Signed(h) * P(W) + l = Signed(rs) * Signed(rt)
            /\ i.op # "mult" => h * P(W) + l = rs * rt
        BY <2>1, <4>1, ProductExact
      <4>3. /\ i.op = "mult" => Signed(h) * 2^W + l = Signed(rs) * Signed(rt)
            /\ i.op = "multu" => h * 2^W + l = rs * rt
        BY <4>2 DEF P
      <4> QED BY <2>3, <3>3, <4>3 DEF HiLoExact, h, l
    <3>4. CASE i.op = "div"
      <4>1. /\ h = Wrap(Remain(Signed(rs), Signed(rt))) /\ l = Wrap(Quot(Signed(rs), Signed(rt)))
            /\ ~ DivPanics("div", rs, rt)
        BY <2>5, <3>1, <3>2, <3>4
      <4>2. /\ Signed(l) * Signed(rt) + Signed(h) = Signed(rs)
            /\ Abs(Signed(h)) < Abs(Signed(rt))
            /\ h # 0 => (Signed(h) < 0 <=> Signed(rs) < 0)
        BY <2>1, <4>1, DivExact
      <4> QED BY <2>3, <3>4, <4>2 DEF HiLoExact, h, l
    <3>5. CASE i.op = "divu"
      <4>1. h = rs % rt /\ l = rs \div rt /\ ~ DivPanics("divu", rs, rt)
        BY <2>5, <3>1, <3>2, <3>5
      <4>2. l * rt + h = rs /\ h < rt
        BY <2>1, <4>1, DivuExact
      <4> QED BY <2>3, <3>5, <4>2 DEF HiLoExact, h, l
    <3> QED BY <1>2, <1>3, <3>3, <3>4, <3>5
  <2> QED BY <2>2, <2>4, <2>5
<1>4. ASSUME NEW i \in Instr, Executing(i), Load(i) \/ Store(i) \/ Alu(i) PROVE HiLoExact'
  <2>1. i.op \notin {"mult", "multu", "div", "divu"}
    BY <1>4 DEF Load, Store, Alu, LoadOps
  <2> QED BY <1>2, <1>4, <2>1
<1>5. ASSUME NEW i \in Instr, Executing(i),
             \/ Unknown(i) \/ Jump(i) \/ JumpRegister(i)
             \/ Branch(i) \/ AluImmediate(i) \/ Move(i)
      PROVE  HiLoExact'
  BY <1>2, <1>5, OtherOps
<1> QED BY <1>1, <1>3, <1>4, <1>5, StepCases

(* hi and lo are the exact product, or an exact quotient and remainder     *)
(* (handle_hi_lo), for words of the code's width.                          *)
THEOREM HiLoCorrect == Spec => []HiLoExact
<1>1. Init => HiLoExact
  BY DEF Init, NoInstr, HiLoExact
<1>2. RegisterFile /\ HiLoExact /\ [inner_step]_vars => HiLoExact'
  <2>1. ASSUME HiLoExact, UNCHANGED vars PROVE HiLoExact'
    BY <2>1 DEF vars, HiLoExact, Signed, Abs
  <2> QED BY <2>1, HiLoStep
<1> QED BY <1>1, <1>2, RegistersCorrect, PTL DEF Spec

-----------------------------------------------------------------------------
(* Sign extension and shifts.                                              *)

(* Bits that do not meet are joined by | and cut by &.                     *)
LEMMA AndMask ==
    ASSUME NEW e \in 0 .. W, NEW x \in 0 .. (P(e) - 1)
    PROVE  x & (P(e) - 1) = x
<1> DEFINE k == W - e
           p == P(e)
           z == 0
           o == p - 1
<1>1. k \in 0 .. W /\ e + k <= W /\ e + k = W /\ e \in 0 .. 32 /\ k \in 0 .. 32
  BY Width
<1>2. p \in Nat /\ p >= 1 /\ z \in Nat /\ o \in 0 .. (p - 1) /\ x \in 0 .. (p - 1)
  BY <1>1, Powers
<1> DEFINE X == x + p * z
           Y == o + p * z
<1>3. Low(AndTable, X, Y)[W] = Low(AndTable, x, o)[e] + p * Low(AndTable, z, z)[k]
  <2>1. AndTable \in Table /\ e \in 0 .. W /\ k \in 0 .. W /\ e + k <= W /\ W = e + k
    BY <1>1, Tables
  <2>2. x \in 0 .. (P(e) - 1) /\ o \in 0 .. (P(e) - 1) /\ z \in Nat
    BY <1>2
  <2>3. p = P(e) /\ X = x + p * z /\ Y = o + p * z
    OBVIOUS
  <2> HIDE DEF z, o, k, p, X, Y
  <2> QED BY <2>1, <2>2, <2>3, LowJoin
<1>4. Low(AndTable, z, z)[k] = 0
  <2>1. P(k) \in Nat /\ P(k) >= 1
    <3> HIDE DEF k
    <3> QED BY <1>1, Powers
  <2>2. z \in 0 .. (P(k) - 1)
    BY <2>1
  <2> HIDE DEF k, z
  <2>3. Low(AndTable, z, 0)[k] = 0
    BY <1>1, <2>2, LowMasks
  <2> QED BY <2>3 DEF z
<1>5. Low(AndTable, x, o)[e] = x
  BY LowMasks
<1>6. x + p * z = x /\ o + p * z = o /\ p * 0 = 0 /\ x + 0 = x
  <2> HIDE DEF p, o
  <2> QED BY <1>2
<1> HIDE DEF p, o, z, k
<1>7. Low(AndTable, x, o)[W] = x
  BY <1>1, <1>3, <1>4, <1>5, <1>6
<1> QED BY <1>7 DEF &, o, p

LEMMA OrJoin ==
    ASSUME NEW e \in 0 .. W, NEW x \in 0 .. (P(e) - 1), NEW v \in 0 .. (P(W - e) - 1)
    PROVE  x | (P(e) * v) = x + P(e) * v
<1> DEFINE k == W - e
           p == P(e)
           z == 0
<1>1. k \in 0 .. W /\ e + k <= W /\ e + k = W /\ e \in 0 .. 32 /\ k \in 0 .. 32
  BY Width
<1>2. p \in Nat /\ p >= 1 /\ z \in Nat /\ z \in 0 .. (p - 1) /\ x \in 0 .. (p - 1) /\ v \in Nat
        /\ v \in 0 .. (P(k) - 1)
  BY <1>1, Powers
<1> DEFINE X == x + p * z
           Y == z + p * v
<1>3. Low(OrTable, X, Y)[W] = Low(OrTable, x, z)[e] + p * Low(OrTable, z, v)[k]
  <2>1. OrTable \in Table /\ e \in 0 .. W /\ k \in 0 .. W /\ e + k <= W /\ W = e + k
    BY <1>1, Tables
  <2>2. x \in 0 .. (P(e) - 1) /\ z \in 0 .. (P(e) - 1) /\ z \in Nat /\ v \in Nat
    BY <1>2
  <2>3. p = P(e) /\ X = x + p * z /\ Y = z + p * v
    OBVIOUS
  <2> HIDE DEF z, k, p, X, Y
  <2> QED BY <2>1, <2>2, <2>3, LowJoin
<1>4. Low(OrTable, z, v)[k] = v
  <2> HIDE DEF k
  <2>1. Low(OrTable, 0, v)[k] = v
    BY <1>1, <1>2, LowMasks
  <2> QED BY <2>1
<1>5. Low(OrTable, x, z)[e] = x
  BY LowMasks
<1>6. x + p * z = x /\ z + p * v = p * v
  <2> HIDE DEF p
  <2> QED BY <1>2
<1> HIDE DEF p, z, k
<1>7. Low(OrTable, x, p * v)[W] = x + p * v
  BY <1>1, <1>3, <1>4, <1>5, <1>6
<1> QED BY <1>7 DEF |, p

LEMMA PowerWord ==
    ASSUME NEW e \in 0 .. (W - 1)
    PROVE  P(e) \in Word /\ P(e) \in Nat /\ P(e) >= 1 /\ P(e) - 1 \in Word
<1> DEFINE w == W - 1
<1>1. e \in 0 .. 32 /\ w \in 0 .. 32 /\ e <= w
  BY Width
<1> HIDE DEF w
<1>2. P(e) \in Nat /\ P(e) >= 1 /\ P(e) <= P(w)
  BY <1>1, Powers, PowersGrow
<1>3. P(w) < P(W) /\ P(w) \in Nat /\ P(W) \in Nat
  BY WordSize DEF w
<1>4. P(e) < P(W) /\ P(e) - 1 \in Nat /\ P(e) - 1 < P(W)
  BY <1>2, <1>3
<1> QED BY <1>2, <1>4, BelowWord

(* sign_extend of an e bit value, 0 < e < W, whatever multiple of the      *)
(* width was added to its index.                                           *)
LEMMA sign_extendIs ==
    ASSUME NEW index \in Int, NEW e \in 1 .. (W - 1), e = index % W,
           NEW data \in 0 .. (P(e) - 1)
    PROVE  sign_extend(data, index)
             = IF data < P(e - 1) THEN data ELSE data + (P(W) - P(e))
<1> DEFINE k == W - e
           p == P(e)
           d == P(k)
           c == P(e - 1)
<1>1. k \in 1 .. (W - 1) /\ k \in 0 .. 32 /\ e \in 0 .. 32 /\ e + k = W /\ e + k <= 32
        /\ e \in 0 .. (W - 1) /\ e \in 0 .. W
        /\ k \in 0 .. (W - 1) /\ e - 1 \in 0 .. 32 /\ e = (e - 1) + 1
  BY Width
<1>2. (index - 1) % W = e - 1 /\ (W - index) % W = k
  <2>1. CASE W = 4 BY <2>1, <1>1
  <2>2. CASE W = 8 BY <2>2, <1>1
  <2>3. CASE W = 16 BY <2>3, <1>1
  <2>4. CASE W = 32 BY <2>4, <1>1
  <2> QED BY <2>1, <2>2, <2>3, <2>4, MipsAssumption DEF W
<1>3. p \in Nat /\ p >= 1 /\ d \in Nat /\ d >= 1 /\ P(W) = p * d /\ p \in Word /\ d \in Word
        /\ p - 1 \in Word /\ d - 1 \in Word
  <2> HIDE DEF k
  <2>1. P(e + k) = P(e) * P(k)
    BY <1>1, PowerSum
  <2> QED BY <1>1, <2>1, PowerWord
<1>4. c \in Nat /\ c >= 1 /\ p = 2 * c
  <2> DEFINE j == e - 1
  <2>1. j \in 0 .. 32 /\ e = j + 1 /\ e \in Int
    BY <1>1
  <2> HIDE DEF j
  <2>2. P(j) \in Nat /\ P(j) >= 1 /\ P(e) = 2 * P(j)
    BY <2>1, PowerNext
  <2> QED BY <2>2 DEF j
<1> DEFINE z == p * (d - 1)
<1>5. z = P(W) - p /\ z \in Word
  <2> HIDE DEF p, d
  <2>1. z = p * d - p
    BY <1>3
  <2>2. p * d \in Nat /\ p * d - p >= 0
    <3>1. P(W) \in Nat /\ p < P(W)
      BY <1>3, WordNat, WordSize
    <3> QED BY <1>3, <3>1
  <2>3. z \in Nat /\ z < P(W)
    BY <1>3, <2>1, <2>2
  <2> QED BY <1>3, <2>1, <2>3, BelowWord
<1>6. Wrap(Shl(1, index) - 1) = p - 1
  <2>1. Shl(1, index) = (1 * p) % P(W)
    BY Words
  <2>2. 1 * p = p
    BY <1>3
  <2>3. p % P(W) = p
    BY <1>3, WrapSmall, Words
  <2> QED BY <1>3, <2>1, <2>2, <2>3, WrapSmall
<1>7. Wrap(Shl(1, W - index) - 1) = d - 1
  <2>1. Shl(1, W - index) = (1 * d) % P(W)
    BY <1>2, Words
  <2>2. 1 * d = d
    BY <1>3
  <2>3. d % P(W) = d
    BY <1>3, WrapSmall, Words
  <2> QED BY <1>3, <2>1, <2>2, <2>3, WrapSmall
<1>8. Shl(d - 1, index) = z
  <2>1. Shl(d - 1, index) = ((d - 1) * p) % P(W)
    BY Words
  <2>2. (d - 1) * p = z
    <3> HIDE DEF p, d
    <3> QED BY <1>3
  <2>3. z % P(W) = z
    BY <1>5, WrapSmall, Words
  <2> QED BY <2>1, <2>2, <2>3
<1>9. data & (p - 1) = data
  BY <1>1, AndMask
<1>10. data | z = data + z
  <2>1. d - 1 \in 0 .. (P(W - e) - 1)
    BY <1>3
  <2> HIDE DEF d, k
  <2> QED BY <1>1, <2>1, OrJoin
<1>11. Shr(data, index - 1) # 0 <=> ~ (data < c)
  <2>1. Shr(data, index - 1) = data \div c
    BY <1>2, Words
  <2>2. data \in Nat /\ data < 2 * c
    BY <1>3, <1>4
  <2> HIDE DEF c
  <2>3. CASE data < c
    <3> DEFINE q == 0
    <3>1. q \in Int /\ data = q * c + data /\ data \in 0 .. (c - 1) /\ data \in Int
      BY <1>4, <2>2, <2>3
    <3> HIDE DEF q
    <3>2. c \in Nat /\ c >= 1
      BY <1>4
    <3>3. data \div c = q
      BY <3>1, <3>2, DivModIs
    <3> QED BY <2>1, <2>3, <3>3 DEF q
  <2>4. CASE ~ (data < c)
    <3> DEFINE q == 1
               r == data - c
    <3>1. q \in Int /\ data = q * c + r /\ r \in 0 .. (c - 1) /\ data \in Int
      BY <1>4, <2>2, <2>4
    <3> HIDE DEF q, r
    <3>2. c \in Nat /\ c >= 1
      BY <1>4
    <3>3. data \div c = q
      BY <3>1, <3>2, DivModIs
    <3> QED BY <2>1, <2>4, <3>3 DEF q
  <2> QED BY <2>3, <2>4
<1>12. sign_extend(data, index) = IF Shr(data, index - 1) # 0 THEN data + z ELSE data
  <2>1. sign_extend(data, index)
           = IF Shr(data, index - 1) # 0
             THEN (data & Wrap(Shl(1, index) - 1)) | Shl(Wrap(Shl(1, W - index) - 1), index)
             ELSE data & Wrap(Shl(1, index) - 1)
    BY DEF sign_extend
  <2> HIDE DEF p, d, z
  <2> QED BY <1>6, <1>7, <1>8, <1>9, <1>10, <2>1
<1> QED BY <1>5, <1>11, <1>12

(* Quotients by a divisor of the bound.                                    *)
LEMMA DivLess ==
    ASSUME NEW x \in Nat, NEW p \in Nat, p >= 1, NEW d \in Nat
    PROVE  x \div p \in Nat /\ (x \div p < d <=> x < p * d)
<1> DEFINE q == x \div p
           r == x % p
<1>1. q \in Nat /\ r \in 0 .. (p - 1) /\ x = q * p + r
  <2>1. x \in Int /\ x >= 0
    OBVIOUS
  <2> QED BY <2>1, DivMod
<1> HIDE DEF q, r
<1>2. q * p \in Nat /\ p * d \in Nat
  BY <1>1
<1>3. ASSUME q < d PROVE x < p * d
  <2>1. q * p <= (d - 1) * p
    BY <1>1, <1>3
  <2>2. (d - 1) * p = p * d - p
    OBVIOUS
  <2> QED BY <1>1, <1>2, <2>1, <2>2
<1>4. ASSUME ~ (q < d) PROVE ~ (x < p * d)
  <2>1. q * p >= p * d
    BY <1>1, <1>4
  <2> QED BY <1>1, <1>2, <2>1
<1> QED BY <1>1, <1>3, <1>4 DEF q

LEMMA Complement ==
    ASSUME NEW s \in 1 .. (W - 1), NEW e, e = W - s
    PROVE  /\ e \in 1 .. (W - 1) /\ e \in 0 .. 32 /\ s \in 0 .. 32 /\ s + e = W /\ s + e <= 32
           /\ e - 1 \in 0 .. 32 /\ s + (e - 1) = W - 1 /\ s + (e - 1) <= 32
BY Width

(* Shifting right and extending the sign is division by a power of two.    *)
LEMMA ArithmeticShift ==
    ASSUME NEW x \in Word, NEW n \in Int, NEW s, s = n % W, s # 0,
           NEW index \in Int, index % W = W - s
    PROVE  sign_extend(Shr(x, n), index) = Wrap(Signed(x) \div P(s))
<1> DEFINE e == W - s
           p == P(s)
           d == P(e)
           c == P(e - 1)
           z == x \div p
           M == P(W)
<1>1. s \in 1 .. (W - 1)
  <2>1. s \in 0 .. (W - 1)
    BY ModWidth
  <2>2. \A m \in 0 .. (W - 1) : m # 0 => m \in 1 .. (W - 1)
    BY Width
  <2> QED BY <2>1, <2>2
<1>2. e \in 1 .. (W - 1) /\ e \in 0 .. 32 /\ s \in 0 .. 32 /\ s + e = W /\ s + e <= 32
        /\ e - 1 \in 0 .. 32 /\ s + (e - 1) = W - 1 /\ s + (e - 1) <= 32
  BY <1>1, Complement
<1>3. p \in Nat /\ p >= 1 /\ d \in Nat /\ d >= 1 /\ c \in Nat /\ M = p * d /\ P(W - 1) = p * c
        /\ M \in Nat /\ M >= 1
  <2> DEFINE j == e - 1
  <2>1. j \in 0 .. 32 /\ s + j = W - 1 /\ s + j <= 32
    BY <1>2
  <2> HIDE DEF e, j
  <2>2. P(s + e) = P(s) * P(e)
    BY <1>2, PowerSum
  <2>3. P(s + j) = P(s) * P(j)
    BY <1>2, <2>1, PowerSum
  <2>4. P(j) \in Nat /\ P(s) \in Nat /\ P(s) >= 1 /\ P(e) \in Nat /\ P(e) >= 1
    BY <1>2, <2>1, Powers
  <2> QED BY <1>2, <2>1, <2>2, <2>3, <2>4, WordSize DEF j
<1>4. x \in Nat /\ x < M /\ x \in Int
  BY WordNat
<1>5. Shr(x, n) = z
  BY Words
<1> HIDE DEF p, c, M
<1>6. z \in Nat /\ z < d /\ (z < c <=> x < P(W - 1))
  <2> HIDE DEF z, d
  <2> QED BY <1>3, <1>4, DivLess DEF z
<1>7. sign_extend(z, index) = IF z < c THEN z ELSE z + (M - d)
  <2>1. z \in 0 .. (P(e) - 1)
    BY <1>3, <1>6
  <2> HIDE DEF e, z, d
  <2>2. sign_extend(z, index) = IF z < P(e - 1) THEN z ELSE z + (P(W) - P(e))
    BY <1>2, <2>1, sign_extendIs DEF e
  <2> QED BY <2>2 DEF c, d, M
<1>8. Signed(x) = IF x < P(W - 1) THEN x ELSE x - M
  BY Words DEF M
<1>9. Wrap(Signed(x) \div p) = IF z < c THEN z ELSE z + (M - d)
  <2> DEFINE r == x % p
  <2>1. x = z * p + r /\ r \in 0 .. (p - 1)
    BY <1>3, <1>4, DivMod
  <2> HIDE DEF e, d, r
  <2>2. M >= d
    <3>1. p * d >= d
      BY <1>3
    <3> QED BY <1>3, <3>1
  <2>3. CASE z < c
    <3>1. Signed(x) = x
      BY <1>6, <1>8, <2>3
    <3>2. z \in Word
      <4> HIDE DEF z
      <4>1. z < M
        BY <1>3, <1>6, <2>2
      <4> QED BY <1>6, <4>1, BelowWord DEF M
    <3>3. Wrap(z) = z
      BY <3>2, WrapSmall
    <3> QED BY <2>3, <3>1, <3>3
  <2>4. CASE ~ (z < c)
    <3> DEFINE y == x - M
               t == z - d
    <3>1. Signed(x) = y
      BY <1>6, <1>8, <2>4
    <3>2. y \in Int /\ t \in Int /\ y = t * p + r
      <4> HIDE DEF z
      <4>1. (z - d) * p = z * p - p * d /\ z * p \in Int /\ p * d \in Int
        BY <1>3, <1>6
      <4> QED BY <1>3, <1>4, <1>6, <2>1, <4>1
    <3> HIDE DEF y
    <3>3. y \div p = t
      <4> HIDE DEF t
      <4> QED BY <1>3, <2>1, <3>2, DivModIs
    <3>4. Wrap(t) = t + M
      <4> DEFINE a == -1
                 b == t + M
      <4> HIDE DEF z
      <4>1. a \in Int /\ b \in 0 .. (M - 1) /\ t = a * M + b
        BY <1>3, <1>6, <2>2
      <4> HIDE DEF a, b, t
      <4>2. t % M = b
        BY <1>3, <3>2, <4>1, DivModIs
      <4>3. Wrap(t) = t % M
        BY Words DEF M
      <4> QED BY <4>2, <4>3 DEF b
    <3>5. t + M = z + (M - d)
      <4> HIDE DEF z
      <4> QED BY <1>3, <1>6
    <3> HIDE DEF t
    <3> QED BY <2>4, <3>1, <3>3, <3>4, <3>5
  <2> QED BY <2>3, <2>4
<1> QED BY <1>5, <1>7, <1>9 DEF p

LEMMA ShiftIndex ==
    ASSUME NEW n \in Int, (n % W) # 0
    PROVE  (W - n) % W = W - (n % W) /\ Wrap(W - n) % W = W - (n % W)
<1>1. Wrap(W - n) = (W - n) % P(W)
  BY Words
<1>2. CASE W = 4
  <2>1. P(W) = 16
    BY <1>2 DEF P
  <2> QED BY <1>1, <1>2, <2>1
<1>3. CASE W = 8
  <2>1. P(W) = 256
    BY <1>3 DEF P
  <2> QED BY <1>1, <1>3, <2>1
<1>4. CASE W = 16
  <2>1. P(W) = 65536
    BY <1>4 DEF P
  <2> QED BY <1>1, <1>4, <2>1
<1>5. CASE W = 32
  <2>1. P(W) = 4294967296
    BY <1>5 DEF P
  <2> QED BY <1>1, <1>5, <2>1
<1> QED BY <1>2, <1>3, <1>4, <1>5, MipsAssumption DEF W

LEMMA CountIs ==
    ASSUME NEW x \in Word, NEW val, val = LeadingOnes[x]
    PROVE  /\ val \in 0 .. W
           /\ x >= 2^W - 2^(W - val)
           /\ val < W => x < 2^W - 2^(W - val - 1)
<1>1. val \in 0 .. W /\ Leads(val, P(W) - x)
  BY LeadingOnesLeads
<1>2. x \in Nat /\ P(W) \in Nat
  BY WordNat, WordSize
<1> DEFINE a == W - val
           b == W - val - 1
<1>3. a \in 0 .. 32 /\ (val < W => b \in 0 .. 32)
  BY <1>1, Width
<1>4. P(W) - x <= P(a) /\ (val < W => P(W) - x > P(b))
  BY <1>1 DEF Leads
<1> HIDE DEF a, b
<1>5. P(a) \in Nat /\ (val < W => P(b) \in Nat)
  BY <1>3, Powers
<1>6. x >= P(W) - P(a) /\ (val < W => x < P(W) - P(b))
  BY <1>2, <1>4, <1>5
<1> QED BY <1>1, <1>6 DEF a, b, P

LEMMA ShiftsStep ==
    ASSUME RegisterFile, ShiftsAndCounts, inner_step
    PROVE  ShiftsAndCounts'
<1> DEFINE Ops == {"sra", "srav", "clo", "clz"}
<1>1. CASE FetchUnaligned
  BY <1>1 DEF FetchUnaligned, Refuse, ShiftsAndCounts, Flip, Wrap, Signed
<1>2. ASSUME NEW i \in Instr, Executing(i), i.op \notin Ops
      PROVE  ShiftsAndCounts'
  BY <1>2, ExecutingIs DEF ShiftsAndCounts
<1>3. ASSUME NEW i \in Instr, Executing(i), Alu(i), i.op \in Ops PROVE ShiftsAndCounts'
  <2> DEFINE rs == registers[i.rs]
             rt == registers[i.rt]
             val == execute_alu(i, rs, rt)
             n == i.imm
  <2>1. rs \in Word /\ rt \in Word /\ i.rd \in Reg /\ n \in Int
    BY Operands
  <2>2. last'.op = i.op /\ last'.imm = n /\ last'.rd = i.rd /\ last'.rs = rs /\ last'.rt = rt
    BY <1>3, ExecutingIs DEF LoadOps
  <2>3. i.rd # 0 => registers'[i.rd] = val
    <3>1. WriteReg(i.rd, val)
      BY <1>3 DEF Alu, handle_rd
    <3> HIDE DEF val
    <3> QED BY <2>1, <3>1 DEF WriteReg, RegisterFile
  <2>4. /\ i.op = "sra"  => val = sign_extend(Shr(rt, n), W - n)
        /\ i.op = "srav" => val = sign_extend(Shr(rt, rs), Wrap(W - rs))
        /\ i.op = "clz"  => val = LeadingOnes[Flip(rs)]
        /\ i.op = "clo"  => val = LeadingOnes[rs]
    <3> HIDE DEF rs, rt
    <3>1. i.op \in Ops => Fun(i.op) = i.op
      BY DEF Fun
    <3> QED BY <1>3, <3>1, Zenon DEF execute_alu
  <2> HIDE DEF rs, rt, val, n
  <2>5. rs \in Int /\ W - n \in Int /\ W - rs \in Int /\ Wrap(W - rs) \in Int
    <3>1. rs \in Int
      BY <2>1, WordNat
    <3>2. W - n \in Int /\ W - rs \in Int
      BY <2>1, <3>1, Width
    <3>3. Wrap(W - rs) \in Int
      BY <3>2, WrapType, WordNat
    <3> QED BY <3>1, <3>2, <3>3
  <2>6. ASSUME i.op = "sra", (n % W) # 0 PROVE val = Wrap(Signed(rt) \div 2^(n % W))
    <3>1. (W - n) % W = W - (n % W)
      BY <2>1, <2>6, ShiftIndex
    <3>2. val = Wrap(Signed(rt) \div P(n % W))
      BY <2>1, <2>4, <2>5, <2>6, <3>1, ArithmeticShift
    <3> QED BY <3>2 DEF P
  <2>7. ASSUME i.op = "srav", (rs % W) # 0 PROVE val = Wrap(Signed(rt) \div 2^(rs % W))
    <3>1. Wrap(W - rs) % W = W - (rs % W)
      BY <2>5, <2>7, ShiftIndex
    <3>2. val = Wrap(Signed(rt) \div P(rs % W))
      BY <2>1, <2>4, <2>5, <2>7, <3>1, ArithmeticShift
    <3> QED BY <3>2 DEF P
  <2>8. ASSUME i.op \in {"clo", "clz"}, NEW x, x = IF i.op = "clz" THEN Flip(rs) ELSE rs
        PROVE  /\ val \in 0 .. W
               /\ x >= 2^W - 2^(W - val)
               /\ val < W => x < 2^W - 2^(W - val - 1)
    <3>1. x \in Word /\ val = LeadingOnes[x]
      BY <2>1, <2>4, <2>8, FlipType
    <3> QED BY <3>1, CountIs
  <2>9. CASE i.op \in {"sra", "srav"}
    BY <2>2, <2>3, <2>6, <2>7, <2>9 DEF ShiftsAndCounts
  <2>10. CASE i.op \in {"clo", "clz"}
    BY <2>2, <2>3, <2>8, <2>10 DEF ShiftsAndCounts
  <2> QED BY <1>3, <2>9, <2>10
<1>4. ASSUME NEW i \in Instr, Executing(i), Load(i) \/ Store(i) \/ HiLo(i) PROVE ShiftsAndCounts'
  <2>1. i.op \notin Ops
    BY <1>4 DEF Load, Store, HiLo, LoadOps
  <2> HIDE DEF Ops
  <2> QED BY <1>2, <1>4, <2>1
<1>5. ASSUME NEW i \in Instr, Executing(i),
             \/ Unknown(i) \/ Jump(i) \/ JumpRegister(i)
             \/ Branch(i) \/ AluImmediate(i) \/ Move(i)
      PROVE  ShiftsAndCounts'
  <2>1. i.op \notin Ops
    BY <1>5, OtherOps DEF AluOps
  <2> HIDE DEF Ops
  <2> QED BY <1>2, <1>5, <2>1
<1> HIDE DEF Ops
<1> QED BY <1>1, <1>2, <1>3, <1>4, <1>5, StepCases

(* sra and srav divide by a power of two, rounding down, and clo and clz   *)
(* count leading ones and zeros (execute, sign_extend), for every word and *)
(* every shift amount but zero.                                            *)
THEOREM ShiftsCorrect == Spec => []ShiftsAndCounts
<1>1. Init => ShiftsAndCounts
  BY DEF Init, NoInstr, ShiftsAndCounts
<1>2. RegisterFile /\ ShiftsAndCounts /\ [inner_step]_vars => ShiftsAndCounts'
  <2>1. ASSUME ShiftsAndCounts, UNCHANGED vars PROVE ShiftsAndCounts'
    BY <2>1 DEF vars, ShiftsAndCounts, Flip, Wrap, Signed
  <2> QED BY <2>1, ShiftsStep
<1> QED BY <1>1, <1>2, RegistersCorrect, PTL DEF Spec

-----------------------------------------------------------------------------
(* The four bytes of a word, most significant first.                       *)

Octet == 0 .. (P(B) - 1)
Byte(x, j) == (x \div P(B * (3 - j))) % P(B)
Join(a, b, c, d) == d + P(B) * (c + P(B) * (b + P(B) * a))

LEMMA Horner ==
    ASSUME NEW p \in Nat, p >= 1, NEW d \in 0 .. (p - 1), NEW n \in Nat, NEW y \in 0 .. (n - 1)
    PROVE  /\ d + p * y \in 0 .. (p * n - 1)
           /\ (d + p * y) \div p = y /\ (d + p * y) % p = d
<1> DEFINE x == d + p * y
<1>1. p * y \in Nat /\ x \in Int /\ x = y * p + d
  OBVIOUS
<1>2. p * y <= p * (n - 1)
  OBVIOUS
<1>3. p * (n - 1) = p * n - p /\ p * n \in Int
  OBVIOUS
<1>4. x \in 0 .. (p * n - 1)
  BY <1>1, <1>2, <1>3
<1> HIDE DEF x
<1>5. x \div p = y /\ x % p = d
  BY <1>1, DivModIs
<1> QED BY <1>4, <1>5 DEF x

LEMMA BytePower == /\ P(B * (3 - 3)) = 1 /\ P(B * (3 - 2)) = P(B)
                   /\ P(B * (3 - 1)) = P(B) * P(B) /\ P(B * (3 - 0)) = P(B) * (P(B) * P(B))
                   /\ P(W) = P(B) * (P(B) * (P(B) * P(B)))
<1>1. B * (3 - 3) = 0 /\ B * (3 - 2) = B /\ B * (3 - 1) = 2 * B /\ B * (3 - 0) = 3 * B
  BY Width
<1> QED BY <1>1, ByteProducts, PowerZero

(* Taking a word apart and putting it together.                            *)
LEMMA JoinIs ==
    ASSUME NEW a \in Octet, NEW b \in Octet, NEW c \in Octet, NEW d \in Octet,
           NEW x, x = Join(a, b, c, d)
    PROVE  /\ x \in Word
           /\ Byte(x, 0) = a /\ Byte(x, 1) = b /\ Byte(x, 2) = c /\ Byte(x, 3) = d
           /\ x \div P(B) = Join(0, a, b, c)
           /\ x \div (P(B) * P(B)) = Join(0, 0, a, b)
           /\ x \div (P(B) * (P(B) * P(B))) = Join(0, 0, 0, a)
<1> DEFINE p == P(B)
           p2 == p * p
           p3 == p * p2
           p4 == p * p3
           y1 == b + p * a
           y2 == c + p * y1
<1>1. p \in Nat /\ p >= 1 /\ p >= 2
  BY BytePowers
<1>2. a \in 0 .. (p - 1) /\ b \in 0 .. (p - 1) /\ c \in 0 .. (p - 1) /\ d \in 0 .. (p - 1)
  BY DEF Octet
<1>3. x = d + p * y2
  BY DEF Join
<1>4. P(W) = p4 /\ P(B * (3 - 3)) = 1 /\ P(B * (3 - 2)) = p
         /\ P(B * (3 - 1)) = p2 /\ P(B * (3 - 0)) = p3
  BY BytePower
<1>5. /\ Join(0, a, b, c) = c + p * (b + p * (a + p * 0))
      /\ Join(0, 0, a, b) = b + p * (a + p * (0 + p * 0))
      /\ Join(0, 0, 0, a) = a + p * (0 + p * (0 + p * 0))
  BY DEF Join
<1> HIDE DEF p
<1>6. p * 0 = 0 /\ a + 0 = a /\ 0 + 0 = 0
  BY <1>1, <1>2
<1>7. p2 \in Nat /\ p3 \in Nat /\ p4 \in Nat /\ p2 >= 1 /\ p3 >= 1
  <2>1. p2 \in Nat /\ p2 >= 1
    BY <1>1
  <2> HIDE DEF p2
  <2>2. p3 \in Nat /\ p3 >= 1
    BY <1>1, <2>1
  <2> HIDE DEF p3
  <2>3. p4 \in Nat
    BY <1>1, <2>2
  <2> QED BY <2>1, <2>2, <2>3
<1>8. y1 \in 0 .. (p2 - 1) /\ y1 \div p = a /\ y1 % p = b
  BY <1>1, <1>2, Horner
<1> HIDE DEF p2, y1
<1>9. y2 \in 0 .. (p3 - 1) /\ y2 \div p = y1 /\ y2 % p = c
  BY <1>1, <1>2, <1>7, <1>8, Horner
<1> HIDE DEF p3, y2
<1>10. x \in 0 .. (p4 - 1) /\ x \div p = y2 /\ x % p = d
  BY <1>1, <1>2, <1>3, <1>7, <1>9, Horner
<1> HIDE DEF p4
<1>11. x \in Nat /\ x \in Word /\ x \in Int /\ y2 \in Int /\ y1 \in Int
  <2>1. x \in Nat /\ x < P(W)
    BY <1>4, <1>7, <1>10
  <2> QED BY <1>7, <1>8, <1>9, <2>1, BelowWord
<1>12. x \div p2 = y1
  <2>1. (x \div p) \div p = x \div (p * p)
    BY <1>1, <1>11, DivDiv
  <2> QED BY <1>9, <1>10, <2>1 DEF p2
<1>13. x \div p3 = a
  <2>1. (x \div p) \div p2 = x \div (p * p2)
    BY <1>1, <1>7, <1>11, DivDiv
  <2>2. (y2 \div p) \div p = y2 \div (p * p)
    BY <1>1, <1>11, DivDiv
  <2> QED BY <1>8, <1>9, <1>10, <2>1, <2>2 DEF p2, p3
<1>14. a % p = a /\ x \div 1 = x
  <2>1. a % p = a
    <3> DEFINE z == 0
    <3>1. z \in Int /\ a \in Int /\ a = z * p + a
      BY <1>1, <1>2
    <3> HIDE DEF z
    <3> QED BY <1>1, <1>2, <3>1, DivModIs
  <2>2. x \div 1 = x
    BY <1>11
  <2> QED BY <2>1, <2>2
<1>15. /\ Byte(x, 0) = a /\ Byte(x, 1) = b /\ Byte(x, 2) = c /\ Byte(x, 3) = d
  <2>1. /\ Byte(x, 0) = (x \div p3) % p /\ Byte(x, 1) = (x \div p2) % p
        /\ Byte(x, 2) = (x \div p) % p /\ Byte(x, 3) = (x \div 1) % p
    BY <1>4 DEF Byte, p
  <2> QED BY <1>8, <1>9, <1>10, <1>12, <1>13, <1>14, <2>1
<1>16. /\ Join(0, a, b, c) = y2 /\ Join(0, 0, a, b) = y1 /\ Join(0, 0, 0, a) = a
  BY <1>5, <1>6 DEF y1, y2
<1> QED BY <1>10, <1>11, <1>12, <1>13, <1>15, <1>16 DEF p, p2, p3

LEMMA ByteType ==
    ASSUME NEW x \in Word, NEW j \in 0 .. 3
    PROVE  Byte(x, j) \in Octet
<1> DEFINE p == P(B)
           e == P(B * (3 - j))
           q == x \div e
<1>1. p \in Nat /\ p >= 1
  BY BytePowers
<1>2. x \in Nat
  BY WordNat
<1>3. e \in Nat /\ e >= 1
  <2> DEFINE n == B * (3 - j)
  <2>1. n \in 0 .. 32
    <3>1. j = 0 \/ j = 1 \/ j = 2 \/ j = 3
      OBVIOUS
    <3> QED BY <3>1, Width
  <2> HIDE DEF n
  <2>2. P(n) \in Nat /\ P(n) >= 1
    BY <2>1, Powers
  <2> QED BY <2>2 DEF n
<1> HIDE DEF e
<1>4. q \in Int
  BY <1>2, <1>3, DivMod
<1> HIDE DEF p, q
<1>5. q % p \in 0 .. (p - 1)
  BY <1>1, <1>4, DivMod
<1> QED BY <1>5 DEF Byte, Octet, p, q, e

LEMMA BytesJoin ==
    ASSUME NEW x \in Word
    PROVE  \E a \in Octet, b \in Octet, c \in Octet, d \in Octet : x = Join(a, b, c, d)
<1> DEFINE p == P(B)
           p2 == p * p
           p3 == p * p2
           q1 == x \div p
           d == x % p
           q2 == q1 \div p
           c == q1 % p
           a == q2 \div p
           b == q2 % p
<1>1. p \in Nat /\ p >= 1
  BY BytePowers
<1>2. x \in Nat /\ x \in Int /\ x < p * p3
  BY WordNat, BytePower
<1> HIDE DEF p
<1>3. p2 \in Nat /\ p3 \in Nat
  <2>1. p2 \in Nat
    BY <1>1
  <2> HIDE DEF p2
  <2>2. p3 \in Nat
    BY <1>1, <2>1
  <2> QED BY <2>1, <2>2
<1>4. q1 \in Nat /\ q1 \in Int /\ d \in 0 .. (p - 1) /\ x = q1 * p + d /\ q1 < p * p2
  <2>1. q1 < p3
    <3> HIDE DEF p3
    <3> QED BY <1>1, <1>2, <1>3, DivLess
  <2>2. d \in 0 .. (p - 1) /\ x = q1 * p + d /\ q1 \in Int
    BY <1>1, <1>2, DivMod
  <2>3. q1 \in Nat
    BY <1>1, <1>2, DivLess
  <2> QED BY <2>1, <2>2, <2>3
<1> HIDE DEF q1, d
<1>5. q2 \in Nat /\ q2 \in Int /\ c \in 0 .. (p - 1) /\ q1 = q2 * p + c /\ q2 < p * p
  <2>1. q2 < p2
    <3> HIDE DEF p2
    <3> QED BY <1>1, <1>3, <1>4, DivLess
  <2>2. c \in 0 .. (p - 1) /\ q1 = q2 * p + c /\ q2 \in Int
    BY <1>1, <1>4, DivMod
  <2>3. q2 \in Nat
    BY <1>1, <1>4, DivLess
  <2> QED BY <2>1, <2>2, <2>3
<1> HIDE DEF q2, c
<1>6. a \in 0 .. (p - 1) /\ b \in 0 .. (p - 1) /\ q2 = a * p + b
  <2>1. a < p /\ a \in Nat
    BY <1>1, <1>5, DivLess
  <2>2. b \in 0 .. (p - 1) /\ q2 = a * p + b
    BY <1>1, <1>5, DivMod
  <2> QED BY <1>1, <2>1, <2>2
<1> HIDE DEF a, b
<1>7. x = d + p * (c + p * (b + p * a))
  <2>1. q2 = b + p * a
    <3>1. a * p = p * a /\ p * a \in Int
      BY <1>1, <1>6
    <3> QED BY <1>6, <3>1
  <2>2. q1 = c + p * q2
    <3>1. q2 * p = p * q2 /\ p * q2 \in Int
      BY <1>1, <1>5
    <3> QED BY <1>5, <3>1
  <2>3. x = d + p * q1
    <3>1. q1 * p = p * q1 /\ p * q1 \in Int
      BY <1>1, <1>4
    <3> QED BY <1>4, <3>1
  <2> QED BY <2>1, <2>2, <2>3
<1>8. a \in Octet /\ b \in Octet /\ c \in Octet /\ d \in Octet /\ x = Join(a, b, c, d)
  BY <1>4, <1>5, <1>6, <1>7 DEF Octet, Join, p
<1> QED BY <1>8

LEMMA WordBytes ==
    ASSUME NEW x \in Word
    PROVE  /\ Byte(x, 0) \in Octet /\ Byte(x, 1) \in Octet
           /\ Byte(x, 2) \in Octet /\ Byte(x, 3) \in Octet
           /\ x = Join(Byte(x, 0), Byte(x, 1), Byte(x, 2), Byte(x, 3))
<1>1. PICK a \in Octet, b \in Octet, c \in Octet, d \in Octet : x = Join(a, b, c, d)
  BY BytesJoin
<1>2. Byte(x, 0) = a /\ Byte(x, 1) = b /\ Byte(x, 2) = c /\ Byte(x, 3) = d
  BY <1>1, JoinIs
<1> QED BY <1>1, <1>2

LEMMA Positions == \A j \in 0 .. 3 : j = 0 \/ j = 1 \/ j = 2 \/ j = 3
OBVIOUS

(* The bitwise operators work byte by byte.                                *)
LEMMA LowBytes ==
    ASSUME NEW t \in Table, NEW x \in Word, NEW y \in Word, NEW z, z = Low(t, x, y)[W]
    PROVE  \A j \in 0 .. 3 : Byte(z, j) = Low(t, Byte(x, j), Byte(y, j))[B]
<1> DEFINE p == P(B)
<1>1. PICK a \in Octet, b \in Octet, c \in Octet, d \in Octet : x = Join(a, b, c, d)
  BY BytesJoin
<1>2. PICK e \in Octet, f \in Octet, g \in Octet, h \in Octet : y = Join(e, f, g, h)
  BY BytesJoin
<1> DEFINE x1 == b + p * a
           x2 == c + p * x1
           y1 == f + p * e
           y2 == g + p * y1
           w == 3 * B
           v == 2 * B
<1>3. x = d + p * x2 /\ y = h + p * y2
  BY <1>1, <1>2 DEF Join
<1>4. /\ p = P(B) /\ p \in Nat
      /\ a \in 0 .. (P(B) - 1) /\ b \in 0 .. (P(B) - 1) /\ c \in 0 .. (P(B) - 1)
      /\ d \in 0 .. (P(B) - 1) /\ e \in 0 .. (P(B) - 1) /\ f \in 0 .. (P(B) - 1)
      /\ g \in 0 .. (P(B) - 1) /\ h \in 0 .. (P(B) - 1)
  BY BytePowers DEF Octet
<1>5. /\ W = B + w /\ w = B + v /\ v = B + B
      /\ B + w <= W /\ B + v <= W /\ B + B <= W
      /\ B \in 0 .. W /\ w \in 0 .. W /\ v \in 0 .. W
  BY Width
<1> HIDE DEF p, w, v
<1>6. a \in Nat /\ e \in Nat /\ x1 \in Nat /\ y1 \in Nat /\ x2 \in Nat /\ y2 \in Nat
  <2>1. /\ a \in Nat /\ b \in Nat /\ c \in Nat /\ d \in Nat
        /\ e \in Nat /\ f \in Nat /\ g \in Nat /\ h \in Nat
    BY <1>4
  <2>2. x1 \in Nat /\ y1 \in Nat
    BY <1>4, <2>1
  <2> HIDE DEF x1, y1
  <2>3. x2 \in Nat /\ y2 \in Nat
    BY <1>4, <2>1, <2>2
  <2> QED BY <2>1, <2>2, <2>3
<1>7. x1 = b + p * a /\ x2 = c + p * x1 /\ y1 = f + p * e /\ y2 = g + p * y1
  OBVIOUS
<1> HIDE DEF x1, x2, y1, y2
<1>8. Low(t, x, y)[W] = Low(t, d, h)[B] + p * Low(t, x2, y2)[w]
  <2>1. /\ t \in Table /\ B \in 0 .. W /\ w \in 0 .. W /\ B + w <= W /\ W = B + w
        /\ d \in 0 .. (P(B) - 1) /\ h \in 0 .. (P(B) - 1) /\ x2 \in Nat /\ y2 \in Nat
        /\ p = P(B) /\ x = d + p * x2 /\ y = h + p * y2
    BY <1>3, <1>4, <1>5, <1>6, <1>7
  <2> QED BY <2>1, LowJoin
<1>9. Low(t, x2, y2)[w] = Low(t, c, g)[B] + p * Low(t, x1, y1)[v]
  <2>1. /\ t \in Table /\ B \in 0 .. W /\ v \in 0 .. W /\ B + v <= W /\ w = B + v
        /\ c \in 0 .. (P(B) - 1) /\ g \in 0 .. (P(B) - 1) /\ x1 \in Nat /\ y1 \in Nat
        /\ p = P(B) /\ x2 = c + p * x1 /\ y2 = g + p * y1
    BY <1>3, <1>4, <1>5, <1>6, <1>7
  <2> QED BY <2>1, LowJoin
<1>10. Low(t, x1, y1)[v] = Low(t, b, f)[B] + p * Low(t, a, e)[B]
  <2>1. /\ t \in Table /\ B \in 0 .. W /\ B \in 0 .. W /\ B + B <= W /\ v = B + B
        /\ b \in 0 .. (P(B) - 1) /\ f \in 0 .. (P(B) - 1) /\ a \in Nat /\ e \in Nat
        /\ p = P(B) /\ x1 = b + p * a /\ y1 = f + p * e
    BY <1>3, <1>4, <1>5, <1>6, <1>7
  <2> QED BY <2>1, LowJoin
<1> DEFINE l0 == Low(t, a, e)[B]
           l1 == Low(t, b, f)[B]
           l2 == Low(t, c, g)[B]
           l3 == Low(t, d, h)[B]
<1>11. l0 \in Octet /\ l1 \in Octet /\ l2 \in Octet /\ l3 \in Octet
  <2>1. /\ a \in Nat /\ b \in Nat /\ c \in Nat /\ d \in Nat
        /\ e \in Nat /\ f \in Nat /\ g \in Nat /\ h \in Nat /\ B \in 0 .. W
    BY <1>4, <1>5
  <2> QED BY <2>1, LowType DEF Octet
<1>12. z = Join(l0, l1, l2, l3)
  BY <1>8, <1>9, <1>10 DEF Join, p
<1> HIDE DEF l0, l1, l2, l3
<1>13. Byte(z, 0) = l0 /\ Byte(z, 1) = l1 /\ Byte(z, 2) = l2 /\ Byte(z, 3) = l3
  BY <1>11, <1>12, JoinIs
<1>14. Byte(x, 0) = a /\ Byte(x, 1) = b /\ Byte(x, 2) = c /\ Byte(x, 3) = d
  BY <1>1, JoinIs
<1>15. Byte(y, 0) = e /\ Byte(y, 1) = f /\ Byte(y, 2) = g /\ Byte(y, 3) = h
  BY <1>2, JoinIs
<1> TAKE j \in 0 .. 3
<1>16. CASE j = 0
  BY <1>13, <1>14, <1>15, <1>16 DEF l0
<1>17. CASE j = 1
  BY <1>13, <1>14, <1>15, <1>17 DEF l1
<1>18. CASE j = 2
  BY <1>13, <1>14, <1>15, <1>18 DEF l2
<1>19. CASE j = 3
  BY <1>13, <1>14, <1>15, <1>19 DEF l3
<1> QED BY <1>16, <1>17, <1>18, <1>19, Positions

(* Bytes masked out, masked in and put together.                           *)
LEMMA ByteOps ==
    ASSUME NEW x \in Word, NEW y \in Word, NEW j \in 0 .. 3
    PROVE  /\ Byte(y, j) = 0 => Byte(x & y, j) = 0 /\ Byte(x | y, j) = Byte(x, j)
           /\ Byte(y, j) = P(B) - 1 => Byte(x & y, j) = Byte(x, j)
           /\ Byte(x, j) = 0 => Byte(x | y, j) = Byte(y, j)
           /\ Byte(x, j) = P(B) - 1 => Byte(x ^^ y, j) = P(B) - 1 - Byte(y, j)
<1> DEFINE a == Byte(x, j)
           b == Byte(y, j)
<1>1. a \in 0 .. (P(B) - 1) /\ b \in 0 .. (P(B) - 1) /\ B \in 0 .. W
  BY ByteType, Width DEF Octet
<1>2. /\ Byte(x & y, j) = Low(AndTable, a, b)[B]
      /\ Byte(x | y, j) = Low(OrTable, a, b)[B]
      /\ Byte(x ^^ y, j) = Low(XorTable, a, b)[B]
  <2> DEFINE u == x & y
             v == x | y
             w == x ^^ y
  <2>1. u = Low(AndTable, x, y)[W] /\ v = Low(OrTable, x, y)[W] /\ w = Low(XorTable, x, y)[W]
    BY DEF &, |, ^^
  <2> HIDE DEF u, v, w
  <2>2. Byte(u, j) = Low(AndTable, a, b)[B]
    BY <2>1, Tables, LowBytes
  <2>3. Byte(v, j) = Low(OrTable, a, b)[B]
    BY <2>1, Tables, LowBytes
  <2>4. Byte(w, j) = Low(XorTable, a, b)[B]
    BY <2>1, Tables, LowBytes
  <2> QED BY <2>2, <2>3, <2>4 DEF u, v, w
<1> HIDE DEF a, b
<1>3. /\ Low(AndTable, a, 0)[B] = 0 /\ Low(AndTable, a, P(B) - 1)[B] = a
      /\ Low(OrTable, a, 0)[B] = a /\ Low(OrTable, 0, b)[B] = b
      /\ Low(XorTable, P(B) - 1, b)[B] = P(B) - 1 - b
  BY <1>1, LowMasks
<1> QED BY <1>2, <1>3 DEF a, b

LEMMA FlipBytes ==
    ASSUME NEW x \in Word, NEW j \in 0 .. 3
    PROVE  Byte(Flip(x), j) = P(B) - 1 - Byte(x, j)
<1> DEFINE p == P(B)
           y == Flip(x)
<1>1. PICK a \in Octet, b \in Octet, c \in Octet, d \in Octet : x = Join(a, b, c, d)
  BY BytesJoin
<1>2. p \in Nat /\ P(W) = p * (p * (p * p))
  BY BytePowers, BytePower
<1>3. a \in 0 .. (p - 1) /\ b \in 0 .. (p - 1) /\ c \in 0 .. (p - 1) /\ d \in 0 .. (p - 1)
  BY DEF Octet
<1>4. x = d + p * (c + p * (b + p * a)) /\ y = P(W) - 1 - x
  BY <1>1, Words DEF Join
<1> DEFINE e == p - 1 - a
           f == p - 1 - b
           g == p - 1 - c
           h == p - 1 - d
<1>5. e \in Octet /\ f \in Octet /\ g \in Octet /\ h \in Octet
  BY <1>2, <1>3 DEF Octet
<1>6. y = Join(e, f, g, h)
  <2> HIDE DEF p, y
  <2>1. p * (p * (p * p)) - 1 - (d + p * (c + p * (b + p * a)))
           = (p - 1 - d) + p * ((p - 1 - c) + p * ((p - 1 - b) + p * (p - 1 - a)))
    BY <1>2, <1>3
  <2> QED BY <1>2, <1>4, <2>1 DEF Join, p
<1> HIDE DEF y, e, f, g, h, p
<1>7. Byte(y, 0) = e /\ Byte(y, 1) = f /\ Byte(y, 2) = g /\ Byte(y, 3) = h
  BY <1>5, <1>6, JoinIs
<1>8. Byte(x, 0) = a /\ Byte(x, 1) = b /\ Byte(x, 2) = c /\ Byte(x, 3) = d
  BY <1>1, JoinIs
<1>9. CASE j = 0
  BY <1>7, <1>8, <1>9 DEF e, p, y
<1>10. CASE j = 1
  BY <1>7, <1>8, <1>10 DEF f, p, y
<1>11. CASE j = 2
  BY <1>7, <1>8, <1>11 DEF g, p, y
<1>12. CASE j = 3
  BY <1>7, <1>8, <1>12 DEF h, p, y
<1> QED BY <1>9, <1>10, <1>11, <1>12, Positions

LEMMA OctetEnds == 0 \in Octet /\ P(B) - 1 \in Octet
BY BytePowers DEF Octet

LEMMA ConstantBytes ==
    ASSUME NEW j \in 0 .. 3
    PROVE  /\ Byte(Ones, j) = P(B) - 1
           /\ Byte(ByteMask, j) = IF j = 3 THEN P(B) - 1 ELSE 0
           /\ Byte(HalfMask, j) = IF j >= 2 THEN P(B) - 1 ELSE 0
<1> DEFINE o == P(B) - 1
           p == P(B)
<1>1. o \in Octet /\ 0 \in Octet /\ p \in Nat
  BY OctetEnds, BytePowers
<1>2. ByteMask = Join(0, 0, 0, o)
  <2>1. Join(0, 0, 0, o) = o + p * (0 + p * (0 + p * 0))
    BY DEF Join
  <2>2. ByteMask = o
    BY Masks
  <2>3. o + p * (0 + p * (0 + p * 0)) = o
    <3> HIDE DEF p
    <3>1. p * 0 = 0 /\ 0 + 0 = 0 /\ o + 0 = o
      BY <1>1 DEF p
    <3> HIDE DEF o
    <3> QED BY <3>1
  <2> QED BY <2>1, <2>2, <2>3
<1>3. HalfMask = Join(0, 0, o, o)
  <2>1. Join(0, 0, o, o) = o + p * (o + p * (0 + p * 0))
    BY DEF Join
  <2>2. HalfMask = p * p - 1
    BY Masks, ByteProducts
  <2> HIDE DEF p
  <2>3. (p - 1) + p * ((p - 1) + p * (0 + p * 0)) = p * p - 1
    BY <1>1
  <2> QED BY <2>1, <2>2, <2>3 DEF p
<1>4. Ones = Join(o, o, o, o)
  <2>1. Join(o, o, o, o) = o + p * (o + p * (o + p * o))
    BY DEF Join
  <2>2. Ones = p * (p * (p * p)) - 1
    BY Words, BytePower
  <2> HIDE DEF p
  <2>3. (p - 1) + p * ((p - 1) + p * ((p - 1) + p * (p - 1))) = p * (p * (p * p)) - 1
    BY <1>1
  <2> QED BY <2>1, <2>2, <2>3 DEF p
<1> HIDE DEF o, p
<1>5. /\ Byte(Ones, 0) = o /\ Byte(Ones, 1) = o /\ Byte(Ones, 2) = o /\ Byte(Ones, 3) = o
  BY <1>1, <1>4, JoinIs
<1>6. /\ Byte(ByteMask, 0) = 0 /\ Byte(ByteMask, 1) = 0
      /\ Byte(ByteMask, 2) = 0 /\ Byte(ByteMask, 3) = o
  <2> DEFINE z == 0
  <2>1. z \in Octet /\ ByteMask = Join(z, z, z, o)
    BY <1>1, <1>2
  <2> HIDE DEF z
  <2>2. /\ Byte(ByteMask, 0) = z /\ Byte(ByteMask, 1) = z
        /\ Byte(ByteMask, 2) = z /\ Byte(ByteMask, 3) = o
    BY <1>1, <2>1, JoinIs
  <2> QED BY <2>2 DEF z
<1>7. /\ Byte(HalfMask, 0) = 0 /\ Byte(HalfMask, 1) = 0
      /\ Byte(HalfMask, 2) = o /\ Byte(HalfMask, 3) = o
  <2> DEFINE z == 0
  <2>1. z \in Octet /\ HalfMask = Join(z, z, o, o)
    BY <1>1, <1>3
  <2> HIDE DEF z
  <2>2. /\ Byte(HalfMask, 0) = z /\ Byte(HalfMask, 1) = z
        /\ Byte(HalfMask, 2) = o /\ Byte(HalfMask, 3) = o
    BY <1>1, <2>1, JoinIs
  <2> QED BY <2>2 DEF z
<1> QED BY <1>5, <1>6, <1>7, Positions DEF o

(* Shifts by whole bytes.                                                  *)
LEMMA ShiftPower ==
    /\ P((0 * B) % W) = 1 /\ P((1 * B) % W) = P(B) /\ P((2 * B) % W) = P(B) * P(B)
    /\ P((3 * B) % W) = P(B) * (P(B) * P(B))
<1>1. (0 * B) % W = 0 /\ (1 * B) % W = B /\ (2 * B) % W = 2 * B /\ (3 * B) % W = 3 * B
  <2>1. CASE B = 1 BY <2>1 DEF W
  <2>2. CASE B = 2 BY <2>2 DEF W
  <2>3. CASE B = 4 BY <2>3 DEF W
  <2>4. CASE B = 8 BY <2>4 DEF W
  <2> QED BY <2>1, <2>2, <2>3, <2>4, MipsAssumption
<1> QED BY <1>1, ByteProducts, PowerZero

LEMMA JoinBytes ==
    ASSUME NEW x, NEW a \in Octet, NEW b \in Octet, NEW c \in Octet, NEW d \in Octet,
           x = Join(a, b, c, d), NEW j \in 0 .. 3
    PROVE  Byte(x, j) = IF j = 0 THEN a ELSE IF j = 1 THEN b ELSE IF j = 2 THEN c ELSE d
BY JoinIs, Positions

LEMMA ShrBytes ==
    ASSUME NEW x \in Word, NEW m \in 0 .. 3, NEW j \in 0 .. 3
    PROVE  Byte(Shr(x, m * B), j) = IF j >= m THEN Byte(x, j - m) ELSE 0
<1>1. PICK a \in Octet, b \in Octet, c \in Octet, d \in Octet : x = Join(a, b, c, d)
  BY BytesJoin
<1> DEFINE z == 0
           y == Shr(x, m * B)
<1>2. z \in Octet
  BY OctetEnds
<1>3. y = x \div P((m * B) % W)
  BY Words
<1>4. Byte(x, 0) = a /\ Byte(x, 1) = b /\ Byte(x, 2) = c /\ Byte(x, 3) = d
  BY <1>1, JoinIs
<1>5. /\ x \div P(B) = Join(z, a, b, c)
      /\ x \div (P(B) * P(B)) = Join(z, z, a, b)
      /\ x \div (P(B) * (P(B) * P(B))) = Join(z, z, z, a)
  BY <1>1, JoinIs
<1>6. x \div 1 = x
  BY WordNat
<1> HIDE DEF y, z
<1>7. CASE m = 0
  <2>1. y = x
    BY <1>3, <1>6, <1>7, ShiftPower
  <2>2. j >= m /\ j - m = j
    BY <1>7
  <2> QED BY <2>1, <2>2 DEF y
<1>8. CASE m = 1
  <2>1. y = Join(z, a, b, c)
    BY <1>3, <1>5, <1>8, ShiftPower
  <2>2. Byte(y, j) = IF j = 0 THEN z ELSE IF j = 1 THEN a ELSE IF j = 2 THEN b ELSE c
    BY <1>2, <2>1, JoinBytes
  <2> QED BY <1>4, <1>8, <2>2, Positions DEF y, z
<1>9. CASE m = 2
  <2>1. y = Join(z, z, a, b)
    BY <1>3, <1>5, <1>9, ShiftPower
  <2>2. Byte(y, j) = IF j = 0 THEN z ELSE IF j = 1 THEN z ELSE IF j = 2 THEN a ELSE b
    BY <1>2, <2>1, JoinBytes
  <2> QED BY <1>4, <1>9, <2>2, Positions DEF y, z
<1>10. CASE m = 3
  <2>1. y = Join(z, z, z, a)
    BY <1>3, <1>5, <1>10, ShiftPower
  <2>2. Byte(y, j) = IF j = 0 THEN z ELSE IF j = 1 THEN z ELSE IF j = 2 THEN z ELSE a
    BY <1>2, <2>1, JoinBytes
  <2> QED BY <1>4, <1>10, <2>2, Positions DEF y, z
<1> QED BY <1>7, <1>8, <1>9, <1>10, Positions

LEMMA ShlBytes ==
    ASSUME NEW x \in Word, NEW m \in 0 .. 3, NEW j \in 0 .. 3
    PROVE  Byte(Shl(x, m * B), j) = IF j + m <= 3 THEN Byte(x, j + m) ELSE 0
<1>1. PICK a \in Octet, b \in Octet, c \in Octet, d \in Octet : x = Join(a, b, c, d)
  BY BytesJoin
<1> DEFINE z == 0
           y == Shl(x, m * B)
           p == P(B)
           M == P(W)
<1>2. z \in Octet
  BY OctetEnds
<1>3. y = (x * P((m * B) % W)) % M
  BY Words
<1>4. Byte(x, 0) = a /\ Byte(x, 1) = b /\ Byte(x, 2) = c /\ Byte(x, 3) = d
  BY <1>1, JoinIs
<1>5. /\ a \in Nat /\ b \in Nat /\ c \in Nat /\ d \in Nat /\ p \in Nat
      /\ M \in Nat /\ M >= 1 /\ M = p * (p * (p * p)) /\ x \in Nat
  BY BytePowers, BytePower, WordSize, WordNat DEF Octet
<1>6. x = d + p * (c + p * (b + p * a))
  BY <1>1 DEF Join
<1>7. ASSUME NEW w, NEW q \in Nat, NEW e \in Octet, NEW f \in Octet, NEW g \in Octet, NEW h \in Octet,
             w = q * M + Join(e, f, g, h)
      PROVE  w % M = Join(e, f, g, h)
  <2> DEFINE v == Join(e, f, g, h)
  <2>1. v \in Word
    BY JoinIs
  <2>2. v \in 0 .. (M - 1)
    BY <2>1, Words
  <2> HIDE DEF v, M
  <2>3. w \in Int /\ w = q * M + v
    BY <1>5, <1>7, <2>2 DEF v
  <2>4. w % M = v
    BY <1>5, <2>2, <2>3, DivModIs
  <2> QED BY <2>4 DEF v
<1> HIDE DEF y, z
<1>8. CASE m = 0
  <2>1. y = x
    <3>1. x * 1 = x
      BY <1>5
    <3>2. x % M = x
      BY WrapSmall, Words
    <3> QED BY <1>3, <1>8, <3>1, <3>2, ShiftPower
  <2>2. j + m <= 3 /\ j + m = j
    BY <1>8
  <2> QED BY <2>1, <2>2 DEF y
<1>9. CASE m = 1
  <2>1. y = (x * p) % M
    BY <1>3, <1>9, ShiftPower
  <2>2. x * p = a * M + Join(b, c, d, z)
    <3>1. Join(b, c, d, z) = 0 + p * (d + p * (c + p * b))
      BY DEF Join, z
    <3> HIDE DEF p, M
    <3>2. (d + p * (c + p * (b + p * a))) * p
             = a * (p * (p * (p * p))) + (0 + p * (d + p * (c + p * b)))
      BY <1>5
    <3> QED BY <1>5, <1>6, <3>1, <3>2
  <2>3. y = Join(b, c, d, z)
    <3> DEFINE w == x * p
    <3>1. a \in Nat /\ w = a * M + Join(b, c, d, z)
      BY <1>5, <2>2
    <3> HIDE DEF p, M, w
    <3>2. w % M = Join(b, c, d, z)
      BY <1>2, <1>7, <3>1
    <3> QED BY <2>1, <3>2 DEF w
  <2>4. Byte(y, j) = IF j = 0 THEN b ELSE IF j = 1 THEN c ELSE IF j = 2 THEN d ELSE z
    BY <1>2, <2>3, JoinBytes
  <2> QED BY <1>4, <1>9, <2>4, Positions DEF y, z
<1>10. CASE m = 2
  <2>1. y = (x * (p * p)) % M
    BY <1>3, <1>10, ShiftPower
  <2> DEFINE q == b + p * a
  <2>2. x * (p * p) = q * M + Join(c, d, z, z) /\ q \in Nat
    <3>1. Join(c, d, z, z) = 0 + p * (0 + p * (d + p * c))
      BY DEF Join, z
    <3> HIDE DEF p, M
    <3>2. (d + p * (c + p * (b + p * a))) * (p * p)
             = (b + p * a) * (p * (p * (p * p))) + (0 + p * (0 + p * (d + p * c)))
      BY <1>5
    <3>3. q \in Nat
      BY <1>5
    <3> QED BY <1>5, <1>6, <3>1, <3>2, <3>3
  <2>3. y = Join(c, d, z, z)
    <3> DEFINE w == x * (p * p)
    <3>1. q \in Nat /\ w = q * M + Join(c, d, z, z)
      BY <1>5, <2>2
    <3> HIDE DEF p, M, q, w
    <3>2. w % M = Join(c, d, z, z)
      BY <1>2, <1>7, <3>1
    <3> QED BY <2>1, <3>2 DEF w
  <2>4. Byte(y, j) = IF j = 0 THEN c ELSE IF j = 1 THEN d ELSE IF j = 2 THEN z ELSE z
    BY <1>2, <2>3, JoinBytes
  <2> QED BY <1>4, <1>10, <2>4, Positions DEF y, z
<1>11. CASE m = 3
  <2>1. y = (x * (p * (p * p))) % M
    BY <1>3, <1>11, ShiftPower
  <2> DEFINE q == c + p * (b + p * a)
  <2>2. x * (p * (p * p)) = q * M + Join(d, z, z, z) /\ q \in Nat
    <3>1. Join(d, z, z, z) = 0 + p * (0 + p * (0 + p * d))
      BY DEF Join, z
    <3> HIDE DEF p, M
    <3>2. (d + p * (c + p * (b + p * a))) * (p * (p * p))
             = (c + p * (b + p * a)) * (p * (p * (p * p))) + (0 + p * (0 + p * (0 + p * d)))
      BY <1>5
    <3>3. q \in Nat
      <4>1. b + p * a \in Nat
        BY <1>5
      <4> QED BY <1>5, <4>1
    <3> QED BY <1>5, <1>6, <3>1, <3>2, <3>3
  <2>3. y = Join(d, z, z, z)
    <3> DEFINE w == x * (p * (p * p))
    <3>1. q \in Nat /\ w = q * M + Join(d, z, z, z)
      BY <1>5, <2>2
    <3> HIDE DEF p, M, q, w
    <3>2. w % M = Join(d, z, z, z)
      BY <1>2, <1>7, <3>1
    <3> QED BY <2>1, <3>2 DEF w
  <2>4. Byte(y, j) = IF j = 0 THEN d ELSE IF j = 1 THEN z ELSE IF j = 2 THEN z ELSE z
    BY <1>2, <2>3, JoinBytes
  <2> QED BY <1>4, <1>11, <2>4, Positions DEF y, z
<1> QED BY <1>8, <1>9, <1>10, <1>11, Positions

-----------------------------------------------------------------------------
(* Loads and stores, byte by byte.                                         *)

LEMMA Merge ==
    ASSUME NEW x \in Word, NEW mask \in Word, NEW y \in Word, NEW j \in 0 .. 3,
           NEW r, r = (x & mask) | y
    PROVE  /\ r \in Word
           /\ Byte(mask, j) = 0 => Byte(r, j) = Byte(y, j)
           /\ Byte(mask, j) = P(B) - 1 /\ Byte(y, j) = 0 => Byte(r, j) = Byte(x, j)
<1> DEFINE u == x & mask
<1>1. x \in Nat /\ mask \in Nat /\ y \in Nat
  BY WordNat
<1>2. u \in Word
  BY <1>1, Bitwise
<1>3. u \in Nat
  BY <1>2, WordNat
<1>4. /\ Byte(mask, j) = 0 => Byte(u, j) = 0
      /\ Byte(mask, j) = P(B) - 1 => Byte(u, j) = Byte(x, j)
  BY ByteOps
<1> HIDE DEF u
<1>5. r = u | y
  BY DEF u
<1>6. r \in Word
  BY <1>1, <1>3, <1>5, Bitwise
<1>7. /\ Byte(u, j) = 0 => Byte(r, j) = Byte(y, j)
      /\ Byte(y, j) = 0 => Byte(r, j) = Byte(u, j)
  BY <1>2, <1>5, ByteOps
<1> QED BY <1>4, <1>6, <1>7

LEMMA Amounts ==
    ASSUME NEW k \in 0 .. 3
    PROVE  /\ left(k) = k * B /\ right(k) = (3 - k) * B
           /\ half(k) = (IF k >= 2 THEN 0 ELSE 2) * B
<1>1. left(k) = k * B
  BY DEF left
<1>2. right(k) = (3 - k) * B
  BY Positions, Width DEF right
<1>3. half(k) = (IF k >= 2 THEN 0 ELSE 2) * B
  BY Width DEF half
<1> QED BY <1>1, <1>2, <1>3

LEMMA OctetTop == P(B) - 1 - 0 = P(B) - 1 /\ P(B) - 1 - (P(B) - 1) = 0 /\ P(B) - 1 # 0
BY BytePowers

(* lwl and lwr.                                                            *)
LEMMA lwlBytes ==
    ASSUME NEW a \in Nat, NEW k, k = a % 4, NEW rt \in Word, NEW mem \in Word,
           NEW r, r = execute_mem("lwl", a, rt, mem), NEW j \in 0 .. 3
    PROVE  Byte(r, j) = IF j + k <= 3 THEN Byte(mem, j + k) ELSE Byte(rt, j)
<1>1. k \in 0 .. 3
  OBVIOUS
<1> DEFINE s == k * B
           ones == Shl(Ones, s)
           mask == Flip(ones)
           y == Shl(mem, s)
<1>2. r = (rt & mask) | y
  BY <1>1, execute_memIs, Amounts
<1>3. s \in Int
  BY <1>1, Positions, Width
<1>4. ones \in Word /\ y \in Word
  BY <1>3, SmallWords, ShiftType
<1>5. mask \in Word
  BY <1>4, FlipType
<1>6. Byte(ones, j) = IF j + k <= 3 THEN Byte(Ones, j + k) ELSE 0
  BY <1>1, SmallWords, ShlBytes
<1>7. Byte(y, j) = IF j + k <= 3 THEN Byte(mem, j + k) ELSE 0
  BY <1>1, ShlBytes
<1>8. j + k <= 3 => Byte(Ones, j + k) = P(B) - 1
  <2>1. j + k <= 3 => j + k \in 0 .. 3
    BY <1>1
  <2> QED BY <2>1, ConstantBytes
<1> HIDE DEF ones, y, s
<1>9. Byte(mask, j) = P(B) - 1 - Byte(ones, j)
  BY <1>4, FlipBytes
<1> HIDE DEF mask
<1>10. /\ Byte(mask, j) = 0 => Byte(r, j) = Byte(y, j)
       /\ Byte(mask, j) = P(B) - 1 /\ Byte(y, j) = 0 => Byte(r, j) = Byte(rt, j)
  BY <1>2, <1>4, <1>5, Merge
<1>11. CASE j + k <= 3
  <2>1. Byte(mask, j) = 0
    BY <1>6, <1>8, <1>9, <1>11, OctetTop
  <2> QED BY <1>7, <1>10, <1>11, <2>1
<1>12. CASE ~ (j + k <= 3)
  <2>1. Byte(mask, j) = P(B) - 1
    BY <1>6, <1>9, <1>12, OctetTop
  <2> QED BY <1>7, <1>10, <1>12, <2>1
<1> QED BY <1>11, <1>12

LEMMA lwrBytes ==
    ASSUME NEW a \in Nat, NEW k, k = a % 4, NEW rt \in Word, NEW mem \in Word,
           NEW r, r = execute_mem("lwr", a, rt, mem), NEW j \in 0 .. 3
    PROVE  Byte(r, j) = IF j >= 3 - k THEN Byte(mem, j - (3 - k)) ELSE Byte(rt, j)
<1> DEFINE m == 3 - k
           s == m * B
           ones == Shr(Ones, s)
           mask == Flip(ones)
           y == Shr(mem, s)
<1>1. k \in 0 .. 3 /\ m \in 0 .. 3
  OBVIOUS
<1>2. r = (rt & mask) | y
  BY <1>1, execute_memIs, Amounts
<1> HIDE DEF m
<1>3. s \in Int
  BY <1>1, Positions, Width
<1>4. ones \in Word /\ y \in Word
  BY <1>3, SmallWords, ShiftType
<1>5. mask \in Word
  BY <1>4, FlipType
<1>6. Byte(ones, j) = IF j >= m THEN Byte(Ones, j - m) ELSE 0
  BY <1>1, SmallWords, ShrBytes
<1>7. Byte(y, j) = IF j >= m THEN Byte(mem, j - m) ELSE 0
  BY <1>1, ShrBytes
<1>8. j >= m => Byte(Ones, j - m) = P(B) - 1
  <2>1. j >= m => j - m \in 0 .. 3
    BY <1>1
  <2> QED BY <2>1, ConstantBytes
<1> HIDE DEF ones, y, s
<1>9. Byte(mask, j) = P(B) - 1 - Byte(ones, j)
  BY <1>4, FlipBytes
<1> HIDE DEF mask
<1>10. /\ Byte(mask, j) = 0 => Byte(r, j) = Byte(y, j)
       /\ Byte(mask, j) = P(B) - 1 /\ Byte(y, j) = 0 => Byte(r, j) = Byte(rt, j)
  BY <1>2, <1>4, <1>5, Merge
<1>11. CASE j >= m
  <2>1. Byte(mask, j) = 0
    BY <1>6, <1>8, <1>9, <1>11, OctetTop
  <2> QED BY <1>7, <1>10, <1>11, <2>1 DEF m
<1>12. CASE ~ (j >= m)
  <2>1. Byte(mask, j) = P(B) - 1
    BY <1>6, <1>9, <1>12, OctetTop
  <2> QED BY <1>7, <1>10, <1>12, <2>1 DEF m
<1> QED BY <1>11, <1>12

(* swl and swr.                                                            *)
LEMMA swlBytes ==
    ASSUME NEW a \in Nat, NEW k, k = a % 4, NEW rt \in Word, NEW mem \in Word,
           NEW r, r = execute_mem("swl", a, rt, mem), NEW j \in 0 .. 3
    PROVE  Byte(r, j) = IF j >= k THEN Byte(rt, j - k) ELSE Byte(mem, j)
<1>1. k \in 0 .. 3
  OBVIOUS
<1> DEFINE s == k * B
           ones == Shr(Ones, s)
           mask == Flip(ones)
           y == Shr(rt, s)
<1>2. r = (mem & mask) | y
  BY <1>1, execute_memIs, Amounts
<1>3. s \in Int
  BY <1>1, Positions, Width
<1>4. ones \in Word /\ y \in Word
  BY <1>3, SmallWords, ShiftType
<1>5. mask \in Word
  BY <1>4, FlipType
<1>6. Byte(ones, j) = IF j >= k THEN Byte(Ones, j - k) ELSE 0
  BY <1>1, SmallWords, ShrBytes
<1>7. Byte(y, j) = IF j >= k THEN Byte(rt, j - k) ELSE 0
  BY <1>1, ShrBytes
<1>8. j >= k => Byte(Ones, j - k) = P(B) - 1
  <2>1. j >= k => j - k \in 0 .. 3
    BY <1>1
  <2> QED BY <2>1, ConstantBytes
<1> HIDE DEF ones, y, s
<1>9. Byte(mask, j) = P(B) - 1 - Byte(ones, j)
  BY <1>4, FlipBytes
<1> HIDE DEF mask
<1>10. /\ Byte(mask, j) = 0 => Byte(r, j) = Byte(y, j)
       /\ Byte(mask, j) = P(B) - 1 /\ Byte(y, j) = 0 => Byte(r, j) = Byte(mem, j)
  BY <1>2, <1>4, <1>5, Merge
<1>11. CASE j >= k
  <2>1. Byte(mask, j) = 0
    BY <1>6, <1>8, <1>9, <1>11, OctetTop
  <2> QED BY <1>7, <1>10, <1>11, <2>1
<1>12. CASE ~ (j >= k)
  <2>1. Byte(mask, j) = P(B) - 1
    BY <1>6, <1>9, <1>12, OctetTop
  <2> QED BY <1>7, <1>10, <1>12, <2>1
<1> QED BY <1>11, <1>12

LEMMA swrBytes ==
    ASSUME NEW a \in Nat, NEW k, k = a % 4, NEW rt \in Word, NEW mem \in Word,
           NEW r, r = execute_mem("swr", a, rt, mem), NEW j \in 0 .. 3
    PROVE  Byte(r, j) = IF j <= k THEN Byte(rt, j + (3 - k)) ELSE Byte(mem, j)
<1> DEFINE m == 3 - k
           s == m * B
           ones == Shl(Ones, s)
           mask == Flip(ones)
           y == Shl(rt, s)
<1>1. k \in 0 .. 3 /\ m \in 0 .. 3 /\ (j <= k <=> j + m <= 3)
  OBVIOUS
<1>2. r = (mem & mask) | y
  BY <1>1, execute_memIs, Amounts
<1> HIDE DEF m
<1>3. s \in Int
  BY <1>1, Positions, Width
<1>4. ones \in Word /\ y \in Word
  BY <1>3, SmallWords, ShiftType
<1>5. mask \in Word
  BY <1>4, FlipType
<1>6. Byte(ones, j) = IF j + m <= 3 THEN Byte(Ones, j + m) ELSE 0
  BY <1>1, SmallWords, ShlBytes
<1>7. Byte(y, j) = IF j + m <= 3 THEN Byte(rt, j + m) ELSE 0
  BY <1>1, ShlBytes
<1>8. j + m <= 3 => Byte(Ones, j + m) = P(B) - 1
  <2>1. j + m <= 3 => j + m \in 0 .. 3
    BY <1>1
  <2> QED BY <2>1, ConstantBytes
<1> HIDE DEF ones, y, s
<1>9. Byte(mask, j) = P(B) - 1 - Byte(ones, j)
  BY <1>4, FlipBytes
<1> HIDE DEF mask
<1>10. /\ Byte(mask, j) = 0 => Byte(r, j) = Byte(y, j)
       /\ Byte(mask, j) = P(B) - 1 /\ Byte(y, j) = 0 => Byte(r, j) = Byte(mem, j)
  BY <1>2, <1>4, <1>5, Merge
<1>11. CASE j + m <= 3
  <2>1. Byte(mask, j) = 0
    BY <1>6, <1>8, <1>9, <1>11, OctetTop
  <2> QED BY <1>1, <1>7, <1>10, <1>11, <2>1 DEF m
<1>12. CASE ~ (j + m <= 3)
  <2>1. Byte(mask, j) = P(B) - 1
    BY <1>6, <1>9, <1>12, OctetTop
  <2> QED BY <1>1, <1>7, <1>10, <1>12, <2>1 DEF m
<1> QED BY <1>11, <1>12

(* Byte and half word accesses: mask0 covers the bytes from n on.          *)
Covers(mask0, n) ==
    mask0 \in Word /\ \A i \in 0 .. 3 : Byte(mask0, i) = IF i >= n THEN P(B) - 1 ELSE 0

LEMMA MasksCover == Covers(ByteMask, 3) /\ Covers(HalfMask, 2)
<1>1. \A i \in 0 .. 3 : i >= 3 <=> i = 3
  OBVIOUS
<1> QED BY <1>1, Masks, ConstantBytes DEF Covers

LEMMA CoveredBytes ==
    ASSUME NEW x \in Word, NEW n \in 2 .. 3, NEW mask0, Covers(mask0, n)
    PROVE  /\ x & mask0 \in Word
           /\ \A j \in 0 .. 3 : Byte(x & mask0, j) = IF j >= n THEN Byte(x, j) ELSE 0
<1>1. mask0 \in Word
  BY DEF Covers
<1>2. x \in Nat /\ mask0 \in Nat
  BY <1>1, WordNat
<1>3. x & mask0 \in Word
  BY <1>2, Bitwise
<1>4. ASSUME NEW j \in 0 .. 3 PROVE Byte(x & mask0, j) = IF j >= n THEN Byte(x, j) ELSE 0
  <2>1. Byte(mask0, j) = IF j >= n THEN P(B) - 1 ELSE 0
    BY DEF Covers
  <2>2. /\ Byte(mask0, j) = 0 => Byte(x & mask0, j) = 0
        /\ Byte(mask0, j) = P(B) - 1 => Byte(x & mask0, j) = Byte(x, j)
    BY <1>1, ByteOps
  <2> QED BY <2>1, <2>2
<1> QED BY <1>3, <1>4

LEMMA NarrowStore ==
    ASSUME NEW rt \in Word, NEW mem \in Word, NEW n \in 2 .. 3, NEW mask0, Covers(mask0, n),
           NEW m \in 0 .. 3, NEW r,
           r = (mem & (Ones ^^ Shl(mask0, m * B))) | Shl(rt & mask0, m * B),
           NEW j \in 0 .. 3
    PROVE  Byte(r, j) = IF j + m <= 3 /\ j + m >= n THEN Byte(rt, j + m) ELSE Byte(mem, j)
<1> DEFINE s == m * B
           hole == Shl(mask0, s)
           mask == Ones ^^ hole
           u == rt & mask0
           y == Shl(u, s)
<1>1. s \in Int
  BY Positions, Width
<1>2. mask0 \in Word /\ u \in Word /\ Ones \in Word
  BY CoveredBytes, SmallWords DEF Covers
<1>3. \A i \in 0 .. 3 : Byte(u, i) = IF i >= n THEN Byte(rt, i) ELSE 0
  BY CoveredBytes
<1> HIDE DEF u
<1>4. hole \in Word /\ y \in Word
  BY <1>1, <1>2, ShiftType
<1>5. mask \in Word
  BY <1>2, <1>4, WordNat, Bitwise
<1>6. r = (mem & mask) | y
  BY DEF u
<1>7. Byte(hole, j) = IF j + m <= 3 THEN Byte(mask0, j + m) ELSE 0
  BY <1>2, ShlBytes
<1>8. Byte(y, j) = IF j + m <= 3 THEN Byte(u, j + m) ELSE 0
  BY <1>2, ShlBytes
<1> HIDE DEF hole, y, s
<1>9. Byte(mask, j) = P(B) - 1 - Byte(hole, j)
  <2>1. Byte(Ones, j) = P(B) - 1
    BY ConstantBytes
  <2> QED BY <1>2, <1>4, <2>1, ByteOps
<1> HIDE DEF mask
<1>10. /\ Byte(mask, j) = 0 => Byte(r, j) = Byte(y, j)
       /\ Byte(mask, j) = P(B) - 1 /\ Byte(y, j) = 0 => Byte(r, j) = Byte(mem, j)
  BY <1>4, <1>5, <1>6, Merge
<1>11. CASE j + m <= 3
  <2> DEFINE i == j + m
  <2>1. i \in 0 .. 3
    BY <1>11
  <2> HIDE DEF i
  <2>2. Byte(mask0, i) = (IF i >= n THEN P(B) - 1 ELSE 0) /\ Byte(u, i) = IF i >= n THEN Byte(rt, i) ELSE 0
    BY <1>3, <2>1 DEF Covers
  <2>3. Byte(hole, j) = Byte(mask0, i) /\ Byte(y, j) = Byte(u, i)
    BY <1>7, <1>8, <1>11 DEF i
  <2>4. CASE i >= n
    <3>1. Byte(mask, j) = 0
      BY <1>9, <2>2, <2>3, <2>4, OctetTop
    <3>2. Byte(r, j) = Byte(rt, i)
      BY <1>10, <2>2, <2>3, <2>4, <3>1
    <3> QED BY <1>11, <2>4, <3>2 DEF i
  <2>5. CASE ~ (i >= n)
    <3>1. Byte(mask, j) = P(B) - 1
      BY <1>9, <2>2, <2>3, <2>5, OctetTop
    <3>2. Byte(r, j) = Byte(mem, j)
      BY <1>10, <2>2, <2>3, <2>5, <3>1
    <3> QED BY <1>11, <2>5, <3>2 DEF i
  <2> QED BY <2>4, <2>5
<1>12. CASE ~ (j + m <= 3)
  <2>1. Byte(mask, j) = P(B) - 1
    BY <1>7, <1>9, <1>12, OctetTop
  <2> QED BY <1>8, <1>10, <1>12, <2>1
<1> QED BY <1>11, <1>12

LEMMA sbBytes ==
    ASSUME NEW a \in Nat, NEW k, k = a % 4, NEW rt \in Word, NEW mem \in Word,
           NEW r, r = execute_mem("sb", a, rt, mem), NEW j \in 0 .. 3
    PROVE  Byte(r, j) = IF j = k THEN Byte(rt, 3) ELSE Byte(mem, j)
<1> DEFINE m == 3 - k
           n == 3
<1>1. k \in 0 .. 3 /\ m \in 0 .. 3 /\ n \in 2 .. 3 /\ (j + m <= 3 /\ j + m >= n <=> j = k)
        /\ (j = k => j + m = 3)
  OBVIOUS
<1>2. r = (mem & (Ones ^^ Shl(ByteMask, m * B))) | Shl(rt & ByteMask, m * B)
  BY <1>1, execute_memIs, Amounts
<1>3. Covers(ByteMask, n)
  BY MasksCover
<1> HIDE DEF m, n
<1>4. Byte(r, j) = IF j + m <= 3 /\ j + m >= n THEN Byte(rt, j + m) ELSE Byte(mem, j)
  BY <1>1, <1>2, <1>3, NarrowStore
<1> QED BY <1>1, <1>4

(* The even address at or below k.                                         *)
Even(k) == IF k >= 2 THEN 2 ELSE 0

LEMMA shBytes ==
    ASSUME NEW a \in Nat, NEW k, k = a % 4, NEW rt \in Word, NEW mem \in Word,
           NEW r, r = execute_mem("sh", a, rt, mem), NEW j \in 0 .. 3
    PROVE  Byte(r, j) = IF j = Even(k) THEN Byte(rt, 2)
                        ELSE IF j = Even(k) + 1 THEN Byte(rt, 3) ELSE Byte(mem, j)
<1> DEFINE m == IF k >= 2 THEN 0 ELSE 2
           n == 2
<1>1. /\ k \in 0 .. 3 /\ m \in 0 .. 3 /\ n \in 2 .. 3
      /\ (j + m <= 3 /\ j + m >= n <=> j = Even(k) \/ j = Even(k) + 1)
      /\ (j = Even(k) => j + m = 2) /\ (j = Even(k) + 1 => j + m = 3)
      /\ Even(k) # Even(k) + 1
  BY DEF Even
<1>2. r = (mem & (Ones ^^ Shl(HalfMask, m * B))) | Shl(rt & HalfMask, m * B)
  BY <1>1, execute_memIs, Amounts
<1>3. Covers(HalfMask, n)
  BY MasksCover
<1> HIDE DEF m, n
<1>4. Byte(r, j) = IF j + m <= 3 /\ j + m >= n THEN Byte(rt, j + m) ELSE Byte(mem, j)
  BY <1>1, <1>2, <1>3, NarrowStore
<1> QED BY <1>1, <1>4

LEMMA NarrowLoad ==
    ASSUME NEW mem \in Word, NEW n \in 2 .. 3, NEW mask0, Covers(mask0, n),
           NEW m \in 0 .. 3, NEW r, r = Shr(mem, m * B) & mask0
    PROVE  /\ r \in Word
           /\ \A j \in 0 .. 3 : Byte(r, j) = IF j >= n /\ j >= m THEN Byte(mem, j - m) ELSE 0
<1> DEFINE s == m * B
           u == Shr(mem, s)
<1>1. s \in Int
  BY Positions, Width
<1>2. u \in Word
  BY <1>1, ShiftType
<1>3. \A j \in 0 .. 3 : Byte(u, j) = IF j >= m THEN Byte(mem, j - m) ELSE 0
  BY ShrBytes
<1> HIDE DEF u
<1>4. r = u & mask0
  BY DEF u
<1>5. r \in Word /\ \A j \in 0 .. 3 : Byte(r, j) = IF j >= n THEN Byte(u, j) ELSE 0
  BY <1>2, <1>4, CoveredBytes
<1> QED BY <1>3, <1>5

(* The value of a narrow load.                                             *)
LEMMA lbuIs ==
    ASSUME NEW k \in 0 .. 3, NEW mem \in Word
    PROVE  Shr(mem, right(k)) & ByteMask = Byte(mem, k)
<1> DEFINE m == 3 - k
           n == 3
           r == Shr(mem, m * B) & ByteMask
           z == 0
           p == P(B)
<1>1. m \in 0 .. 3 /\ n \in 2 .. 3 /\ 3 - m = k
  OBVIOUS
<1>2. Covers(ByteMask, n)
  BY MasksCover
<1>3. r \in Word /\ \A j \in 0 .. 3 : Byte(r, j) = IF j >= n /\ j >= m THEN Byte(mem, j - m) ELSE 0
  <2> HIDE DEF m, n, r
  <2> QED BY <1>1, <1>2, NarrowLoad DEF r
<1>4. Byte(r, 0) = 0 /\ Byte(r, 1) = 0 /\ Byte(r, 2) = 0 /\ Byte(r, 3) = Byte(mem, k)
  <2> HIDE DEF m, r
  <2>1. Byte(r, 0) = 0 /\ Byte(r, 1) = 0 /\ Byte(r, 2) = 0
    BY <1>3
  <2>2. Byte(r, 3) = Byte(mem, 3 - m)
    BY <1>1, <1>3
  <2> QED BY <1>1, <2>1, <2>2
<1> HIDE DEF r, m
<1>5. r = Join(0, 0, 0, Byte(mem, k))
  BY <1>3, <1>4, WordBytes
<1>6. Join(0, 0, 0, Byte(mem, k)) = Byte(mem, k) + p * (0 + p * (0 + p * 0))
  BY DEF Join
<1>7. p \in Nat /\ Byte(mem, k) \in Nat
  BY BytePowers, ByteType DEF Octet
<1> HIDE DEF p
<1>8. Byte(mem, k) + p * (0 + p * (0 + p * 0)) = Byte(mem, k)
  <2>1. p * 0 = 0 /\ 0 + 0 = 0
    BY <1>7
  <2> QED BY <1>7, <2>1
<1> QED BY <1>5, <1>6, <1>8, Amounts DEF r, m

LEMMA lhuIs ==
    ASSUME NEW k \in 0 .. 3, NEW mem \in Word
    PROVE  Shr(mem, half(k)) & HalfMask = Byte(mem, Even(k)) * P(B) + Byte(mem, Even(k) + 1)
<1> DEFINE m == IF k >= 2 THEN 0 ELSE 2
           n == 2
           r == Shr(mem, m * B) & HalfMask
           p == P(B)
           h == Byte(mem, Even(k))
           l == Byte(mem, Even(k) + 1)
<1>1. m \in 0 .. 3 /\ n \in 2 .. 3 /\ 2 - m = Even(k) /\ 3 - m = Even(k) + 1 /\ m <= 2
        /\ Even(k) \in 0 .. 3 /\ Even(k) + 1 \in 0 .. 3
  BY DEF Even
<1>2. Covers(HalfMask, n)
  BY MasksCover
<1>3. r \in Word /\ \A j \in 0 .. 3 : Byte(r, j) = IF j >= n /\ j >= m THEN Byte(mem, j - m) ELSE 0
  <2> HIDE DEF m, n, r
  <2> QED BY <1>1, <1>2, NarrowLoad DEF r
<1>4. Byte(r, 0) = 0 /\ Byte(r, 1) = 0 /\ Byte(r, 2) = h /\ Byte(r, 3) = l
  <2> HIDE DEF m, r
  <2>1. Byte(r, 0) = 0 /\ Byte(r, 1) = 0
    BY <1>3
  <2>2. Byte(r, 2) = Byte(mem, 2 - m) /\ Byte(r, 3) = Byte(mem, 3 - m)
    BY <1>1, <1>3
  <2> QED BY <1>1, <2>1, <2>2
<1>5. h \in Nat /\ l \in Nat /\ p \in Nat
  BY <1>1, BytePowers, ByteType DEF Octet
<1> HIDE DEF r, m, h, l
<1>6. r = Join(0, 0, h, l)
  BY <1>3, <1>4, WordBytes
<1>7. Join(0, 0, h, l) = l + p * (h + p * (0 + p * 0))
  BY DEF Join
<1> HIDE DEF p
<1>8. l + p * (h + p * (0 + p * 0)) = h * p + l
  <2>1. p * 0 = 0 /\ 0 + 0 = 0 /\ h + 0 = h
    BY <1>5
  <2>2. p * h = h * p /\ h * p \in Nat
    BY <1>5
  <2> QED BY <1>5, <2>1, <2>2
<1> QED BY <1>6, <1>7, <1>8, Amounts DEF r, m, h, l, p

-----------------------------------------------------------------------------
(* Addresses: the word a byte falls into, modulo the size of memory.       *)

Cell(a) == (a % P(W)) \div 4

LEMMA CellIs ==
    ASSUME NEW a \in Int
    PROVE  /\ Cell(a) \in WordAddress
           /\ Cell(a) = (a \div 4) % P(W - 2)
           /\ a % 4 \in 0 .. 3 /\ (a % P(W)) % 4 = a % 4
           /\ a % P(W) = 4 * Cell(a) + (a % 4)
<1> DEFINE D == P(W - 2)
           four == 4
           q == (a \div 4) % D
           r == a % 4
<1>1. D \in Nat /\ D >= 1 /\ P(W) = four * D /\ four \in Nat /\ four >= 1
  BY WordSize
<1>2. a % (four * D) = ((a \div four) % D) * four + (a % four)
  <2> HIDE DEF four, D
  <2> QED BY <1>1, DivDiv
<1>3. q \in 0 .. (D - 1) /\ r \in 0 .. 3
  <2> DEFINE e == a \div 4
  <2>1. e \in Int
    OBVIOUS
  <2> HIDE DEF e, D
  <2>2. e % D \in 0 .. (D - 1)
    BY <1>1, <2>1, DivMod
  <2> QED BY <2>2 DEF e
<1>4. a % P(W) = q * 4 + r
  BY <1>1, <1>2
<1> HIDE DEF D, q, r, four
<1>5. (a % P(W)) \div 4 = q /\ (a % P(W)) % 4 = r /\ q * 4 = 4 * q
  BY <1>1, <1>3, <1>4
<1>6. Cell(a) = q
  BY <1>5 DEF Cell
<1>7. q \in WordAddress
  BY <1>3, Words DEF D
<1> QED BY <1>3, <1>4, <1>5, <1>6, <1>7 DEF q, r, D

(* Which byte of that word it is.                                          *)
Pos(a) == a % 4

LEMMA PosIs ==
    ASSUME NEW a \in Int
    PROVE  Pos(a) \in 0 .. 3 /\ Pos(a) = a % 4 /\ Pos(Wrap(a)) = Pos(a) /\ Wrap(a) \in Nat
<1>1. Wrap(a) = a % P(W) /\ Wrap(a) \in Word
  BY Words, WrapType
<1> QED BY <1>1, CellIs, WordNat DEF Pos

LEMMA CellNext ==
    ASSUME NEW a \in Int, NEW j \in 0 .. 3
    PROVE  /\ Pos(a) \in 0 .. 3
           /\ Pos(a) + j <= 3 => Cell(a + j) = Cell(a) /\ Pos(a + j) = Pos(a) + j
           /\ ~ (Pos(a) + j <= 3) => Cell(a + j) = Cell(a + 4) /\ Pos(a + j) = Pos(a) + j - 4
           /\ Cell(a + 4) # Cell(a)
<1> DEFINE D == P(W - 2)
           q == a \div 4
           k == a % 4
<1>1. D \in Nat /\ D >= 4
  BY WordSize
<1>2. a = 4 * q + k /\ q \in Int /\ k \in 0 .. 3
  OBVIOUS
<1>3. k + j <= 3 => (a + j) \div 4 = q /\ (a + j) % 4 = k + j
  OBVIOUS
<1>4. ~ (k + j <= 3) => (a + j) \div 4 = q + 1 /\ (a + j) % 4 = k + j - 4
  OBVIOUS
<1>5. (a + 4) \div 4 = q + 1
  OBVIOUS
<1>6. a + j \in Int /\ a + 4 \in Int
  OBVIOUS
<1>7. Cell(a) = q % D /\ Cell(a + j) = ((a + j) \div 4) % D /\ Cell(a + 4) = ((a + 4) \div 4) % D
  BY <1>6, CellIs
<1> HIDE DEF q, D
<1>8. q % D # (q + 1) % D
  <2> DEFINE u == q \div D
             v == (q + 1) \div D
             x == q % D
             y == (q + 1) % D
  <2>1. u \in Int /\ x \in 0 .. (D - 1) /\ q = u * D + x
    BY <1>1, <1>2, DivMod
  <2>2. CASE x < D - 1
    <3> DEFINE w == x + 1
               t == q + 1
    <3>1. w \in 0 .. (D - 1) /\ t = u * D + w /\ t \in Int /\ D >= 1
      BY <1>1, <1>2, <2>1, <2>2
    <3> HIDE DEF w, t, u
    <3>2. t % D = w
      BY <1>1, <2>1, <3>1, DivModIs
    <3>3. w # x
      BY <2>1 DEF w
    <3> QED BY <3>2, <3>3 DEF t
  <2>3. CASE ~ (x < D - 1)
    <3> DEFINE w == 0
               t == q + 1
               s == u + 1
    <3> HIDE DEF u, x
    <3>1. w \in 0 .. (D - 1) /\ t \in Int /\ D >= 1 /\ s \in Int /\ t = s * D + w
      <4>1. x = D - 1
        BY <1>1, <2>1, <2>3
      <4>2. (u + 1) * D = u * D + D /\ u * D \in Int
        BY <1>1, <2>1
      <4> QED BY <1>1, <1>2, <2>1, <4>1, <4>2
    <3> HIDE DEF w, t, s
    <3>2. t % D = w
      BY <1>1, <3>1, DivModIs
    <3>3. x # 0
      BY <1>1, <2>1, <2>3
    <3> QED BY <3>2, <3>3 DEF t, w, x
  <2> QED BY <2>2, <2>3
<1> QED BY <1>2, <1>3, <1>4, <1>5, <1>7, <1>8 DEF Pos

LEMMA ByteAtIs ==
    /\ \A m, a : ByteAt(m, a) = Byte(m[Cell(a)], a % 4)
    /\ \A m, a : ByteAt(m, a) = Byte(m[Cell(a)], Pos(a))
    /\ \A m, a : HalfAt(m, a) = ByteAt(m, a) * P(B) + ByteAt(m, a + 1)
    /\ \A m, a : WordAt(m, a) = HalfAt(m, a) * P(2 * B) + HalfAt(m, a + 2)
    /\ \A x, n : Extend(x, n) = IF x < P(n - 1) THEN x ELSE Wrap(x - P(n))
BY DEF ByteAt, HalfAt, WordAt, Extend, Byte, Cell, P, Pos

(* Words and half words from their bytes.                                  *)
LEMMA WordAtIs ==
    ASSUME NEW m \in [WordAddress -> Word], NEW a \in Int, NEW x \in Word,
           \A j \in 0 .. 3 : ByteAt(m, a + j) = Byte(x, j)
    PROVE  WordAt(m, a) = x
<1> DEFINE p == P(B)
           b0 == Byte(x, 0)
           b1 == Byte(x, 1)
           b2 == Byte(x, 2)
           b3 == Byte(x, 3)
<1>1. ByteAt(m, a) = b0 /\ ByteAt(m, a + 1) = b1 /\ ByteAt(m, a + 2) = b2 /\ ByteAt(m, a + 3) = b3
  <2>1. a + 0 = a
    OBVIOUS
  <2>2. ByteAt(m, a + 0) = b0 /\ ByteAt(m, a + 1) = b1 /\ ByteAt(m, a + 2) = b2 /\ ByteAt(m, a + 3) = b3
    OBVIOUS
  <2> QED BY <2>1, <2>2
<1>2. (a + 2) + 1 = a + 3
  OBVIOUS
<1>3. WordAt(m, a) = (b0 * p + b1) * (p * p) + (b2 * p + b3)
  BY <1>1, <1>2, ByteAtIs, ByteProducts
<1>4. x = b3 + p * (b2 + p * (b1 + p * b0))
  BY WordBytes DEF Join
<1>5. p \in Nat /\ b0 \in Nat /\ b1 \in Nat /\ b2 \in Nat /\ b3 \in Nat
  BY WordBytes, BytePowers DEF Octet
<1> HIDE DEF p, b0, b1, b2, b3
<1>6. (b0 * p + b1) * (p * p) + (b2 * p + b3) = b3 + p * (b2 + p * (b1 + p * b0))
  BY <1>5
<1> QED BY <1>3, <1>4, <1>6

LEMMA LowBytesOf ==
    ASSUME NEW x \in Word
    PROVE  x % P(B) = Byte(x, 3) /\ x % P(2 * B) = Byte(x, 2) * P(B) + Byte(x, 3)
<1> DEFINE p == P(B)
           b0 == Byte(x, 0)
           b1 == Byte(x, 1)
           b2 == Byte(x, 2)
           b3 == Byte(x, 3)
           q == b2 + p * (b1 + p * b0)
           t == b1 + p * b0
           l == b3 + p * b2
           pp == p * p
<1>1. x = b3 + p * q
  BY WordBytes DEF Join
<1>2. p \in Nat /\ p >= 1 /\ b0 \in Nat /\ b1 \in Nat
        /\ b2 \in 0 .. (p - 1) /\ b3 \in 0 .. (p - 1)
  BY WordBytes, BytePowers DEF Octet
<1> HIDE DEF p, b0, b1, b2, b3
<1>3. q \in Nat /\ t \in Nat /\ b2 \in Nat /\ b3 \in Nat
  <2>1. t \in Nat /\ b2 \in Nat /\ b3 \in Nat
    BY <1>2
  <2> HIDE DEF t
  <2>2. b2 + p * t \in Nat
    BY <1>2, <2>1
  <2> QED BY <2>1, <2>2 DEF t
<1>4. x \in Int /\ q \in Int /\ x = q * p + b3
  <2> HIDE DEF q
  <2>1. p * q = q * p /\ p * q \in Nat
    BY <1>2, <1>3
  <2> QED BY <1>1, <1>3, <2>1
<1>5. x % p = b3
  <2> HIDE DEF q
  <2> QED BY <1>2, <1>4, DivModIs
<1>6. x = t * pp + l
  <2>1. b3 + p * (b2 + p * t) = t * (p * p) + (b3 + p * b2)
    <3> HIDE DEF t
    <3> QED BY <1>2, <1>3
  <2> QED BY <1>1, <2>1
<1>7. pp \in Nat /\ pp >= 1 /\ l \in 0 .. (pp - 1)
  <2>1. pp \in Nat /\ pp >= 1
    BY <1>2
  <2>2. l \in 0 .. (p * p - 1)
    BY <1>2, Horner
  <2> QED BY <2>1, <2>2
<1>8. x % pp = l
  <2>1. x \in Int /\ t \in Int /\ pp \in Nat /\ pp >= 1 /\ l \in 0 .. (pp - 1) /\ x = t * pp + l
    BY <1>3, <1>4, <1>6, <1>7
  <2> HIDE DEF t, l, pp, q
  <2> QED BY <2>1, DivModIs
<1>9. l = b2 * p + b3
  <2>1. p * b2 = b2 * p /\ p * b2 \in Nat
    BY <1>2, <1>3
  <2> QED BY <1>3, <2>1
<1> QED BY <1>5, <1>8, <1>9, ByteProducts DEF p, pp, b2, b3

LEMMA ExtendIs ==
    ASSUME NEW e \in 1 .. (W - 1), NEW x \in 0 .. (P(e) - 1)
    PROVE  sign_extend(x, e) = Extend(x, e)
<1> DEFINE p == P(e)
           M == P(W)
<1>1. e = e % W /\ e \in Int /\ e \in 0 .. (W - 1)
  BY Width
<1>2. sign_extend(x, e) = IF x < P(e - 1) THEN x ELSE x + (M - p)
  BY <1>1, sign_extendIs
<1>3. p \in Nat /\ p < M /\ M \in Nat /\ M >= 1
  <2>1. p \in Word
    BY <1>1, PowerWord
  <2> QED BY <2>1, WordNat, WordSize
<1>4. Wrap(x - p) = x + (M - p)
  <2> DEFINE a == -1
             t == x - p
             b == x + (M - p)
  <2>1. Wrap(t) = t % M
    BY Words
  <2> HIDE DEF M
  <2>2. x \in 0 .. (p - 1)
    OBVIOUS
  <2> HIDE DEF p
  <2>3. a \in Int /\ t \in Int /\ b \in 0 .. (M - 1) /\ t = a * M + b
    BY <1>3, <2>2
  <2> HIDE DEF a, t, b
  <2>4. t % M = b
    BY <1>3, <2>3, DivModIs
  <2> QED BY <2>1, <2>4 DEF t, b
<1> QED BY <1>2, <1>4, ByteAtIs

-----------------------------------------------------------------------------
(* Narrow accesses, and the two halves of an unaligned one, in memory.     *)

(* Every byte of memory but the n bytes at a is the same in both.          *)
SameBut(m0, m, a, n) ==
    \A b \in 0 .. (P(W) - 1) :
        b \notin {(a + i) % P(W) : i \in 0 .. (n - 1)} => ByteAt(m, b) = ByteAt(m0, b)

LEMMA SameButIs ==
    ASSUME NEW m0, NEW m, NEW a \in Int, NEW n \in 1 .. 4,
           \A b \in Int :
              \/ ByteAt(m, b) = ByteAt(m0, b)
              \/ \E i \in 0 .. (n - 1) : Cell(b) = Cell(a + i) /\ b % 4 = (a + i) % 4
    PROVE  SameBut(m0, m, a, n)
<1> SUFFICES ASSUME NEW b \in 0 .. (P(W) - 1),
                    b \notin {(a + i) % P(W) : i \in 0 .. (n - 1)}
             PROVE  ByteAt(m, b) = ByteAt(m0, b)
  BY DEF SameBut
<1>1. b \in Int /\ b % P(W) = b
  <2>1. b \in Word
    BY Words
  <2> QED BY <2>1, WordNat, WrapSmall, Words
<1>2. ASSUME NEW i \in 0 .. (n - 1), Cell(b) = Cell(a + i), b % 4 = (a + i) % 4 PROVE FALSE
  <2>1. a + i \in Int
    OBVIOUS
  <2>2. b % P(W) = 4 * Cell(b) + (b % 4) /\ (a + i) % P(W) = 4 * Cell(a + i) + ((a + i) % 4)
    BY <1>1, <2>1, CellIs
  <2>3. b = (a + i) % P(W)
    BY <1>1, <1>2, <2>2
  <2> QED BY <2>3
<1> QED BY <1>1, <1>2

LEMMA AddressWord ==
    ASSUME NEW a \in Word
    PROVE  a \in Nat /\ a \in Int /\ a % P(W) = a /\ Cell(a) = a \div 4 /\ Cell(a) \in WordAddress
<1>1. a \in Nat /\ a \in Int
  BY WordNat
<1>2. a % P(W) = a
  BY WrapSmall, Words
<1> QED BY <1>1, <1>2, CellIs DEF Cell

(* The even address of a half word.                                        *)
LEMMA EvenAddress ==
    ASSUME NEW a \in Int, NEW k, k = a % 4, NEW h, h = a - (a % 2)
    PROVE  /\ h \in Int /\ k \in 0 .. 3 /\ Even(k) \in 0 .. 3 /\ Even(k) + 1 \in 0 .. 3
           /\ Cell(h) = Cell(a) /\ h % 4 = Even(k)
           /\ Cell(h + 1) = Cell(a) /\ (h + 1) % 4 = Even(k) + 1
<1>1. h \in Int /\ k \in 0 .. 3 /\ h % 4 = Even(k) /\ h \div 4 = a \div 4
        /\ (h + 1) % 4 = Even(k) + 1 /\ (h + 1) \div 4 = a \div 4
        /\ Even(k) \in 0 .. 3 /\ Even(k) + 1 \in 0 .. 3
  BY DEF Even
<1>2. h + 1 \in Int
  BY <1>1
<1> QED BY <1>1, <1>2, CellIs

LEMMA NarrowLoads ==
    ASSUME NEW m \in [WordAddress -> Word], NEW a \in Word, NEW rt, NEW h, h = a - (a % 2)
    PROVE  /\ execute_mem("lbu", a, rt, m[a \div 4]) = ByteAt(m, a)
           /\ execute_mem("lb", a, rt, m[a \div 4]) = Extend(ByteAt(m, a), B)
           /\ execute_mem("lhu", a, rt, m[a \div 4]) = HalfAt(m, h)
           /\ execute_mem("lh", a, rt, m[a \div 4]) = Extend(HalfAt(m, h), 2 * B)
<1> DEFINE k == a % 4
           mem == m[a \div 4]
           b == Byte(mem, k)
           c == Byte(mem, Even(k)) * P(B) + Byte(mem, Even(k) + 1)
<1>1. a \in Int /\ Cell(a) = a \div 4 /\ mem \in Word
  BY AddressWord
<1>2. k \in 0 .. 3 /\ Even(k) \in 0 .. 3 /\ Even(k) + 1 \in 0 .. 3
  BY <1>1, EvenAddress
<1>3. ByteAt(m, a) = b
  BY <1>1, ByteAtIs
<1>4. HalfAt(m, h) = c
  <2>1. /\ Cell(h) = Cell(a) /\ h % 4 = Even(k)
        /\ Cell(h + 1) = Cell(a) /\ (h + 1) % 4 = Even(k) + 1
    BY <1>1, EvenAddress
  <2>2. HalfAt(m, h) = ByteAt(m, h) * P(B) + ByteAt(m, h + 1)
    BY ByteAtIs
  <2>3. ByteAt(m, h) = Byte(mem, Even(k)) /\ ByteAt(m, h + 1) = Byte(mem, Even(k) + 1)
    BY <1>1, <2>1, ByteAtIs
  <2> QED BY <2>2, <2>3
<1>5. b \in 0 .. (P(B) - 1)
  <2> HIDE DEF k, mem
  <2> QED BY <1>1, <1>2, ByteType DEF Octet
<1>6. c \in 0 .. (P(2 * B) - 1)
  <2> DEFINE p == P(B)
             u == Byte(mem, Even(k))
             l == Byte(mem, Even(k) + 1)
  <2>1. u \in 0 .. (p - 1) /\ l \in 0 .. (p - 1) /\ p \in Nat /\ p >= 1
    <3> HIDE DEF k, mem
    <3> QED BY <1>1, <1>2, ByteType, BytePowers DEF Octet
  <2> HIDE DEF p, u, l
  <2>2. l + p * u \in 0 .. (p * p - 1)
    BY <2>1, Horner
  <2>3. l + p * u = u * p + l
    <3>1. p * u = u * p /\ p * u \in Int
      BY <2>1
    <3> QED BY <2>1, <3>1
  <2> QED BY <2>2, <2>3, ByteProducts DEF p, u, l
<1> DEFINE e == 2 * B
<1>7. B \in 1 .. (W - 1) /\ e \in 1 .. (W - 1)
  BY Width
<1>8. sign_extend(b, B) = Extend(b, B)
  <2> HIDE DEF b
  <2> QED BY <1>5, <1>7, ExtendIs
<1>9. sign_extend(c, e) = Extend(c, e)
  <2>1. c \in 0 .. (P(e) - 1)
    BY <1>6
  <2> HIDE DEF c, e
  <2> QED BY <1>7, <2>1, ExtendIs
<1>10. Shr(mem, right(k)) & ByteMask = b /\ Shr(mem, half(k)) & HalfMask = c
  <2> HIDE DEF k, mem
  <2> QED BY <1>1, <1>2, lbuIs, lhuIs
<1>11. /\ execute_mem("lb", a, rt, mem) = sign_extend(Shr(mem, right(k)) & ByteMask, B)
       /\ execute_mem("lh", a, rt, mem) = sign_extend(Shr(mem, half(k)) & HalfMask, 2 * B)
       /\ execute_mem("lbu", a, rt, mem) = Shr(mem, right(k)) & ByteMask
       /\ execute_mem("lhu", a, rt, mem) = Shr(mem, half(k)) & HalfMask
  <2> HIDE DEF mem
  <2> QED BY execute_memIs
<1> HIDE DEF b, c
<1> QED BY <1>3, <1>4, <1>8, <1>9, <1>10, <1>11

(* Memory after the store op at address a.                                 *)
Poke(op, m, a, rt) == [m EXCEPT ![a \div 4] = execute_mem(op, a, rt, m[a \div 4])]

LEMMA sbMemory ==
    ASSUME NEW m0 \in [WordAddress -> Word], NEW a \in Word, NEW rt \in Word, NEW m,
           m = Poke("sb", m0, a, rt)
    PROVE  ByteAt(m, a) = rt % P(B) /\ SameBut(m0, m, a, 1)
<1> DEFINE k == a % 4
           q == a \div 4
           r == execute_mem("sb", a, rt, m0[q])
<1>1. a \in Nat /\ a \in Int /\ Cell(a) = q /\ q \in WordAddress /\ m0[q] \in Word /\ k \in 0 .. 3
  BY AddressWord, CellIs
<1>2. \A j \in 0 .. 3 : Byte(r, j) = IF j = k THEN Byte(rt, 3) ELSE Byte(m0[q], j)
  <2> DEFINE mem == m0[q]
  <2>1. a \in Nat /\ k = a % 4 /\ mem \in Word /\ r = execute_mem("sb", a, rt, mem)
    BY <1>1
  <2>2. ASSUME NEW j \in 0 .. 3 PROVE Byte(r, j) = IF j = k THEN Byte(rt, 3) ELSE Byte(mem, j)
    <3> HIDE DEF k, r, mem
    <3> QED BY <2>1, sbBytes
  <2> QED BY <2>2
<1>3. m[q] = r /\ \A c \in WordAddress : c # q => m[c] = m0[c]
  <2>1. m = [m0 EXCEPT ![q] = r]
    BY DEF Poke
  <2> HIDE DEF r, q
  <2> QED BY <1>1, <2>1
<1> HIDE DEF r, q
<1>4. ByteAt(m, a) = rt % P(B)
  <2>1. ByteAt(m, a) = Byte(r, k)
    BY <1>1, <1>3, ByteAtIs
  <2> QED BY <1>1, <1>2, <2>1, LowBytesOf
<1>5. ASSUME NEW b \in Int
      PROVE  \/ ByteAt(m, b) = ByteAt(m0, b)
             \/ Cell(b) = Cell(a) /\ b % 4 = a % 4
  <2>1. Cell(b) \in WordAddress /\ b % 4 \in 0 .. 3
    BY CellIs
  <2>2. ByteAt(m, b) = Byte(m[Cell(b)], b % 4) /\ ByteAt(m0, b) = Byte(m0[Cell(b)], b % 4)
    BY ByteAtIs
  <2> QED BY <1>1, <1>2, <1>3, <2>1, <2>2
<1>6. SameBut(m0, m, a, 1)
  <2> DEFINE one == 1
             z == 0
  <2>1. one \in 1 .. 4 /\ z \in 0 .. (one - 1) /\ a + z = a
    BY <1>1
  <2>2. \A b \in Int :
           \/ ByteAt(m, b) = ByteAt(m0, b)
           \/ \E i \in 0 .. (one - 1) : Cell(b) = Cell(a + i) /\ b % 4 = (a + i) % 4
    <3> HIDE DEF one, z
    <3> QED BY <1>5, <2>1
  <2> HIDE DEF one
  <2>3. SameBut(m0, m, a, one)
    BY <1>1, <2>1, <2>2, SameButIs
  <2> QED BY <2>3 DEF one
<1> QED BY <1>4, <1>6

LEMMA shMemory ==
    ASSUME NEW m0 \in [WordAddress -> Word], NEW a \in Word, NEW rt \in Word, NEW m,
           NEW h, h = a - (a % 2),
           m = Poke("sh", m0, a, rt)
    PROVE  HalfAt(m, h) = rt % P(2 * B) /\ SameBut(m0, m, h, 2)
<1> DEFINE k == a % 4
           q == a \div 4
           e == Even(k)
           r == execute_mem("sh", a, rt, m0[q])
<1>1. a \in Nat /\ a \in Int /\ Cell(a) = q /\ q \in WordAddress /\ m0[q] \in Word /\ k \in 0 .. 3
  BY AddressWord, CellIs
<1>2. /\ h \in Int /\ e \in 0 .. 3 /\ e + 1 \in 0 .. 3 /\ Cell(h) = q /\ h % 4 = e
      /\ Cell(h + 1) = q /\ (h + 1) % 4 = e + 1
  BY <1>1, EvenAddress
<1>3. \A j \in 0 .. 3 : Byte(r, j) = IF j = e THEN Byte(rt, 2)
                                    ELSE IF j = e + 1 THEN Byte(rt, 3) ELSE Byte(m0[q], j)
  <2> DEFINE mem == m0[q]
  <2>1. a \in Nat /\ k = a % 4 /\ mem \in Word /\ r = execute_mem("sh", a, rt, mem)
    BY <1>1
  <2>2. ASSUME NEW j \in 0 .. 3
        PROVE  Byte(r, j) = IF j = Even(k) THEN Byte(rt, 2)
                            ELSE IF j = Even(k) + 1 THEN Byte(rt, 3) ELSE Byte(mem, j)
    <3> HIDE DEF k, r, mem
    <3> QED BY <2>1, shBytes
  <2> QED BY <2>2
<1>4. m[q] = r /\ \A c \in WordAddress : c # q => m[c] = m0[c]
  <2>1. m = [m0 EXCEPT ![q] = r]
    BY DEF Poke
  <2> HIDE DEF r, q
  <2> QED BY <1>1, <2>1
<1> HIDE DEF r, q, e
<1>5. HalfAt(m, h) = rt % P(2 * B)
  <2>1. HalfAt(m, h) = ByteAt(m, h) * P(B) + ByteAt(m, h + 1)
    BY ByteAtIs
  <2>2. ByteAt(m, h) = Byte(r, e) /\ ByteAt(m, h + 1) = Byte(r, e + 1)
    BY <1>2, <1>4, ByteAtIs
  <2>3. Byte(r, e) = Byte(rt, 2) /\ Byte(r, e + 1) = Byte(rt, 3)
    BY <1>2, <1>3
  <2> QED BY <2>1, <2>2, <2>3, LowBytesOf
<1>6. ASSUME NEW b \in Int
      PROVE  \/ ByteAt(m, b) = ByteAt(m0, b)
             \/ Cell(b) = Cell(h) /\ b % 4 = h % 4
             \/ Cell(b) = Cell(h + 1) /\ b % 4 = (h + 1) % 4
  <2>1. Cell(b) \in WordAddress /\ b % 4 \in 0 .. 3
    BY CellIs
  <2>2. ByteAt(m, b) = Byte(m[Cell(b)], b % 4) /\ ByteAt(m0, b) = Byte(m0[Cell(b)], b % 4)
    BY ByteAtIs
  <2> QED BY <1>2, <1>3, <1>4, <2>1, <2>2
<1>7. SameBut(m0, m, h, 2)
  <2> DEFINE two == 2
             z == 0
             o == 1
  <2>1. two \in 1 .. 4 /\ z \in 0 .. (two - 1) /\ o \in 0 .. (two - 1) /\ h + z = h /\ h + o = h + 1
    BY <1>2
  <2>2. \A b \in Int :
           \/ ByteAt(m, b) = ByteAt(m0, b)
           \/ \E i \in 0 .. (two - 1) : Cell(b) = Cell(h + i) /\ b % 4 = (h + i) % 4
    <3> HIDE DEF two, z, o
    <3> QED BY <1>6, <2>1
  <2> HIDE DEF two
  <2>3. SameBut(m0, m, h, two)
    BY <1>2, <2>1, <2>2, SameButIs
  <2> QED BY <2>3 DEF two
<1> QED BY <1>5, <1>7

(* The two halves of an unaligned access at c: the word it starts in, and  *)
(* the one it ends in.                                                     *)
LEMMA Ends ==
    ASSUME NEW c \in Int, NEW d, d = c + 3
    PROVE  /\ d \in Int /\ Pos(c) \in 0 .. 3 /\ Pos(d) \in 0 .. 3
           /\ Pos(c) = 0 => Pos(d) = 3 /\ Cell(d) = Cell(c)
           /\ Pos(c) # 0 => Pos(d) = Pos(c) - 1 /\ Cell(d) = Cell(c + 4) /\ Cell(d) # Cell(c)
           /\ Cell(c) \in WordAddress /\ Cell(d) \in WordAddress
<1> DEFINE t == 3
<1>1. t \in 0 .. 3 /\ d = c + t /\ t = 3 /\ d \in Int
  OBVIOUS
<1> HIDE DEF t
<1>2. /\ Pos(c) + t <= 3 => Cell(c + t) = Cell(c) /\ Pos(c + t) = Pos(c) + t
      /\ ~ (Pos(c) + t <= 3) => Cell(c + t) = Cell(c + 4) /\ Pos(c + t) = Pos(c) + t - 4
      /\ Cell(c + 4) # Cell(c)
  BY <1>1, CellNext
<1>3. Pos(c) \in 0 .. 3 /\ Pos(d) \in 0 .. 3
  BY <1>1, PosIs
<1>4. Cell(c) \in WordAddress /\ Cell(d) \in WordAddress
  BY <1>1, CellIs
<1> QED BY <1>1, <1>2, <1>3, <1>4

LEMMA BytesFrom ==
    ASSUME NEW m, NEW c \in Int, NEW j \in 0 .. 3
    PROVE  ByteAt(m, c + j) = IF Pos(c) + j <= 3 THEN Byte(m[Cell(c)], Pos(c) + j)
                                                 ELSE Byte(m[Cell(c + 4)], Pos(c) + j - 4)
BY CellNext, ByteAtIs

LEMMA lwlAt ==
    ASSUME NEW c \in Int, NEW k, k = Pos(c), NEW w \in Word, NEW x \in Word,
           NEW v, v = execute_mem("lwl", Wrap(c), w, x)
    PROVE  /\ v \in Word
           /\ \A j \in 0 .. 3 : Byte(v, j) = IF j + k <= 3 THEN Byte(x, j + k) ELSE Byte(w, j)
<1> DEFINE a == Wrap(c)
<1>1. a \in Nat /\ k = a % 4 /\ v = execute_mem("lwl", a, w, x)
  BY PosIs DEF Pos
<1>2. "lwl" \in LoadOps \cup StoreOps
  BY DEF LoadOps
<1> HIDE DEF a
<1>3. v \in Word
  BY <1>1, <1>2, execute_memType
<1>4. ASSUME NEW j \in 0 .. 3 PROVE Byte(v, j) = IF j + k <= 3 THEN Byte(x, j + k) ELSE Byte(w, j)
  BY <1>1, lwlBytes
<1> QED BY <1>3, <1>4

LEMMA lwrAt ==
    ASSUME NEW c \in Int, NEW k, k = Pos(c), NEW w \in Word, NEW x \in Word,
           NEW v, v = execute_mem("lwr", Wrap(c), w, x)
    PROVE  /\ v \in Word
           /\ \A j \in 0 .. 3 : Byte(v, j) = IF j >= 3 - k THEN Byte(x, j - (3 - k)) ELSE Byte(w, j)
<1> DEFINE a == Wrap(c)
<1>1. a \in Nat /\ k = a % 4 /\ v = execute_mem("lwr", a, w, x)
  BY PosIs DEF Pos
<1>2. "lwr" \in LoadOps \cup StoreOps
  BY DEF LoadOps
<1> HIDE DEF a
<1>3. v \in Word
  BY <1>1, <1>2, execute_memType
<1>4. ASSUME NEW j \in 0 .. 3 PROVE Byte(v, j) = IF j >= 3 - k THEN Byte(x, j - (3 - k)) ELSE Byte(w, j)
  BY <1>1, lwrBytes
<1> QED BY <1>3, <1>4

LEMMA swlAt ==
    ASSUME NEW c \in Int, NEW k, k = Pos(c), NEW w \in Word, NEW x \in Word,
           NEW v, v = execute_mem("swl", Wrap(c), w, x)
    PROVE  /\ v \in Word
           /\ \A j \in 0 .. 3 : Byte(v, j) = IF j >= k THEN Byte(w, j - k) ELSE Byte(x, j)
<1> DEFINE a == Wrap(c)
<1>1. a \in Nat /\ k = a % 4 /\ v = execute_mem("swl", a, w, x)
  BY PosIs DEF Pos
<1>2. "swl" \in LoadOps \cup StoreOps
  BY DEF StoreOps
<1> HIDE DEF a
<1>3. v \in Word
  BY <1>1, <1>2, execute_memType
<1>4. ASSUME NEW j \in 0 .. 3 PROVE Byte(v, j) = IF j >= k THEN Byte(w, j - k) ELSE Byte(x, j)
  BY <1>1, swlBytes
<1> QED BY <1>3, <1>4

LEMMA swrAt ==
    ASSUME NEW c \in Int, NEW k, k = Pos(c), NEW w \in Word, NEW x \in Word,
           NEW v, v = execute_mem("swr", Wrap(c), w, x)
    PROVE  /\ v \in Word
           /\ \A j \in 0 .. 3 : Byte(v, j) = IF j <= k THEN Byte(w, j + (3 - k)) ELSE Byte(x, j)
<1> DEFINE a == Wrap(c)
<1>1. a \in Nat /\ k = a % 4 /\ v = execute_mem("swr", a, w, x)
  BY PosIs DEF Pos
<1>2. "swr" \in LoadOps \cup StoreOps
  BY DEF StoreOps
<1> HIDE DEF a
<1>3. v \in Word
  BY <1>1, <1>2, execute_memType
<1>4. ASSUME NEW j \in 0 .. 3 PROVE Byte(v, j) = IF j <= k THEN Byte(w, j + (3 - k)) ELSE Byte(x, j)
  BY <1>1, swrBytes
<1> QED BY <1>3, <1>4

LEMMA UnalignedLoad ==
    ASSUME NEW m \in [WordAddress -> Word], NEW c \in Int, NEW rt \in Word,
           NEW k, k = Pos(c), NEW d, d = c + 3, NEW e, e = Pos(d),
           NEW x, x = m[Cell(c)], NEW y, y = m[Cell(d)],
           NEW l, l = execute_mem("lwl", Wrap(c), rt, x),
           NEW lr, lr = execute_mem("lwr", Wrap(d), l, y),
           NEW r, r = execute_mem("lwr", Wrap(d), rt, y),
           NEW rl, rl = execute_mem("lwl", Wrap(c), r, x)
    PROVE  lr = WordAt(m, c) /\ rl = WordAt(m, c)
<1>1. /\ d \in Int /\ k \in 0 .. 3 /\ e \in 0 .. 3
      /\ k = 0 => e = 3 /\ Cell(d) = Cell(c)
      /\ k # 0 => e = k - 1 /\ Cell(d) = Cell(c + 4)
      /\ x \in Word /\ y \in Word
  BY Ends
<1>2. \A j \in 0 .. 3 :
         ByteAt(m, c + j) = IF k + j <= 3 THEN Byte(x, k + j) ELSE Byte(y, j - (3 - e))
  <2> TAKE j \in 0 .. 3
  <2>1. ~ (k + j <= 3) => k # 0 /\ k + j - 4 = j - (3 - e) /\ Cell(d) = Cell(c + 4)
    BY <1>1
  <2>2. ByteAt(m, c + j) = IF k + j <= 3 THEN Byte(m[Cell(c)], k + j)
                                         ELSE Byte(m[Cell(c + 4)], k + j - 4)
    BY BytesFrom
  <2> QED BY <2>1, <2>2
<1>3. /\ l \in Word
      /\ \A j \in 0 .. 3 : Byte(l, j) = IF j + k <= 3 THEN Byte(x, j + k) ELSE Byte(rt, j)
  BY <1>1, lwlAt
<1>4. /\ r \in Word
      /\ \A j \in 0 .. 3 : Byte(r, j) = IF j >= 3 - e THEN Byte(y, j - (3 - e)) ELSE Byte(rt, j)
  BY <1>1, lwrAt
<1>5. lr \in Word /\ \A j \in 0 .. 3 : Byte(lr, j) = IF j >= 3 - e THEN Byte(y, j - (3 - e)) ELSE Byte(l, j)
  BY <1>1, <1>3, lwrAt
<1>6. rl \in Word /\ \A j \in 0 .. 3 : Byte(rl, j) = IF j + k <= 3 THEN Byte(x, j + k) ELSE Byte(r, j)
  BY <1>1, <1>4, lwlAt
<1>7. ASSUME NEW j \in 0 .. 3
       PROVE  ByteAt(m, c + j) = Byte(lr, j) /\ ByteAt(m, c + j) = Byte(rl, j)
  <2>1. j + k = k + j /\ j + k \in Int
    BY <1>1
  <2>2. CASE k = 0
    <3>1. e = 3 /\ y = x /\ j >= 3 - e /\ j - (3 - e) = j /\ k + j <= 3 /\ k + j = j
      BY <1>1, <2>2
    <3> QED BY <1>2, <1>5, <1>6, <2>1, <3>1
  <2>3. CASE k # 0
    <3>1. j >= 3 - e <=> ~ (k + j <= 3)
      BY <1>1, <2>3
    <3>2. ByteAt(m, c + j) = Byte(lr, j)
      BY <1>2, <1>3, <1>5, <2>1, <3>1
    <3>3. ByteAt(m, c + j) = Byte(rl, j)
      BY <1>2, <1>4, <1>6, <2>1, <3>1
    <3> QED BY <3>2, <3>3
  <2> QED BY <2>2, <2>3
<1> QED BY <1>5, <1>6, <1>7, WordAtIs

(* The word at c replaced by x, and no other byte changed.                 *)
Stored(m0, m, c, x) ==
    \A q \in WordAddress, i \in 0 .. 3 :
        Byte(m[q], i) = IF q = Cell(c) /\ i >= Pos(c) THEN Byte(x, i - Pos(c))
                        ELSE IF Pos(c) # 0 /\ q = Cell(c + 3) /\ i <= Pos(c) - 1
                             THEN Byte(x, i + (4 - Pos(c)))
                        ELSE Byte(m0[q], i)

(* One of the two stores, and what it does to bytes.                       *)
Put(op, m, c, rt) == [m EXCEPT ![Cell(c)] = execute_mem(op, Wrap(c), rt, m[Cell(c)])]

LeftStored(m0, m, c, x) ==
    /\ m \in [WordAddress -> Word]
    /\ \A q \in WordAddress, i \in 0 .. 3 :
          Byte(m[q], i) = IF q = Cell(c) /\ i >= Pos(c) THEN Byte(x, i - Pos(c))
                          ELSE Byte(m0[q], i)

RightStored(m0, m, c, x) ==
    /\ m \in [WordAddress -> Word]
    /\ \A q \in WordAddress, i \in 0 .. 3 :
          Byte(m[q], i) = IF q = Cell(c) /\ i <= Pos(c) THEN Byte(x, i + (3 - Pos(c)))
                          ELSE Byte(m0[q], i)

LEMMA swlStore ==
    ASSUME NEW m0 \in [WordAddress -> Word], NEW c \in Int, NEW rt \in Word
    PROVE  LeftStored(m0, Put("swl", m0, c, rt), c, rt)
<1> DEFINE k == Pos(c)
           x == m0[Cell(c)]
           v == execute_mem("swl", Wrap(c), rt, x)
           m == Put("swl", m0, c, rt)
<1>1. Cell(c) \in WordAddress /\ x \in Word
  BY CellIs
<1>2. m = [m0 EXCEPT ![Cell(c)] = v]
  BY DEF Put
<1>3. k = Pos(c) /\ k \in 0 .. 3 /\ v = execute_mem("swl", Wrap(c), rt, x)
  BY PosIs
<1> HIDE DEF k, v, m
<1>4. /\ v \in Word
      /\ \A i \in 0 .. 3 : Byte(v, i) = IF i >= k THEN Byte(rt, i - k) ELSE Byte(x, i)
  <2> HIDE DEF x
  <2> QED BY <1>1, <1>3, swlAt
<1>5. m \in [WordAddress -> Word]
  BY <1>1, <1>2, <1>4
<1>6. ASSUME NEW q \in WordAddress
      PROVE  (q = Cell(c) => m[q] = v) /\ (q # Cell(c) => m[q] = m0[q])
  BY <1>1, <1>2
<1> QED BY <1>3, <1>4, <1>5, <1>6 DEF LeftStored, m

LEMMA swrStore ==
    ASSUME NEW m0 \in [WordAddress -> Word], NEW c \in Int, NEW rt \in Word
    PROVE  RightStored(m0, Put("swr", m0, c, rt), c, rt)
<1> DEFINE k == Pos(c)
           x == m0[Cell(c)]
           v == execute_mem("swr", Wrap(c), rt, x)
           m == Put("swr", m0, c, rt)
<1>1. Cell(c) \in WordAddress /\ x \in Word
  BY CellIs
<1>2. m = [m0 EXCEPT ![Cell(c)] = v]
  BY DEF Put
<1>3. k = Pos(c) /\ k \in 0 .. 3 /\ v = execute_mem("swr", Wrap(c), rt, x)
  BY PosIs
<1> HIDE DEF k, v, m
<1>4. /\ v \in Word
      /\ \A i \in 0 .. 3 : Byte(v, i) = IF i <= k THEN Byte(rt, i + (3 - k)) ELSE Byte(x, i)
  <2> HIDE DEF x
  <2> QED BY <1>1, <1>3, swrAt
<1>5. m \in [WordAddress -> Word]
  BY <1>1, <1>2, <1>4
<1>6. ASSUME NEW q \in WordAddress
      PROVE  (q = Cell(c) => m[q] = v) /\ (q # Cell(c) => m[q] = m0[q])
  BY <1>1, <1>2
<1> QED BY <1>3, <1>4, <1>5, <1>6 DEF RightStored, m

(* Both orders of the two stores.                                          *)
LEMMA UnalignedStore ==
    ASSUME NEW m0 \in [WordAddress -> Word], NEW c \in Int, NEW d, d = c + 3, NEW rt \in Word,
           NEW l, l = Put("swl", m0, c, rt), NEW lr, lr = Put("swr", l, d, rt),
           NEW r, r = Put("swr", m0, d, rt), NEW rl, rl = Put("swl", r, c, rt)
    PROVE  /\ lr \in [WordAddress -> Word] /\ Stored(m0, lr, c, rt)
           /\ rl \in [WordAddress -> Word] /\ Stored(m0, rl, c, rt)
<1> DEFINE k == Pos(c)
           e == Pos(d)
<1>1. /\ d \in Int /\ k \in 0 .. 3 /\ e \in 0 .. 3
      /\ k = 0 => e = 3 /\ Cell(d) = Cell(c)
      /\ k # 0 => e = k - 1 /\ Cell(d) # Cell(c)
  BY Ends
<1>2. k = Pos(c) /\ e = Pos(d)
  OBVIOUS
<1> HIDE DEF k, e
<1>3. LeftStored(m0, l, c, rt) /\ l \in [WordAddress -> Word]
  <2>1. LeftStored(m0, l, c, rt)
    BY swlStore
  <2> QED BY <2>1 DEF LeftStored
<1>4. RightStored(m0, r, d, rt) /\ r \in [WordAddress -> Word]
  <2>1. RightStored(m0, r, d, rt)
    BY <1>1, swrStore
  <2> QED BY <2>1 DEF RightStored
<1>5. RightStored(l, lr, d, rt) /\ LeftStored(r, rl, c, rt)
  BY <1>1, <1>3, <1>4, swlStore, swrStore
<1>6. lr \in [WordAddress -> Word] /\ rl \in [WordAddress -> Word]
  BY <1>5 DEF LeftStored, RightStored
<1>7. ASSUME NEW q \in WordAddress, NEW i \in 0 .. 3
      PROVE  /\ Byte(l[q], i) = IF q = Cell(c) /\ i >= k THEN Byte(rt, i - k) ELSE Byte(m0[q], i)
             /\ Byte(rl[q], i) = IF q = Cell(c) /\ i >= k THEN Byte(rt, i - k) ELSE Byte(r[q], i)
             /\ Byte(r[q], i) = IF q = Cell(d) /\ i <= e THEN Byte(rt, i + (3 - e))
                                ELSE Byte(m0[q], i)
             /\ Byte(lr[q], i) = IF q = Cell(d) /\ i <= e THEN Byte(rt, i + (3 - e))
                                 ELSE Byte(l[q], i)
  BY <1>2, <1>3, <1>4, <1>5 DEF LeftStored, RightStored
<1>8. ASSUME NEW q \in WordAddress, NEW i \in 0 .. 3, NEW val,
             val = IF q = Cell(c) /\ i >= k THEN Byte(rt, i - k)
                   ELSE IF k # 0 /\ q = Cell(d) /\ i <= k - 1 THEN Byte(rt, i + (4 - k))
                   ELSE Byte(m0[q], i)
      PROVE  Byte(lr[q], i) = val /\ Byte(rl[q], i) = val
  <2>1. CASE k = 0
    <3>1. e = 3 /\ Cell(d) = Cell(c) /\ i <= e /\ i >= k /\ i + (3 - e) = i /\ i - k = i
      BY <1>1, <2>1
    <3> QED BY <1>7, <1>8, <2>1, <3>1
  <2>2. CASE k # 0
    <3>1. Cell(d) # Cell(c) /\ (i <= e <=> i <= k - 1) /\ i + (3 - e) = i + (4 - k)
      BY <1>1, <2>2
    <3> QED BY <1>7, <1>8, <2>2, <3>1
  <2> QED BY <2>1, <2>2
<1>9. Stored(m0, lr, c, rt) /\ Stored(m0, rl, c, rt)
  BY <1>2, <1>8 DEF Stored
<1> QED BY <1>6, <1>9

LEMMA StoredIs ==
    ASSUME NEW m0, NEW m \in [WordAddress -> Word], NEW c \in Int, NEW x \in Word,
           Stored(m0, m, c, x)
    PROVE  WordAt(m, c) = x /\ SameBut(m0, m, c, 4)
<1> DEFINE d == c + 3
           k == Pos(c)
<1>1. /\ k \in 0 .. 3 /\ Cell(c) \in WordAddress /\ Cell(d) \in WordAddress
      /\ k # 0 => Cell(d) = Cell(c + 4) /\ Cell(d) # Cell(c)
  BY Ends
<1>2. \A q \in WordAddress, i \in 0 .. 3 :
        Byte(m[q], i) = IF q = Cell(c) /\ i >= k THEN Byte(x, i - k)
                        ELSE IF k # 0 /\ q = Cell(d) /\ i <= k - 1 THEN Byte(x, i + (4 - k))
                        ELSE Byte(m0[q], i)
  BY DEF Stored
<1>3. \A j \in 0 .. 3 :
         /\ ByteAt(m, c + j) = IF k + j <= 3 THEN Byte(m[Cell(c)], k + j)
                               ELSE Byte(m[Cell(c + 4)], k + j - 4)
         /\ k + j <= 3 => Cell(c + j) = Cell(c) /\ Pos(c + j) = k + j
         /\ ~ (k + j <= 3) => Cell(c + j) = Cell(c + 4) /\ Pos(c + j) = k + j - 4
  BY BytesFrom, CellNext
<1> HIDE DEF k, d
<1>4. ASSUME NEW j \in 0 .. 3 PROVE ByteAt(m, c + j) = Byte(x, j)
  <2>1. CASE k + j <= 3
    <3> DEFINE i == k + j
    <3>1. i \in 0 .. 3 /\ i >= k /\ i - k = j
      BY <1>1, <2>1
    <3>2. ByteAt(m, c + j) = Byte(m[Cell(c)], i)
      BY <1>3, <2>1
    <3> HIDE DEF i
    <3> QED BY <1>1, <1>2, <3>1, <3>2
  <2>2. CASE ~ (k + j <= 3)
    <3> DEFINE i == k + j - 4
    <3>1. i \in 0 .. 3 /\ k # 0 /\ i <= k - 1 /\ i + (4 - k) = j
      BY <1>1, <2>2
    <3>2. ByteAt(m, c + j) = Byte(m[Cell(d)], i) /\ Cell(d) # Cell(c)
      BY <1>1, <1>3, <2>2, <3>1
    <3> HIDE DEF i
    <3> QED BY <1>1, <1>2, <3>1, <3>2
  <2> QED BY <2>1, <2>2
<1>5. WordAt(m, c) = x
  BY <1>4, WordAtIs
<1>6. ASSUME NEW b \in Int
      PROVE  \/ ByteAt(m, b) = ByteAt(m0, b)
             \/ \E i \in 0 .. 3 : Cell(b) = Cell(c + i) /\ Pos(b) = Pos(c + i)
  <2> DEFINE p == Pos(b)
             q == Cell(b)
  <2>1. p \in 0 .. 3 /\ q \in WordAddress
    BY PosIs, CellIs
  <2>2. ByteAt(m, b) = Byte(m[q], p) /\ ByteAt(m0, b) = Byte(m0[q], p)
    BY ByteAtIs
  <2> HIDE DEF p, q
  <2>3. CASE q = Cell(c) /\ p >= k
    <3> DEFINE i == p - k
    <3>1. i \in 0 .. 3 /\ k + i <= 3 /\ k + i = p
      BY <1>1, <2>1, <2>3
    <3> HIDE DEF i
    <3>2. Cell(c + i) = q /\ Pos(c + i) = p
      BY <1>3, <2>3, <3>1
    <3> QED BY <3>1, <3>2 DEF p, q
  <2>4. CASE k # 0 /\ q = Cell(d) /\ p <= k - 1
    <3> DEFINE i == p + (4 - k)
    <3>1. i \in 0 .. 3 /\ ~ (k + i <= 3) /\ k + i - 4 = p
      BY <1>1, <2>1, <2>4
    <3> HIDE DEF i
    <3>2. Cell(c + i) = q /\ Pos(c + i) = p
      BY <1>1, <1>3, <2>4, <3>1
    <3> QED BY <3>1, <3>2 DEF p, q
  <2>5. CASE ~ (q = Cell(c) /\ p >= k) /\ ~ (k # 0 /\ q = Cell(d) /\ p <= k - 1)
    BY <1>2, <2>1, <2>2, <2>5
  <2> QED BY <2>3, <2>4, <2>5
<1>7. SameBut(m0, m, c, 4)
  <2> DEFINE n == 4
  <2>1. n \in 1 .. 4 /\ n - 1 = 3
    OBVIOUS
  <2> HIDE DEF n
  <2>2. \A b \in Int :
           \/ ByteAt(m, b) = ByteAt(m0, b)
           \/ \E i \in 0 .. (n - 1) : Cell(b) = Cell(c + i) /\ b % 4 = (c + i) % 4
    BY <1>6, <2>1 DEF Pos
  <2>3. SameBut(m0, m, c, n)
    BY <2>1, <2>2, SameButIs
  <2> QED BY <2>3 DEF n
<1> QED BY <1>5, <1>7

(* An access at an address the processor computed, and the second half of  *)
(* an unaligned one, as UnalignedWords states it.                          *)
LEMMA LoadPair ==
    ASSUME NEW m \in [WordAddress -> Word], NEW a \in Word, NEW rt \in Word, NEW v
    PROVE  /\ v = execute_mem("lwl", a, rt, m[a \div 4]) =>
                  execute_mem("lwr", (a + 3) % 2^W, v, m[((a + 3) % 2^W) \div 4]) = WordAt(m, a)
           /\ v = execute_mem("lwr", a, rt, m[a \div 4]) =>
                  execute_mem("lwl", (a - 3) % 2^W, v, m[((a - 3) % 2^W) \div 4])
                      = WordAt(m, a - 3)
<1>1. a \in Int /\ Wrap(a) = a /\ Cell(a) = a \div 4
  BY AddressWord, Words
<1>2. \A b : b % 2^W = Wrap(b) /\ (b % 2^W) \div 4 = Cell(b)
  BY DEF Wrap, Cell, P
<1>3. ASSUME v = execute_mem("lwl", a, rt, m[a \div 4])
      PROVE  execute_mem("lwr", Wrap(a + 3), v, m[Cell(a + 3)]) = WordAt(m, a)
  <2> DEFINE d == a + 3
  <2>1. v = execute_mem("lwl", Wrap(a), rt, m[Cell(a)]) /\ d = a + 3
    BY <1>1, <1>3
  <2> HIDE DEF d
  <2>2. execute_mem("lwr", Wrap(d), v, m[Cell(d)]) = WordAt(m, a)
    BY <1>1, <2>1, UnalignedLoad
  <2> QED BY <2>2 DEF d
<1>4. ASSUME v = execute_mem("lwr", a, rt, m[a \div 4])
      PROVE  execute_mem("lwl", Wrap(a - 3), v, m[Cell(a - 3)]) = WordAt(m, a - 3)
  <2> DEFINE c == a - 3
  <2>1. v = execute_mem("lwr", Wrap(a), rt, m[Cell(a)]) /\ a = c + 3 /\ c \in Int
    BY <1>1, <1>4
  <2> HIDE DEF c
  <2>2. execute_mem("lwl", Wrap(c), v, m[Cell(c)]) = WordAt(m, c)
    BY <2>1, UnalignedLoad
  <2> QED BY <2>2 DEF c
<1> QED BY <1>2, <1>3, <1>4

LEMMA PutPair ==
    ASSUME NEW m0 \in [WordAddress -> Word], NEW c \in Int, NEW d, d = c + 3, NEW rt \in Word
    PROVE  /\ WordAt(Put("swr", Put("swl", m0, c, rt), d, rt), c) = rt
           /\ SameBut(m0, Put("swr", Put("swl", m0, c, rt), d, rt), c, 4)
           /\ WordAt(Put("swl", Put("swr", m0, d, rt), c, rt), c) = rt
           /\ SameBut(m0, Put("swl", Put("swr", m0, d, rt), c, rt), c, 4)
<1> DEFINE l == Put("swl", m0, c, rt)
           lr == Put("swr", l, d, rt)
           r == Put("swr", m0, d, rt)
           rl == Put("swl", r, c, rt)
<1>1. /\ lr \in [WordAddress -> Word] /\ Stored(m0, lr, c, rt)
      /\ rl \in [WordAddress -> Word] /\ Stored(m0, rl, c, rt)
  BY UnalignedStore
<1> HIDE DEF lr, rl
<1>2. WordAt(lr, c) = rt /\ SameBut(m0, lr, c, 4) /\ WordAt(rl, c) = rt /\ SameBut(m0, rl, c, 4)
  BY <1>1, StoredIs
<1> QED BY <1>2 DEF lr, rl

LEMMA PutRight ==
    ASSUME NEW m0 \in [WordAddress -> Word], NEW a \in Int, NEW b, b = a - 3, NEW rt \in Word
    PROVE  /\ WordAt(Put("swl", Put("swr", m0, a, rt), b, rt), b) = rt
           /\ SameBut(m0, Put("swl", Put("swr", m0, a, rt), b, rt), b, 4)
<1>1. b \in Int /\ a = b + 3
  OBVIOUS
<1> QED BY <1>1, PutPair

LEMMA StorePair ==
    ASSUME NEW m0 \in [WordAddress -> Word], NEW a \in Word, NEW rt \in Word,
           NEW op, NEW op2, NEW b, NEW m, m = Poke(op2, Poke(op, m0, a, rt), b % 2^W, rt)
    PROVE  /\ op = "swl" /\ op2 = "swr" /\ b = a + 3 => WordAt(m, a) = rt /\ SameBut(m0, m, a, 4)
           /\ op = "swr" /\ op2 = "swl" /\ b = a - 3 => WordAt(m, b) = rt /\ SameBut(m0, m, b, 4)
<1>1. a \in Int /\ Wrap(a) = a /\ Cell(a) = a \div 4
  BY AddressWord, Words
<1>2. m = Put(op2, Put(op, m0, a, rt), b, rt)
  <2>1. Poke(op, m0, a, rt) = Put(op, m0, a, rt)
    BY <1>1 DEF Put, Poke
  <2>2. b % 2^W = Wrap(b) /\ (b % 2^W) \div 4 = Cell(b)
    BY DEF Wrap, Cell, P
  <2> QED BY <2>1, <2>2 DEF Put, Poke
<1>3. b = a + 3 => /\ WordAt(Put("swr", Put("swl", m0, a, rt), b, rt), a) = rt
                   /\ SameBut(m0, Put("swr", Put("swl", m0, a, rt), b, rt), a, 4)
  BY <1>1, PutPair
<1>4. b = a - 3 => /\ WordAt(Put("swl", Put("swr", m0, a, rt), b, rt), b) = rt
                   /\ SameBut(m0, Put("swl", Put("swr", m0, a, rt), b, rt), b, 4)
  BY <1>1, PutRight
<1> QED BY <1>2, <1>3, <1>4

-----------------------------------------------------------------------------
(* Loads and stores, as steps.                                             *)

LEMMA LoadStep ==
    ASSUME RegisterFile, NEW i \in Instr, Executing(i), Load(i)
    PROVE  \E a \in Word, rt \in Word :
              /\ memory \in [WordAddress -> Word] /\ memory' = memory
              /\ last'.op = i.op /\ i.op \in LoadOps /\ last'.address = a /\ last'.rd = i.rt
              /\ i.rt # 0 =>
                    registers'[i.rt] = execute_mem(i.op, a, rt, memory[a \div 4])
<1> DEFINE a == EffectiveAddress(i)
           rt == registers[i.rt]
           val == execute_mem(i.op, a, rt, memory[a \div 4])
<1>1. a \in Word /\ rt \in Word /\ i.rt \in Reg
  BY Operands
<1>2. i.op \in LoadOps /\ WriteReg(i.rt, val) /\ memory' = memory
  BY DEF Load, handle_rd
<1>3. last'.op = i.op /\ last'.address = a /\ last'.rd = i.rt
  BY <1>2, ExecutingIs
<1>4. i.rt # 0 => registers'[i.rt] = val
  <2> HIDE DEF val
  <2> QED BY <1>1, <1>2 DEF WriteReg, RegisterFile
<1>5. memory \in [WordAddress -> Word]
  BY DEF RegisterFile
<1> HIDE DEF a, rt
<1> QED BY <1>1, <1>2, <1>3, <1>4, <1>5

LEMMA StoreStep ==
    ASSUME RegisterFile, NEW i \in Instr, Executing(i), Store(i)
    PROVE  \E a \in Word, rt \in Word :
              /\ memory \in [WordAddress -> Word]
              /\ memory' = Poke(i.op, memory, a, rt)
              /\ last'.op = i.op /\ i.op \in StoreOps /\ last'.address = a
              /\ last'.rt = rt /\ last'.mem = memory
<1> DEFINE a == EffectiveAddress(i)
           rt == registers[i.rt]
<1>1. a \in Word /\ rt \in Word
  BY Operands
<1>2. memory' = Poke(i.op, memory, a, rt)
  BY DEF Store, Poke
<1>3. i.op \in StoreOps
  BY DEF Store, StoreOps
<1>4. last'.op = i.op /\ last'.address = a /\ last'.rt = rt /\ last'.mem = memory
  BY ExecutingIs
<1>5. memory \in [WordAddress -> Word]
  BY DEF RegisterFile
<1> HIDE DEF a, rt
<1> QED BY <1>1, <1>2, <1>3, <1>4, <1>5

(* The definitions of the two properties, after a step.                    *)
LEMMA SameBytesButNext ==
    ASSUME NEW m, NEW a, NEW n, SameBut(last'.mem, m, a, n)
    PROVE  \A b \in 0 .. (2^W - 1) :
              b \notin {(a + k) % 2^W : k \in 0 .. (n - 1)} =>
                  ByteAt(m, b) = ByteAt(last'.mem, b)
BY DEF SameBut, P

LEMMA NarrowStep ==
    ASSUME RegisterFile, NarrowAccess, inner_step
    PROVE  NarrowAccess'
<1> DEFINE Ops == {"lbu", "lb", "lhu", "lh", "sb", "sh"}
<1>1. CASE FetchUnaligned
  BY <1>1 DEF FetchUnaligned, Refuse, NarrowAccess, SameBytesBut, ByteAt, HalfAt, Extend, Wrap
<1>2. ASSUME NEW i \in Instr, Executing(i), i.op \notin Ops
      PROVE  NarrowAccess'
  BY <1>2, ExecutingIs DEF NarrowAccess
<1>3. ASSUME NEW i \in Instr, Executing(i), Load(i) PROVE NarrowAccess'
  <2>1. PICK a \in Word, rt \in Word :
           /\ memory \in [WordAddress -> Word] /\ memory' = memory
           /\ last'.op = i.op /\ i.op \in LoadOps /\ last'.address = a /\ last'.rd = i.rt
           /\ i.rt # 0 => registers'[i.rt] = execute_mem(i.op, a, rt, memory[a \div 4])
    BY <1>3, LoadStep
  <2> DEFINE h == a - (a % 2)
  <2>2. /\ execute_mem("lbu", a, rt, memory[a \div 4]) = ByteAt(memory, a)
        /\ execute_mem("lb", a, rt, memory[a \div 4]) = Extend(ByteAt(memory, a), B)
        /\ execute_mem("lhu", a, rt, memory[a \div 4]) = HalfAt(memory, h)
        /\ execute_mem("lh", a, rt, memory[a \div 4]) = Extend(HalfAt(memory, h), 2 * B)
    BY <2>1, NarrowLoads
  <2>3. i.op \notin {"sb", "sh"}
    BY <2>1 DEF LoadOps
  <2> QED BY <2>1, <2>2, <2>3 DEF NarrowAccess
<1>4. ASSUME NEW i \in Instr, Executing(i), Store(i) PROVE NarrowAccess'
  <2>1. PICK a \in Word, rt \in Word :
           /\ memory \in [WordAddress -> Word]
           /\ memory' = Poke(i.op, memory, a, rt)
           /\ last'.op = i.op /\ i.op \in StoreOps /\ last'.address = a
           /\ last'.rt = rt /\ last'.mem = memory
    BY <1>4, StoreStep
  <2> DEFINE h == a - (a % 2)
             m0 == memory
             m == memory'
  <2>0. /\ m0 \in [WordAddress -> Word] /\ last'.mem = m0 /\ h = a - (a % 2)
        /\ m = Poke(i.op, m0, a, rt)
        /\ last'.op = i.op /\ last'.address = a /\ last'.rt = rt
    BY <2>1
  <2> HIDE DEF h, m0, m
  <2>2. ASSUME i.op = "sb" PROVE ByteAt(m, a) = rt % 2^B /\ SameBut(last'.mem, m, a, 1)
    <3>1. m = Poke("sb", m0, a, rt)
      BY <2>0, <2>2
    <3>2. ByteAt(m, a) = rt % P(B) /\ SameBut(m0, m, a, 1)
      BY <2>0, <3>1, sbMemory
    <3> QED BY <2>0, <3>2 DEF P
  <2>3. ASSUME i.op = "sh" PROVE HalfAt(m, h) = rt % 2^(2 * B) /\ SameBut(last'.mem, m, h, 2)
    <3>1. m = Poke("sh", m0, a, rt)
      BY <2>0, <2>3
    <3>2. HalfAt(m, h) = rt % P(2 * B) /\ SameBut(m0, m, h, 2)
      BY <2>0, <3>1, shMemory
    <3> QED BY <2>0, <3>2 DEF P
  <2>5. i.op \notin LoadOps
    BY <2>1 DEF LoadOps, StoreOps
  <2>6. CASE i.op = "sb"
    <3>1. \A b \in 0 .. (2^W - 1) :
             b \notin {(a + k) % 2^W : k \in 0 .. (1 - 1)} =>
                 ByteAt(m, b) = ByteAt(last'.mem, b)
      BY <2>2, <2>6, SameBytesButNext
    <3>2. SameBytesBut(memory, a, 1)'
      BY <3>1 DEF SameBytesBut, m
    <3> QED BY <2>0, <2>2, <2>6, <3>2 DEF NarrowAccess, h, m
  <2>7. CASE i.op = "sh"
    <3>1. \A b \in 0 .. (2^W - 1) :
             b \notin {(h + k) % 2^W : k \in 0 .. (2 - 1)} =>
                 ByteAt(m, b) = ByteAt(last'.mem, b)
      BY <2>3, <2>7, SameBytesButNext
    <3>2. SameBytesBut(memory, a - (a % 2), 2)'
      BY <3>1 DEF SameBytesBut, m, h
    <3> QED BY <2>0, <2>3, <2>7, <3>2 DEF NarrowAccess, h, m
  <2>8. CASE i.op \notin {"sb", "sh"}
    BY <1>2, <1>4, <2>5, <2>8 DEF LoadOps
  <2> QED BY <2>6, <2>7, <2>8
<1>5. ASSUME NEW i \in Instr, Executing(i), HiLo(i) \/ Alu(i) PROVE NarrowAccess'
  <2>1. i.op \notin Ops
    BY <1>5 DEF HiLo, Alu
  <2> HIDE DEF Ops
  <2> QED BY <1>2, <1>5, <2>1
<1>6. ASSUME NEW i \in Instr, Executing(i),
             \/ Unknown(i) \/ Jump(i) \/ JumpRegister(i)
             \/ Branch(i) \/ AluImmediate(i) \/ Move(i)
      PROVE  NarrowAccess'
  <2>1. i.op \notin Ops
    BY <1>6, OtherOps DEF LoadOps, StoreOps
  <2> HIDE DEF Ops
  <2> QED BY <1>2, <1>6, <2>1
<1> HIDE DEF Ops
<1> QED BY <1>1, <1>3, <1>4, <1>5, <1>6, StepCases

(* Loads and stores of a byte or half word read, extend and write exactly  *)
(* the bytes they address (execute: lb, lh, lbu, lhu, sb, sh), whatever    *)
(* the address, the memory and the register.                               *)
THEOREM NarrowCorrect == Spec => []NarrowAccess
<1>1. Init => NarrowAccess
  BY DEF Init, NoInstr, NarrowAccess
<1>2. RegisterFile /\ NarrowAccess /\ [inner_step]_vars => NarrowAccess'
  <2>1. ASSUME NarrowAccess, UNCHANGED vars PROVE NarrowAccess'
    BY <2>1 DEF vars, NarrowAccess, SameBytesBut, ByteAt, HalfAt, Extend, Wrap
  <2> QED BY <2>1, NarrowStep
<1> QED BY <1>1, <1>2, RegistersCorrect, PTL DEF Spec

LEMMA UnalignedKept ==
    ASSUME UnalignedWords, UNCHANGED <<registers, memory, last>>
    PROVE  UnalignedWords'
BY DEF UnalignedWords, ThenLoad, ThenStore, SameBytesBut, ByteAt, HalfAt, WordAt

LEMMA UnalignedStep ==
    ASSUME RegisterFile, UnalignedWords, inner_step
    PROVE  UnalignedWords'
<1> DEFINE Ops == {"lwl", "lwr", "swl", "swr"}
<1>1. CASE FetchUnaligned
  <2>1. UNCHANGED <<registers, memory, last>>
    BY <1>1 DEF FetchUnaligned, Refuse
  <2> QED BY <2>1, UnalignedKept
<1>2. ASSUME NEW i \in Instr, Executing(i), i.op \notin Ops
      PROVE  UnalignedWords'
  BY <1>2, ExecutingIs DEF UnalignedWords
<1>3. ASSUME NEW i \in Instr, Executing(i), Load(i) PROVE UnalignedWords'
  <2>1. PICK a \in Word, rt \in Word :
           /\ memory \in [WordAddress -> Word] /\ memory' = memory
           /\ last'.op = i.op /\ i.op \in LoadOps /\ last'.address = a /\ last'.rd = i.rt
           /\ i.rt # 0 => registers'[i.rt] = execute_mem(i.op, a, rt, memory[a \div 4])
    BY <1>3, LoadStep
  <2> DEFINE v == registers'[i.rt]
             m == memory
  <2>2. /\ v = execute_mem("lwl", a, rt, m[a \div 4]) =>
               execute_mem("lwr", (a + 3) % 2^W, v, m[((a + 3) % 2^W) \div 4]) = WordAt(m, a)
        /\ v = execute_mem("lwr", a, rt, m[a \div 4]) =>
               execute_mem("lwl", (a - 3) % 2^W, v, m[((a - 3) % 2^W) \div 4])
                   = WordAt(m, a - 3)
    <3>1. m \in [WordAddress -> Word]
      BY <2>1
    <3> HIDE DEF v, m
    <3> QED BY <3>1, LoadPair
  <2>3. i.op \notin {"swl", "swr"}
    BY <2>1 DEF LoadOps
  <2> QED BY <2>1, <2>2, <2>3 DEF UnalignedWords, ThenLoad
<1>4. ASSUME NEW i \in Instr, Executing(i), Store(i) PROVE UnalignedWords'
  <2>1. PICK a \in Word, rt \in Word :
           /\ memory \in [WordAddress -> Word]
           /\ memory' = Poke(i.op, memory, a, rt)
           /\ last'.op = i.op /\ i.op \in StoreOps /\ last'.address = a
           /\ last'.rt = rt /\ last'.mem = memory
    BY <1>4, StoreStep
  <2> DEFINE m0 == memory
             m1 == memory'
  <2>0. /\ m0 \in [WordAddress -> Word] /\ last'.mem = m0
        /\ m1 = Poke(i.op, m0, a, rt)
        /\ last'.op = i.op /\ last'.address = a /\ last'.rt = rt
    BY <2>1
  <2> HIDE DEF m0, m1
  <2>2. ASSUME i.op = "swl", NEW m, m = Poke("swr", m1, (a + 3) % 2^W, rt)
        PROVE  WordAt(m, a) = rt /\ SameBut(last'.mem, m, a, 4)
    <3> DEFINE b == a + 3
    <3>1. m = Poke("swr", Poke("swl", m0, a, rt), b % 2^W, rt)
      BY <2>0, <2>2
    <3> HIDE DEF b
    <3>2. b = a + 3 => WordAt(m, a) = rt /\ SameBut(m0, m, a, 4)
      BY <2>0, <3>1, StorePair
    <3> QED BY <2>0, <3>2 DEF b
  <2>3. ASSUME i.op = "swr", NEW m, m = Poke("swl", m1, (a - 3) % 2^W, rt)
        PROVE  WordAt(m, a - 3) = rt /\ SameBut(last'.mem, m, a - 3, 4)
    <3> DEFINE b == a - 3
    <3>1. m = Poke("swl", Poke("swr", m0, a, rt), b % 2^W, rt)
      BY <2>0, <2>3
    <3> HIDE DEF b
    <3>2. b = a - 3 => WordAt(m, b) = rt /\ SameBut(m0, m, b, 4)
      BY <2>0, <3>1, StorePair
    <3> QED BY <2>0, <3>2 DEF b
  <2>4. i.op \notin LoadOps
    BY <2>1 DEF LoadOps, StoreOps
  <2>5. CASE i.op = "swl"
    <3> DEFINE m == Poke("swr", m1, (a + 3) % 2^W, rt)
    <3>1. WordAt(m, a) = rt /\ SameBut(last'.mem, m, a, 4)
      BY <2>2, <2>5
    <3>2. m = ThenStore("swr", a + 3)'
      BY <2>1 DEF ThenStore, Poke, m1
    <3> HIDE DEF m
    <3> QED BY <2>1, <2>5, <3>1, <3>2, SameBytesButNext DEF UnalignedWords, SameBytesBut
  <2>6. CASE i.op = "swr"
    <3> DEFINE m == Poke("swl", m1, (a - 3) % 2^W, rt)
    <3>1. WordAt(m, a - 3) = rt /\ SameBut(last'.mem, m, a - 3, 4)
      BY <2>3, <2>6
    <3>2. m = ThenStore("swl", a - 3)'
      BY <2>1 DEF ThenStore, Poke, m1
    <3> HIDE DEF m
    <3> QED BY <2>1, <2>6, <3>1, <3>2, SameBytesButNext DEF UnalignedWords, SameBytesBut
  <2>7. CASE i.op \notin {"swl", "swr"}
    BY <1>2, <1>4, <2>4, <2>7 DEF LoadOps
  <2> QED BY <2>5, <2>6, <2>7
<1>5. ASSUME NEW i \in Instr, Executing(i), HiLo(i) \/ Alu(i) PROVE UnalignedWords'
  <2>1. i.op \notin Ops
    BY <1>5 DEF HiLo, Alu
  <2> HIDE DEF Ops
  <2> QED BY <1>2, <1>5, <2>1
<1>6. ASSUME NEW i \in Instr, Executing(i),
             \/ Unknown(i) \/ Jump(i) \/ JumpRegister(i)
             \/ Branch(i) \/ AluImmediate(i) \/ Move(i)
      PROVE  UnalignedWords'
  <2>1. i.op \notin Ops
    BY <1>6, OtherOps DEF LoadOps, StoreOps
  <2> HIDE DEF Ops
  <2> QED BY <1>2, <1>6, <2>1
<1> HIDE DEF Ops
<1> QED BY <1>1, <1>3, <1>4, <1>5, <1>6, StepCases

(* lwl with lwr, and swl with swr, three bytes apart and in either order,  *)
(* move exactly the word at an address that need not be aligned (execute), *)
(* for every address, memory and register content.                         *)
THEOREM UnalignedCorrect == Spec => []UnalignedWords
<1>1. Init => UnalignedWords
  BY DEF Init, NoInstr, UnalignedWords
<1>2. RegisterFile /\ UnalignedWords /\ [inner_step]_vars => UnalignedWords'
  <2>1. ASSUME UnalignedWords, UNCHANGED vars PROVE UnalignedWords'
    BY <2>1, UnalignedKept DEF vars
  <2> QED BY <2>1, UnalignedStep
<1> QED BY <1>1, <1>2, RegistersCorrect, PTL DEF Spec

=============================================================================
