--------------------------- MODULE HintBufferProofs ---------------------------
(***************************************************************************)
(* Proofs about HintBuffer, for every prefix size and every stream of      *)
(* hints that the guest writes hint by hint: the buffer is never sliced    *)
(* past its end, and every hint written in full is delivered in order and  *)
(* once, over any number of errors, snapshots and resumed runs.            *)
(***************************************************************************)
EXTENDS HintBuffer, SequenceTheorems, FiniteSetTheorems, WellFoundedInduction, TLAPS

N == Len(Size)
FrameLen(h) == PREFIX + Size[h]
Place == Nat \X Nat

(* Where the hints of the stream start.                                    *)
IsStart(s) ==
    /\ s \in [1 .. (N + 1) -> Nat]
    /\ s[1] = 0 /\ s[N + 1] = Len(Stream)
    /\ \A h \in 1 .. N : s[h + 1] = s[h] + FrameLen(h)
    /\ \A h \in 1 .. N : \A i \in 1 .. FrameLen(h) : Stream[s[h] + i] = <<h, i>>

Start == CHOOSE s : IsStart(s)

(* The bytes of the stream after the first a, up to the b-th.              *)
Cut(a, b) == SubSeq(Stream, a + 1, b)

(* The buffer holds a part of the prefix of hint h, or nothing, and the    *)
(* rest is yet to be written.                                              *)
Resting(h, rest, buffer) ==
    \E c \in 0 .. (PREFIX - 1) :
        /\ Start[h] + c <= Len(Stream)
        /\ buffer = Cut(Start[h], Start[h] + c)
        /\ rest = Cut(Start[h] + c, Len(Stream))

(* It holds hint h and no more.                                            *)
Whole(h, rest, buffer) ==
    /\ h <= N
    /\ buffer = Cut(Start[h], Start[h + 1])
    /\ rest = Cut(Start[h + 1], Len(Stream))

(* The hint that is delivered next.                                        *)
Pending == base + Len(delivered) + 1

DeliveredInv ==
    /\ base \in Nat /\ Len(delivered) \in Nat
    /\ delivered = [k \in 1 .. Len(delivered) |-> Payload(base + k)]
    /\ Pending \in 1 .. (N + 1)
    /\ 1 .. (Pending - 1) \subseteq handled

BufferInv ==
    /\ looping \in BOOLEAN /\ status \in {"running", "err"}
    /\ Resting(Pending, unsent, last_hint) \/ (looping /\ Whole(Pending, unsent, last_hint))

(* The state a run is resumed from is at rest, and no hint before it is    *)
(* missing.                                                                *)
SavedInv ==
    \E h \in 1 .. (N + 1) :
        /\ Resting(h, saved.unsent, saved.last_hint)
        /\ 1 .. (h - 1) \subseteq handled

IInv == DeliveredInv /\ BufferInv /\ SavedInv

-----------------------------------------------------------------------------
(* The stream.                                                             *)

(* Every nonempty set of naturals has a least element.                     *)
LEMMA LeastNat ==
    ASSUME NEW T, T \subseteq Nat, T # {}
    PROVE  \E x \in T : \A y \in T : x <= y
<1> DEFINE Less == OpToRel(<, Nat)
<1>1. IsWellFoundedOn(Less, Nat)
  BY NatLessThanWellFounded
<1>2. \A y \in Nat, z \in Nat : <<y, z>> \in Less <=> y < z
  BY DEF OpToRel
<1> HIDE DEF Less
<1>3. PICK x \in T : \A y \in T : ~ (<<y, x>> \in Less)
  BY <1>1, WFMin, Zenon
<1>4. ASSUME NEW y \in T PROVE x <= y
  <2>1. x \in Nat /\ y \in Nat
    OBVIOUS
  <2>2. ~ (y < x)
    BY <1>2, <1>3, <2>1
  <2> QED BY <2>1, <2>2
<1> QED BY <1>4

LEMMA Sizes ==
    /\ N \in Nat /\ PREFIX \in Nat /\ PREFIX >= 1
    /\ \A h \in 1 .. N : /\ Size[h] \in Nat
                         /\ FrameLen(h) \in Nat /\ FrameLen(h) >= PREFIX
                         /\ Framed(h) \in Seq(Place) /\ Len(Framed(h)) = FrameLen(h)
                         /\ \A i \in 1 .. FrameLen(h) : Framed(h)[i] = <<h, i>>
<1>1. N \in Nat /\ PREFIX \in Nat /\ PREFIX >= 1
  BY HintAssumption DEF N
<1>2. ASSUME NEW h \in 1 .. N
      PROVE  /\ Size[h] \in Nat
             /\ FrameLen(h) \in Nat /\ FrameLen(h) >= PREFIX
             /\ Framed(h) \in Seq(Place) /\ Len(Framed(h)) = FrameLen(h)
             /\ \A i \in 1 .. FrameLen(h) : Framed(h)[i] = <<h, i>>
  <2>1. Size[h] \in Nat
    BY HintAssumption DEF N
  <2>2. FrameLen(h) \in Nat /\ FrameLen(h) >= PREFIX
    BY <1>1, <2>1 DEF FrameLen
  <2>3. Framed(h) = [i \in 1 .. FrameLen(h) |-> <<h, i>>]
    BY DEF Framed, FrameLen
  <2>4. \A i \in 1 .. FrameLen(h) : <<h, i>> \in Place
    BY <1>1, <2>2 DEF Place
  <2> QED BY <2>1, <2>2, <2>3, <2>4
<1> QED BY <1>1, <1>2

(* The recursion of FlattenSeq.                                            *)
IsFlat(f, m) == f = [i \in 1 .. m |-> IF i = 1 THEN Framed(i) ELSE f[i - 1] \o Framed(i)]

LEMMA FlatExists == ASSUME NEW m \in Nat PROVE \E f : IsFlat(f, m)
<1> DEFINE Bad == {k \in Nat : ~ \E f : IsFlat(f, k)}
<1> SUFFICES ASSUME Bad # {} PROVE FALSE
  OBVIOUS
<1>1. PICK k \in Bad : \A j \in Bad : k <= j
  <2>1. Bad \subseteq Nat
    OBVIOUS
  <2> QED BY <2>1, LeastNat, Zenon
<1>2. k # 0
  <2>1. IsFlat([i \in 1 .. 0 |-> 0], 0)
    BY DEF IsFlat
  <2> QED BY <2>1
<1>3. PICK f : IsFlat(f, k - 1)
  BY <1>1, <1>2
<1> DEFINE E(g, i) == IF i = 1 THEN Framed(i) ELSE g[i - 1] \o Framed(i)
           h == [i \in 1 .. k |-> IF i < k THEN f[i] ELSE E(f, i)]
<1>4. ASSUME NEW i \in 1 .. k PROVE h[i] = E(h, i)
  <2>1. h[i] = E(f, i)
    <3>1. CASE i < k
      <4>1. i \in 1 .. (k - 1)
        BY <3>1
      <4>2. f[i] = E(f, i)
        BY <1>3, <4>1 DEF IsFlat
      <4> HIDE DEF E
      <4> QED BY <3>1, <4>2
    <3>2. CASE ~ (i < k)
      BY <3>2
    <3> QED BY <3>1, <3>2
  <2>2. i # 1 => h[i - 1] = f[i - 1]
    <3> HIDE DEF E
    <3> QED OBVIOUS
  <2> HIDE DEF h
  <2> QED BY <2>1, <2>2
<1>5. IsFlat(h, k)
  <2>1. h = [i \in 1 .. k |-> h[i]]
    OBVIOUS
  <2> HIDE DEF h
  <2>2. [i \in 1 .. k |-> h[i]] = [i \in 1 .. k |-> E(h, i)]
    <3> HIDE DEF E
    <3> QED BY <1>4
  <2> QED BY <2>1, <2>2 DEF IsFlat
<1> HIDE DEF h
<1> QED BY <1>5

(* The stream is the last of them.                                         *)
LEMMA StreamFlat ==
    /\ N = 0 => Stream = << >>
    /\ N # 0 => \E f : IsFlat(f, N) /\ Stream = f[N]
<1> DEFINE seqs == [h \in 1 .. N |-> Framed(h)]
           Eqn(f) == f = [i \in 1 .. Len(seqs) |-> IF i = 1 THEN seqs[i] ELSE f[i - 1] \o seqs[i]]
<1>1. N \in Nat /\ Len(seqs) = N
  BY Sizes
<1>2. Stream = IF Len(seqs) = 0 THEN seqs ELSE (CHOOSE f : Eqn(f))[Len(seqs)]
  BY Zenon DEF Stream, FlattenSeq, N
<1>3. \A f : Eqn(f) <=> IsFlat(f, N)
  <2> SUFFICES ASSUME NEW f PROVE Eqn(f) <=> IsFlat(f, N)
    OBVIOUS
  <2>1. [i \in 1 .. N |-> IF i = 1 THEN seqs[i] ELSE f[i - 1] \o seqs[i]]
           = [i \in 1 .. N |-> IF i = 1 THEN Framed(i) ELSE f[i - 1] \o Framed(i)]
    OBVIOUS
  <2> HIDE DEF seqs
  <2> QED BY <1>1, <2>1 DEF IsFlat
<1>4. N = 0 => Stream = << >>
  <2> SUFFICES ASSUME N = 0 PROVE Stream = << >>
    OBVIOUS
  <2>1. Stream = seqs
    <3> HIDE DEF seqs
    <3> QED BY <1>1, <1>2
  <2> QED BY <1>1, <2>1
<1>5. N # 0 => \E f : IsFlat(f, N) /\ Stream = f[N]
  <2> SUFFICES ASSUME N # 0 PROVE \E f : IsFlat(f, N) /\ Stream = f[N]
    OBVIOUS
  <2> HIDE DEF seqs, Eqn
  <2>1. \E f : Eqn(f)
    BY <1>1, <1>3, FlatExists
  <2>2. Eqn(CHOOSE f : Eqn(f))
    BY <2>1
  <2> QED BY <1>1, <1>2, <1>3, <2>2
<1> QED BY <1>4, <1>5

(* Each of them is a sequence, and continues the one before.               *)
LEMMA FlatSeq ==
    ASSUME NEW f, IsFlat(f, N), N # 0
    PROVE  /\ f[1] = Framed(1)
           /\ \A i \in 1 .. N : f[i] \in Seq(Place)
           /\ \A i \in 2 .. N : f[i] = f[i - 1] \o Framed(i)
<1>1. N \in Nat
  BY Sizes
<1>2. f[1] = Framed(1) /\ \A i \in 2 .. N : f[i] = f[i - 1] \o Framed(i)
  <2> DEFINE E(i) == IF i = 1 THEN Framed(i) ELSE f[i - 1] \o Framed(i)
  <2>1. f = [i \in 1 .. N |-> E(i)]
    BY DEF IsFlat
  <2> HIDE DEF E
  <2>2. \A i \in 1 .. N : f[i] = E(i)
    BY <2>1
  <2>3. f[1] = E(1) /\ \A i \in 2 .. N : f[i] = E(i) /\ i # 1
    BY <1>1, <2>2
  <2> QED BY <2>3 DEF E
<1> DEFINE Bad == {i \in 1 .. N : f[i] \notin Seq(Place)}
<1>3. Bad = {}
  <2> SUFFICES ASSUME Bad # {} PROVE FALSE
    OBVIOUS
  <2>1. PICK i \in Bad : \A j \in Bad : i <= j
    <3>1. Bad \subseteq Nat
      BY <1>1
    <3> QED BY <3>1, LeastNat, Zenon
  <2>2. CASE i = 1
    BY <1>2, <2>2, Sizes
  <2>3. CASE i # 1
    <3>1. i \in 2 .. N /\ i - 1 \in 1 .. N /\ ~ (i <= i - 1)
      BY <1>1, <2>3
    <3>2. f[i - 1] \in Seq(Place)
      BY <2>1, <3>1
    <3>3. Framed(i) \in Seq(Place)
      BY Sizes
    <3> QED BY <1>2, <3>1, <3>2, <3>3, ConcatProperties
  <2> QED BY <2>2, <2>3
<1> QED BY <1>2, <1>3

(* Byte i of a hint stays where it is when hints follow.                   *)
LEMMA FlatByte ==
    ASSUME NEW f, IsFlat(f, N), N # 0, NEW h \in 1 .. N, NEW i \in 1 .. FrameLen(h),
           NEW s, s = IF h = 1 THEN 0 ELSE Len(f[h - 1])
    PROVE  /\ Len(f[h]) = s + FrameLen(h)
           /\ \A g \in h .. N : s + i <= Len(f[g]) /\ f[g][s + i] = <<h, i>>
<1>1. N \in Nat
  BY Sizes
<1>2. /\ f[1] = Framed(1) /\ \A g \in 1 .. N : f[g] \in Seq(Place)
      /\ \A g \in 2 .. N : f[g] = f[g - 1] \o Framed(g)
  BY FlatSeq
<1>3. \A g \in 1 .. N : Len(f[g]) \in Nat
  BY <1>2
<1>4. /\ FrameLen(h) \in Nat /\ Framed(h) \in Seq(Place) /\ Len(Framed(h)) = FrameLen(h)
      /\ Framed(h)[i] = <<h, i>>
  BY Sizes
<1>5. s \in Nat /\ Len(f[h]) = s + FrameLen(h) /\ f[h][s + i] = <<h, i>>
  <2>1. CASE h = 1
    BY <1>2, <1>4, <2>1
  <2>2. CASE h # 1
    <3>1. h \in 2 .. N /\ h - 1 \in 1 .. N
      BY <1>1, <2>2
    <3>2. f[h] = f[h - 1] \o Framed(h) /\ f[h - 1] \in Seq(Place) /\ s = Len(f[h - 1])
             /\ s \in Nat
      BY <1>2, <1>3, <2>2, <3>1
    <3>3. /\ Len(f[h - 1] \o Framed(h)) = Len(f[h - 1]) + Len(Framed(h))
          /\ \A k \in 1 .. Len(f[h - 1]) + Len(Framed(h)) :
                (f[h - 1] \o Framed(h))[k] = IF k <= Len(f[h - 1]) THEN f[h - 1][k]
                                             ELSE Framed(h)[k - Len(f[h - 1])]
      <4> DEFINE a == f[h - 1]
                 b == Framed(h)
      <4>1. a \in Seq(Place) /\ b \in Seq(Place)
        BY <1>4, <3>2
      <4> HIDE DEF a, b
      <4>2. /\ Len(a \o b) = Len(a) + Len(b)
            /\ \A k \in 1 .. Len(a) + Len(b) :
                  (a \o b)[k] = IF k <= Len(a) THEN a[k] ELSE b[k - Len(a)]
        BY <4>1, ConcatProperties
      <4> QED BY <4>2 DEF a, b
    <3>4. s + i \in 1 .. s + FrameLen(h) /\ ~ (s + i <= s) /\ (s + i) - s = i
      BY <1>4, <3>2
    <3> QED BY <1>4, <3>2, <3>3, <3>4
  <2> QED BY <2>1, <2>2
<1> DEFINE Bad == {g \in h .. N : ~ (s + i <= Len(f[g]) /\ f[g][s + i] = <<h, i>>)}
<1>6. Bad = {}
  <2> SUFFICES ASSUME Bad # {} PROVE FALSE
    OBVIOUS
  <2>1. PICK g \in Bad : \A j \in Bad : g <= j
    <3>1. Bad \subseteq Nat
      BY <1>1
    <3> QED BY <3>1, LeastNat, Zenon
  <2>2. CASE g = h
    BY <1>4, <1>5, <2>2
  <2>3. CASE g # h
    <3>1. g \in 2 .. N /\ g - 1 \in 1 .. N /\ g - 1 \in h .. N /\ ~ (g <= g - 1)
      BY <1>1, <2>3
    <3>2. s + i <= Len(f[g - 1]) /\ f[g - 1][s + i] = <<h, i>>
      BY <2>1, <3>1
    <3>3. f[g] = f[g - 1] \o Framed(g) /\ f[g - 1] \in Seq(Place) /\ Framed(g) \in Seq(Place)
             /\ Len(f[g - 1]) \in Nat /\ Len(Framed(g)) \in Nat
      <4>1. g \in 1 .. N
        BY <1>1, <3>1
      <4>2. Framed(g) \in Seq(Place) /\ Len(Framed(g)) \in Nat
        BY <4>1, Sizes
      <4> QED BY <1>2, <1>3, <3>1, <4>2
    <3>4. /\ Len(f[g]) = Len(f[g - 1]) + Len(Framed(g))
          /\ \A k \in 1 .. Len(f[g - 1]) + Len(Framed(g)) :
                f[g][k] = IF k <= Len(f[g - 1]) THEN f[g - 1][k]
                          ELSE Framed(g)[k - Len(f[g - 1])]
      BY <3>3, ConcatProperties
    <3>5. s + i \in 1 .. Len(f[g - 1]) + Len(Framed(g)) /\ s + i <= Len(f[g])
      BY <1>4, <1>5, <3>2, <3>3, <3>4
    <3> QED BY <2>1, <3>2, <3>4, <3>5
  <2> QED BY <2>2, <2>3
<1>7. ASSUME NEW g \in h .. N PROVE s + i <= Len(f[g]) /\ f[g][s + i] = <<h, i>>
  <2> HIDE DEF Bad
  <2>1. g \notin Bad
    BY <1>6
  <2> QED BY <2>1 DEF Bad
<1> QED BY <1>5, <1>7

LEMMA StartExists == \E s : IsStart(s)
<1>0. N \in Nat /\ PREFIX >= 1 /\ PREFIX \in Nat
  BY Sizes
<1>1. CASE N = 0
  <2> DEFINE s == [h \in 1 .. 1 |-> 0]
  <2>1. Len(Stream) = 0
    BY <1>1, StreamFlat
  <2>2. IsStart(s)
    BY <1>1, <2>1 DEF IsStart
  <2> QED BY <2>2
<1>2. CASE N # 0
  <2>1. PICK f : IsFlat(f, N) /\ Stream = f[N]
    BY <1>2, StreamFlat
  <2> DEFINE s == [h \in 1 .. (N + 1) |-> IF h = 1 THEN 0 ELSE Len(f[h - 1])]
  <2>2. s \in [1 .. (N + 1) -> Nat]
    <3>1. \A g \in 1 .. N : Len(f[g]) \in Nat
      BY <1>2, <2>1, FlatSeq
    <3>2. ASSUME NEW h \in 1 .. (N + 1) PROVE (IF h = 1 THEN 0 ELSE Len(f[h - 1])) \in Nat
      <4>1. h # 1 => h - 1 \in 1 .. N
        BY <1>0
      <4> QED BY <3>1, <4>1
    <3> QED BY <3>2
  <2>3. s[1] = 0 /\ s[N + 1] = Len(Stream)
    BY <1>0, <1>2, <2>1
  <2>4. ASSUME NEW h \in 1 .. N
        PROVE  /\ s[h + 1] = s[h] + FrameLen(h)
               /\ \A i \in 1 .. FrameLen(h) : Stream[s[h] + i] = <<h, i>>
    <3>1. s[h] = IF h = 1 THEN 0 ELSE Len(f[h - 1])
      BY <1>0
    <3>2. s[h + 1] = Len(f[h])
      BY <1>0
    <3>3. FrameLen(h) \in Nat /\ 1 \in 1 .. FrameLen(h) /\ N \in h .. N
      BY <1>0, Sizes
    <3> HIDE DEF s
    <3>4. Len(f[h]) = s[h] + FrameLen(h)
      BY <1>2, <2>1, <3>1, <3>3, FlatByte
    <3>5. ASSUME NEW i \in 1 .. FrameLen(h) PROVE f[N][s[h] + i] = <<h, i>>
      BY <1>2, <2>1, <3>1, <3>3, FlatByte
    <3> QED BY <2>1, <3>2, <3>4, <3>5
  <2> HIDE DEF s
  <2>5. IsStart(s)
    BY <2>2, <2>3, <2>4 DEF IsStart
  <2> QED BY <2>5
<1> QED BY <1>1, <1>2

LEMMA Starts == IsStart(Start)
BY StartExists DEF Start

(* Every byte of the stream is a byte of a hint.                           *)
LEMMA Located ==
    ASSUME NEW p \in 1 .. Len(Stream)
    PROVE  \E h \in 1 .. N : p - Start[h] \in 1 .. FrameLen(h)
<1>1. N \in Nat /\ IsStart(Start)
  BY Sizes, Starts
<1>2. /\ \A h \in 1 .. (N + 1) : Start[h] \in Nat
      /\ Start[1] = 0 /\ Start[N + 1] = Len(Stream)
      /\ \A h \in 1 .. N : Start[h + 1] = Start[h] + FrameLen(h)
  BY <1>1 DEF IsStart
<1> DEFINE Past == {h \in 1 .. (N + 1) : p <= Start[h]}
<1>3. PICK h \in Past : \A j \in Past : h <= j
  <2>1. Past \subseteq Nat /\ N + 1 \in Past
    BY <1>1, <1>2
  <2> QED BY <2>1, LeastNat, Zenon
<1>4. h # 1
  BY <1>2
<1>5. h - 1 \in 1 .. N /\ h - 1 \in 1 .. (N + 1) /\ ~ (h <= h - 1) /\ (h - 1) + 1 = h
  BY <1>1, <1>4
<1>6. ~ (p <= Start[h - 1]) /\ p <= Start[h]
  BY <1>3, <1>5
<1>7. Start[h] = Start[h - 1] + FrameLen(h - 1) /\ Start[h - 1] \in Nat
         /\ FrameLen(h - 1) \in Nat
  BY <1>2, <1>5, Sizes
<1>8. p - Start[h - 1] \in 1 .. FrameLen(h - 1)
  BY <1>2, <1>6, <1>7
<1> QED BY <1>5, <1>8

(* The hints follow each other.                                            *)
LEMMA StartMonotone ==
    ASSUME NEW g \in 1 .. (N + 1), NEW h \in g .. (N + 1)
    PROVE  Start[g] <= Start[h]
<1>1. N \in Nat /\ IsStart(Start)
  BY Sizes, Starts
<1>2. /\ \A k \in 1 .. (N + 1) : Start[k] \in Nat
      /\ \A k \in 1 .. N : Start[k + 1] = Start[k] + FrameLen(k)
  BY <1>1 DEF IsStart
<1> DEFINE Bad == {k \in g .. (N + 1) : ~ (Start[g] <= Start[k])}
<1> SUFFICES ASSUME Bad # {} PROVE FALSE
  OBVIOUS
<1>3. PICK k \in Bad : \A j \in Bad : k <= j
  <2>1. Bad \subseteq Nat
    BY <1>1
  <2> QED BY <2>1, LeastNat, Zenon
<1>4. k # g
  BY <1>2
<1>5. k - 1 \in g .. (N + 1) /\ k - 1 \in 1 .. N /\ ~ (k <= k - 1) /\ (k - 1) + 1 = k
  BY <1>1, <1>4
<1>6. Start[g] <= Start[k - 1]
  BY <1>3, <1>5
<1>7. Start[k] = Start[k - 1] + FrameLen(k - 1) /\ Start[k - 1] \in Nat
         /\ FrameLen(k - 1) \in Nat
  BY <1>1, <1>2, <1>5, Sizes
<1> QED BY <1>2, <1>6, <1>7

LEMMA StreamSeq == Stream \in Seq(Place) /\ Len(Stream) \in Nat
<1>1. N \in Nat
  BY Sizes
<1>2. CASE N = 0
  BY <1>2, StreamFlat
<1>3. CASE N # 0
  <2>1. PICK f : IsFlat(f, N) /\ Stream = f[N]
    BY <1>3, StreamFlat
  <2>2. Stream \in Seq(Place)
    BY <1>1, <1>3, <2>1, FlatSeq
  <2> QED BY <2>2
<1> QED BY <1>2, <1>3

(* What is known of the hints' places, without the definition of IsStart.  *)
LEMMA StartFacts ==
    /\ N \in Nat /\ PREFIX \in Nat /\ PREFIX >= 1 /\ Len(Stream) \in Nat
    /\ \A h \in 1 .. (N + 1) : Start[h] \in 0 .. Len(Stream)
    /\ Start[1] = 0 /\ Start[N + 1] = Len(Stream)
    /\ \A h \in 1 .. N : /\ Size[h] \in Nat /\ FrameLen(h) \in Nat
                         /\ FrameLen(h) >= PREFIX
                         /\ Start[h + 1] = Start[h] + FrameLen(h)
                         /\ \A i \in 1 .. FrameLen(h) : Stream[Start[h] + i] = <<h, i>>
<1>1. N \in Nat /\ PREFIX \in Nat /\ PREFIX >= 1 /\ Len(Stream) \in Nat
  BY Sizes, StreamSeq
<1>2. /\ \A h \in 1 .. (N + 1) : Start[h] \in Nat
      /\ Start[1] = 0 /\ Start[N + 1] = Len(Stream)
      /\ \A h \in 1 .. N : /\ Start[h + 1] = Start[h] + FrameLen(h)
                           /\ \A i \in 1 .. FrameLen(h) : Stream[Start[h] + i] = <<h, i>>
  BY Starts DEF IsStart
<1>3. ASSUME NEW h \in 1 .. (N + 1) PROVE Start[h] \in 0 .. Len(Stream)
  <2>1. N + 1 \in h .. (N + 1)
    BY <1>1
  <2>2. Start[h] <= Start[N + 1]
    BY <2>1, StartMonotone
  <2> QED BY <1>1, <1>2, <2>2
<1> QED BY <1>1, <1>2, <1>3, Sizes

(* A byte of the stream says which hint it is of, and where it is in it.   *)
LEMMA ByteAt ==
    ASSUME NEW p \in 1 .. Len(Stream)
    PROVE  \E h \in 1 .. N : /\ p - Start[h] \in 1 .. FrameLen(h)
                             /\ Stream[p] = <<h, p - Start[h]>>
<1>1. PICK h \in 1 .. N : p - Start[h] \in 1 .. FrameLen(h)
  BY Located
<1>2. Start[h] \in Nat /\ N \in Nat
  BY StartFacts
<1>3. p = Start[h] + (p - Start[h])
  BY <1>2
<1>4. Stream[Start[h] + (p - Start[h])] = <<h, p - Start[h]>>
  BY <1>1, StartFacts
<1> QED BY <1>1, <1>3, <1>4

LEMMA CutSeq ==
    ASSUME NEW a \in 0 .. Len(Stream), NEW b \in a .. Len(Stream)
    PROVE  /\ Cut(a, b) \in Seq(Place) /\ Len(Cut(a, b)) = b - a
           /\ \A k \in 1 .. (b - a) : Cut(a, b)[k] = Stream[a + k]
<1>1. Stream \in Seq(Place) /\ Len(Stream) \in Nat
  BY StreamSeq
<1>2. \A i \in (a + 1) .. b : Stream[i] \in Place
  BY <1>1
<1>3. /\ Cut(a, b) \in Seq(Place)
      /\ Len(Cut(a, b)) = IF a + 1 <= b THEN b - (a + 1) + 1 ELSE 0
      /\ \A i \in 1 .. b - (a + 1) + 1 : Cut(a, b)[i] = Stream[(a + 1) + i - 1]
  <2>1. a + 1 \in Int /\ b \in Int
    BY <1>1
  <2> DEFINE m == a + 1
  <2> HIDE DEF m
  <2>2. /\ SubSeq(Stream, m, b) \in Seq(Place)
        /\ Len(SubSeq(Stream, m, b)) = IF m <= b THEN b - m + 1 ELSE 0
        /\ \A i \in 1 .. b - m + 1 : SubSeq(Stream, m, b)[i] = Stream[m + i - 1]
    <3>1. m \in Int /\ \A i \in m .. b : Stream[i] \in Place
      BY <1>2, <2>1 DEF m
    <3> QED BY <2>1, <3>1, SubSeqProperties
  <2> QED BY <2>2 DEF m, Cut
<1>4. Len(Cut(a, b)) = b - a
  BY <1>1, <1>3
<1>5. ASSUME NEW k \in 1 .. (b - a) PROVE Cut(a, b)[k] = Stream[a + k]
  <2>1. k \in 1 .. b - (a + 1) + 1 /\ (a + 1) + k - 1 = a + k
    BY <1>1
  <2> QED BY <1>3, <2>1
<1> QED BY <1>3, <1>4, <1>5

LEMMA CutOfCut ==
    ASSUME NEW a \in 0 .. Len(Stream), NEW b \in a .. Len(Stream),
           NEW m \in 0 .. (b - a), NEW n \in m .. (b - a)
    PROVE  SubSeq(Cut(a, b), m + 1, n) = Cut(a + m, a + n)
<1>0. Len(Stream) \in Nat
  BY StreamSeq
<1> DEFINE q == SubSeq(Cut(a, b), m + 1, n)
           r == Cut(a + m, a + n)
<1>1. /\ Len(Cut(a, b)) = b - a /\ Cut(a, b) \in Seq(Place)
      /\ \A k \in 1 .. (b - a) : Cut(a, b)[k] = Stream[a + k]
  BY CutSeq
<1>2. a + m \in 0 .. Len(Stream) /\ a + n \in (a + m) .. Len(Stream) /\ (a + n) - (a + m) = n - m
  BY <1>0
<1>3. r \in Seq(Place) /\ Len(r) = n - m /\ \A k \in 1 .. (n - m) : r[k] = Stream[(a + m) + k]
  BY <1>2, CutSeq
<1>4. q \in Seq(Place) /\ Len(q) = n - m /\ \A k \in 1 .. (n - m) : q[k] = Cut(a, b)[m + k]
  <2> DEFINE m1 == m + 1
             t == Cut(a, b)
  <2>1. m1 \in Int /\ n \in Int
    BY <1>0
  <2>2. \A i \in m1 .. n : t[i] \in Place
    BY <1>0, <1>1
  <2>3. m1 = m + 1
    OBVIOUS
  <2> HIDE DEF m1, t
  <2>4. /\ SubSeq(t, m1, n) \in Seq(Place)
        /\ Len(SubSeq(t, m1, n)) = IF m1 <= n THEN n - m1 + 1 ELSE 0
        /\ \A i \in 1 .. n - m1 + 1 : SubSeq(t, m1, n)[i] = t[m1 + i - 1]
    BY <2>1, <2>2, SubSeqProperties
  <2>5. Len(SubSeq(t, m1, n)) = n - m /\ n - m1 + 1 = n - m
    BY <1>0, <2>3, <2>4
  <2>6. ASSUME NEW k \in 1 .. (n - m) PROVE SubSeq(t, m1, n)[k] = t[m + k]
    <3>1. m1 + k - 1 = m + k
      BY <1>0, <2>3
    <3> QED BY <2>4, <2>5, <3>1
  <2> QED BY <2>4, <2>5, <2>6 DEF m1, t
<1>5. ASSUME NEW k \in 1 .. (n - m) PROVE q[k] = r[k]
  <2>1. m + k \in 1 .. (b - a) /\ a + (m + k) = (a + m) + k
    BY <1>0
  <2> QED BY <1>1, <1>3, <1>4, <2>1
<1> HIDE DEF q, r
<1>6. q = r
  <2>1. Len(q) = Len(r) /\ n - m \in Nat
    BY <1>0, <1>3, <1>4
  <2>2. \A k \in 1 .. Len(q) : q[k] = r[k]
    BY <1>4, <1>5
  <2> QED BY <1>3, <1>4, <2>1, <2>2, SeqEqual
<1> QED BY <1>6 DEF q, r

LEMMA CutJoin ==
    ASSUME NEW a \in 0 .. Len(Stream), NEW b \in a .. Len(Stream), NEW c \in b .. Len(Stream)
    PROVE  Cut(a, b) \o Cut(b, c) = Cut(a, c)
<1>1. Stream \in Seq(Place) /\ Len(Stream) \in Nat
  BY StreamSeq
<1> DEFINE m == a + 1
<1>2. m \in 1 .. Len(Stream) + 1 /\ b \in (m - 1) .. Len(Stream)
  BY <1>1
<1> HIDE DEF m
<1>3. SubSeq(Stream, m, b) \o SubSeq(Stream, b + 1, c) = SubSeq(Stream, m, c)
  BY <1>1, <1>2, ConcatAdjacentSubSeq
<1> QED BY <1>3 DEF m, Cut

(* At rest, the hints that came before the pending one are those of which  *)
(* no byte is to come.                                                     *)
LEMMA BeforeResting ==
    ASSUME NEW h \in 1 .. (N + 1), NEW rest, NEW buffer, Resting(h, rest, buffer)
    PROVE  Before(rest) = 1 .. (h - 1)
<1> DEFINE L == Len(Stream)
<1>1. /\ N \in Nat /\ PREFIX \in Nat /\ L \in Nat /\ Start[h] \in 0 .. L
      /\ \A g \in 1 .. (N + 1) : Start[g] \in 0 .. L
      /\ \A g \in 1 .. N : FrameLen(g) \in Nat /\ FrameLen(g) >= PREFIX
                           /\ Start[g + 1] = Start[g] + FrameLen(g)
  BY StartFacts
<1>2. PICK c \in 0 .. (PREFIX - 1) : /\ Start[h] + c <= L
                                     /\ rest = Cut(Start[h] + c, L)
  BY DEF Resting
<1> DEFINE pos == Start[h] + c
<1>3. pos \in 0 .. L /\ L \in pos .. L
  BY <1>1, <1>2
<1>4. /\ rest \in Seq(Place) /\ Len(rest) = L - pos
      /\ \A k \in 1 .. (L - pos) : rest[k] = Stream[pos + k]
  BY <1>2, <1>3, CutSeq
<1>5. DOMAIN rest = 1 .. (L - pos)
  BY <1>4
<1>6. ASSUME NEW g \in 1 .. N, g < h, NEW k \in 1 .. (L - pos) PROVE rest[k][1] # g
  <2>1. pos + k \in 1 .. L
    BY <1>1, <1>3
  <2>2. PICK e \in 1 .. N : /\ (pos + k) - Start[e] \in 1 .. FrameLen(e)
                            /\ Stream[pos + k] = <<e, (pos + k) - Start[e]>>
    BY <2>1, ByteAt
  <2>3. rest[k][1] = e
    BY <1>4, <2>2
  <2> SUFFICES ASSUME e = g PROVE FALSE
    BY <2>3
  <2>4. Start[g + 1] <= Start[h]
    <3>1. g + 1 \in 1 .. (N + 1) /\ h \in (g + 1) .. (N + 1)
      BY <1>1, <1>6
    <3> QED BY <3>1, StartMonotone
  <2>5. Start[g] \in Nat /\ Start[g + 1] = Start[g] + FrameLen(g) /\ FrameLen(g) \in Nat
    BY <1>1
  <2>6. (pos + k) - Start[g] \in 1 .. FrameLen(g)
    BY <2>2
  <2>7. Start[h] \in Nat /\ c \in Nat /\ k \in Nat /\ k >= 1 /\ pos = Start[h] + c
    BY <1>1, <1>3
  <2> DEFINE x == Start[h]
             y == Start[g]
             l == FrameLen(g)
  <2>8. /\ x \in Nat /\ y \in Nat /\ l \in Nat /\ c \in Nat /\ k \in Nat /\ k >= 1
        /\ y + l <= x /\ ((x + c) + k) - y <= l
    <3>1. Start[g] + FrameLen(g) <= Start[h]
      BY <2>4, <2>5
    <3>2. (pos + k) - Start[g] <= FrameLen(g)
      BY <2>5, <2>6, <2>7
    <3> QED BY <2>5, <2>7, <3>1, <3>2
  <2> HIDE DEF x, y, l
  <2> QED BY <2>8
<1>7. ASSUME NEW g \in 1 .. N, ~ (g < h) PROVE \E k \in 1 .. (L - pos) : rest[k][1] = g
  <2>1. Start[h] <= Start[g]
    <3>1. g \in h .. (N + 1)
      BY <1>1, <1>7
    <3> QED BY <3>1, StartMonotone
  <2>2. Start[g] \in Nat /\ FrameLen(g) \in Nat /\ FrameLen(g) >= PREFIX
           /\ Start[g + 1] = Start[g] + FrameLen(g) /\ Start[g + 1] \in 0 .. L
    BY <1>1
  <2> DEFINE k == Start[g + 1] - pos
  <2>3. k \in 1 .. (L - pos) /\ pos + k = Start[g] + FrameLen(g)
    BY <1>1, <1>2, <2>1, <2>2
  <2>4. Stream[Start[g] + FrameLen(g)] = <<g, FrameLen(g)>>
    <3>1. FrameLen(g) \in 1 .. FrameLen(g)
      BY <2>2, StartFacts
    <3> QED BY <3>1, StartFacts
  <2> HIDE DEF k
  <2> QED BY <1>4, <2>3, <2>4
<1> HIDE DEF pos
<1>8. ASSUME NEW g PROVE g \in Before(rest) <=> g \in 1 .. (h - 1)
  <2>1. g \in Before(rest) <=> g \in 1 .. N /\ \A k \in 1 .. (L - pos) : rest[k][1] # g
    BY <1>5 DEF Before, N
  <2>2. g \in 1 .. (h - 1) <=> g \in 1 .. N /\ g < h
    BY <1>1
  <2> QED BY <1>6, <1>7, <2>1, <2>2
<1> QED BY <1>8

-----------------------------------------------------------------------------
(* The buffer.                                                             *)

(* Between two hints the buffer is empty.                                  *)
LEMMA RestingStart ==
    ASSUME NEW h \in 1 .. (N + 1)
    PROVE  Resting(h, Cut(Start[h], Len(Stream)), << >>)
<1>1. PREFIX \in Nat /\ PREFIX >= 1 /\ Len(Stream) \in Nat /\ Start[h] \in 0 .. Len(Stream)
  BY StartFacts
<1>2. Start[h] + 0 = Start[h] /\ 0 \in 0 .. (PREFIX - 1) /\ Start[h] + 0 <= Len(Stream)
  BY <1>1
<1>3. Cut(Start[h], Start[h]) = << >>
  <2> DEFINE m == Start[h] + 1
             n == Start[h]
  <2>1. m \in Int /\ n \in Int /\ n < m
    BY <1>1
  <2> HIDE DEF m, n
  <2>2. SubSeq(Stream, m, n) = << >>
    BY <2>1, SubSeqEmpty
  <2> QED BY <2>2 DEF m, n, Cut
<1> QED BY <1>2, <1>3 DEF Resting

(* A part of a prefix is shorter than a prefix.                            *)
LEMMA RestingShort ==
    ASSUME NEW h \in 1 .. (N + 1), NEW rest, NEW buffer, Resting(h, rest, buffer)
    PROVE  Len(buffer) \in Nat /\ Len(buffer) < PREFIX
<1>1. PREFIX \in Nat /\ Len(Stream) \in Nat /\ Start[h] \in 0 .. Len(Stream)
  BY StartFacts
<1>2. PICK c \in 0 .. (PREFIX - 1) : /\ Start[h] + c <= Len(Stream)
                                     /\ buffer = Cut(Start[h], Start[h] + c)
  BY DEF Resting
<1>3. Start[h] + c \in Start[h] .. Len(Stream) /\ (Start[h] + c) - Start[h] = c
  BY <1>1, <1>2
<1>4. Len(buffer) = (Start[h] + c) - Start[h]
  BY <1>1, <1>2, <1>3, CutSeq
<1> QED BY <1>1, <1>3, <1>4

(* A write of a guest that writes hint by hint leaves the buffer with a    *)
(* part of a prefix or with a whole hint.                                  *)
LEMMA WriteStep ==
    ASSUME NEW h \in 1 .. (N + 1), NEW rest, NEW buffer, Resting(h, rest, buffer),
           NEW n \in 1 .. Len(rest),
           rest[n][1] = rest[1][1],
           rest[n][2] < PREFIX \/ rest[n][2] = PREFIX + Size[rest[n][1]]
    PROVE  \/ Resting(h, SubSeq(rest, n + 1, Len(rest)), buffer \o SubSeq(rest, 1, n))
           \/ Whole(h, SubSeq(rest, n + 1, Len(rest)), buffer \o SubSeq(rest, 1, n))
<1> DEFINE L == Len(Stream)
           a == Start[h]
<1>1. /\ N \in Nat /\ PREFIX \in Nat /\ PREFIX >= 1 /\ L \in Nat /\ a \in 0 .. L
      /\ h = N + 1 => a = L
  BY StartFacts
<1>2. PICK c \in 0 .. (PREFIX - 1) : /\ a + c <= L
                                     /\ buffer = Cut(a, a + c)
                                     /\ rest = Cut(a + c, L)
  BY DEF Resting
<1> DEFINE pos == a + c
<1>3. pos \in Nat /\ a \in Nat /\ c \in Nat /\ a <= pos /\ pos <= L /\ pos = a + c /\ c < PREFIX
  <2> HIDE DEF L, a
  <2> QED BY <1>1, <1>2
<1>4. /\ buffer = Cut(a, pos) /\ rest = Cut(pos, L)
      /\ rest \in Seq(Place) /\ Len(rest) = L - pos
      /\ \A k \in 1 .. (L - pos) : rest[k] = Stream[pos + k]
  <2>1. pos \in 0 .. Len(Stream) /\ Len(Stream) \in pos .. Len(Stream)
    <3> HIDE DEF pos
    <3> QED BY <1>1, <1>3
  <2>2. buffer = Cut(a, pos) /\ rest = Cut(pos, Len(Stream))
    BY <1>2
  <2> HIDE DEF pos, a
  <2> QED BY <2>1, <2>2, CutSeq
<1> HIDE DEF pos, L, a
<1>5. n \in Nat /\ n >= 1 /\ n <= L - pos /\ pos < L
  <2>1. n \in 1 .. (L - pos)
    BY <1>4
  <2> QED BY <1>1, <1>3, <2>1
<1>6. h \in 1 .. N
  <2>1. h # N + 1
    BY <1>1, <1>3, <1>5
  <2> QED BY <1>1, <2>1
<1> DEFINE l == FrameLen(h)
<1>7. /\ l \in Nat /\ l >= PREFIX /\ l = PREFIX + Size[h] /\ Start[h + 1] = a + l
      /\ \A i \in 1 .. l : Stream[a + i] = <<h, i>>
  BY <1>6, StartFacts DEF FrameLen, a
<1> HIDE DEF l
<1>8. rest[1] = <<h, c + 1>>
  <2>1. c + 1 \in 1 .. l /\ pos + 1 = a + (c + 1) /\ 1 \in 1 .. (L - pos)
    BY <1>1, <1>3, <1>5, <1>7
  <2> QED BY <1>4, <1>7, <2>1
<1> DEFINE j == (pos + n) - a
<1>9. rest[n] = <<h, j>>
  <2>1. pos + n \in 1 .. Len(Stream) /\ n \in 1 .. (L - pos)
    <3>1. pos + n \in 1 .. L /\ n \in 1 .. (L - pos)
      BY <1>1, <1>3, <1>5
    <3> QED BY <3>1 DEF L
  <2>2. PICK e \in 1 .. N : Stream[pos + n] = <<e, (pos + n) - Start[e]>>
    BY <2>1, ByteAt
  <2>3. rest[n] = <<e, (pos + n) - Start[e]>>
    BY <1>4, <2>1, <2>2
  <2>4. e = h
    BY <1>8, <2>3
  <2> QED BY <2>3, <2>4 DEF a
<1>10. j = c + n /\ pos + n = a + j /\ j \in Nat /\ a + j <= L /\ (j < PREFIX \/ j = l)
  <2>1. j = c + n /\ pos + n = a + j /\ j \in Nat /\ a + j <= L
    BY <1>1, <1>3, <1>5
  <2> HIDE DEF j
  <2>2. j < PREFIX \/ j = PREFIX + Size[h]
    BY <1>9
  <2> QED BY <1>7, <2>1, <2>2
<1> HIDE DEF j
<1>11. SubSeq(rest, n + 1, Len(rest)) = Cut(a + j, L)
  <2> DEFINE d == L - pos
  <2>1. pos \in 0 .. L /\ L \in pos .. L /\ n \in 0 .. d /\ d \in n .. d /\ pos + d = L
    BY <1>1, <1>3, <1>5
  <2> HIDE DEF d
  <2>2. pos \in 0 .. Len(Stream) /\ L \in pos .. Len(Stream)
    BY <2>1 DEF L
  <2>3. n \in 0 .. (L - pos) /\ d \in n .. (L - pos)
    BY <2>1 DEF d
  <2>4. SubSeq(Cut(pos, L), n + 1, d) = Cut(pos + n, pos + d)
    BY <2>2, <2>3, CutOfCut
  <2>5. Len(rest) = d
    BY <1>4 DEF d
  <2> QED BY <1>4, <1>10, <2>1, <2>4, <2>5
<1>12. buffer \o SubSeq(rest, 1, n) = Cut(a, a + j)
  <2> DEFINE z == 0
             w == pos + n
  <2>1. /\ z \in 0 .. (L - pos) /\ n \in z .. (L - pos) /\ pos + z = pos /\ z + 1 = 1
        /\ pos \in 0 .. L /\ L \in pos .. L /\ a \in 0 .. L /\ pos \in a .. L /\ w \in pos .. L
    BY <1>1, <1>3, <1>5
  <2> HIDE DEF z, w
  <2>2. /\ pos \in 0 .. Len(Stream) /\ L \in pos .. Len(Stream) /\ a \in 0 .. Len(Stream)
        /\ pos \in a .. Len(Stream) /\ w \in pos .. Len(Stream)
    BY <2>1 DEF L
  <2>3. SubSeq(Cut(pos, L), z + 1, n) = Cut(pos + z, pos + n)
    BY <2>1, <2>2, CutOfCut
  <2>4. SubSeq(rest, 1, n) = Cut(pos, w)
    BY <1>4, <2>1, <2>3 DEF w
  <2>5. Cut(a, pos) \o Cut(pos, w) = Cut(a, w)
    BY <2>2, CutJoin
  <2>6. w = a + j
    BY <1>10 DEF w
  <2> QED BY <1>4, <2>4, <2>5, <2>6
<1>13. CASE j < PREFIX
  <2>1. j \in 0 .. (PREFIX - 1)
    BY <1>1, <1>10, <1>13
  <2>2. Resting(h, SubSeq(rest, n + 1, Len(rest)), buffer \o SubSeq(rest, 1, n))
    BY <1>10, <1>11, <1>12, <2>1 DEF Resting, L, a
  <2> QED BY <2>2
<1>14. CASE j = l
  <2>1. a + j = Start[h + 1] /\ h <= N
    BY <1>1, <1>6, <1>7, <1>14
  <2>2. Whole(h, SubSeq(rest, n + 1, Len(rest)), buffer \o SubSeq(rest, 1, n))
    BY <1>11, <1>12, <2>1 DEF Whole, L, a
  <2> QED BY <2>2
<1> QED BY <1>10, <1>13, <1>14

(* A whole hint is cut off: the oracle is given its payload, and nothing   *)
(* stays in the buffer.                                                    *)
LEMMA WholeHint ==
    ASSUME NEW h \in 1 .. (N + 1), NEW rest, NEW buffer, Whole(h, rest, buffer)
    PROVE  /\ h \in 1 .. N /\ Size[h] \in Nat
           /\ Len(buffer) = PREFIX + Size[h] /\ buffer[1][1] = h
           /\ SubSeq(buffer, PREFIX + 1, PREFIX + Size[h]) = Payload(h)
           /\ Resting(h + 1, rest, SubSeq(buffer, PREFIX + Size[h] + 1, Len(buffer)))
<1> DEFINE L == Len(Stream)
           a == Start[h]
           l == FrameLen(h)
           z == Size[h]
<1>1. N \in Nat /\ PREFIX \in Nat /\ PREFIX >= 1 /\ L \in Nat
  BY StartFacts
<1>2. h \in 1 .. N /\ h + 1 \in 1 .. (N + 1)
  BY <1>1 DEF Whole
<1>3. /\ a \in 0 .. L /\ l \in Nat /\ l >= PREFIX /\ l = PREFIX + z /\ z \in Nat
      /\ Start[h + 1] = a + l /\ a + l \in 0 .. L
      /\ \A i \in 1 .. l : Stream[a + i] = <<h, i>>
  <2>1. a \in 0 .. L /\ l \in Nat /\ l >= PREFIX /\ l = PREFIX + z /\ z \in Nat
    BY <1>2, StartFacts DEF FrameLen
  <2>2. /\ Start[h + 1] = a + l /\ Start[h + 1] \in 0 .. L
        /\ \A i \in 1 .. l : Stream[a + i] = <<h, i>>
    BY <1>2, StartFacts
  <2> HIDE DEF a, l, L, z
  <2> QED BY <2>1, <2>2
<1>4. buffer = Cut(a, a + l) /\ rest = Cut(Start[h + 1], L)
  <2>1. buffer = Cut(a, Start[h + 1]) /\ rest = Cut(Start[h + 1], L)
    BY DEF Whole
  <2> QED BY <1>3, <2>1
<1> DEFINE b == a + l
           p == a + PREFIX
<1> HIDE DEF a, l, L, z
<1>5. /\ b \in a .. L /\ b - a = l /\ p \in 0 .. L /\ b \in p .. L /\ b - p = z
      /\ PREFIX \in 0 .. (b - a) /\ l \in PREFIX .. (b - a)
  BY <1>1, <1>3
<1> HIDE DEF b, p
<1>6. /\ a \in 0 .. Len(Stream) /\ b \in a .. Len(Stream) /\ p \in 0 .. Len(Stream)
      /\ b \in p .. Len(Stream)
  BY <1>3, <1>5 DEF L
<1>7. /\ buffer \in Seq(Place) /\ Len(buffer) = l
      /\ \A k \in 1 .. l : buffer[k] = Stream[a + k]
  <2>1. /\ Cut(a, b) \in Seq(Place) /\ Len(Cut(a, b)) = b - a
        /\ \A k \in 1 .. (b - a) : Cut(a, b)[k] = Stream[a + k]
    BY <1>6, CutSeq
  <2> QED BY <1>4, <1>5, <2>1 DEF b
<1>8. buffer[1] = <<h, 1>>
  <2>1. 1 \in 1 .. l
    BY <1>1, <1>3
  <2> QED BY <1>3, <1>7, <2>1
<1>9. SubSeq(buffer, PREFIX + 1, PREFIX + z) = Payload(h)
  <2>1. SubSeq(Cut(a, b), PREFIX + 1, l) = Cut(a + PREFIX, a + l)
    BY <1>5, <1>6, CutOfCut
  <2> DEFINE q == Cut(p, b)
  <2>2. /\ q \in Seq(Place) /\ Len(q) = z
        /\ \A k \in 1 .. z : q[k] = Stream[p + k]
    <3>1. /\ q \in Seq(Place) /\ Len(q) = b - p
          /\ \A k \in 1 .. (b - p) : q[k] = Stream[p + k]
      BY <1>6, CutSeq
    <3> HIDE DEF q
    <3> QED BY <1>5, <3>1
  <2> HIDE DEF q
  <2>3. Payload(h) = [k \in 1 .. z |-> <<h, PREFIX + k>>]
    BY DEF Payload, z
  <2>4. ASSUME NEW k \in 1 .. z PROVE q[k] = Payload(h)[k]
    <3>1. PREFIX + k \in 1 .. l /\ p + k = a + (PREFIX + k)
      BY <1>1, <1>3 DEF p
    <3> QED BY <1>3, <2>2, <2>3, <3>1
  <2>5. Payload(h) \in Seq(Place) /\ Len(Payload(h)) = z
    <3>1. \A k \in 1 .. z : <<h, PREFIX + k>> \in Place
      BY <1>1, <1>2, <1>3 DEF Place
    <3> QED BY <1>3, <2>3, <3>1
  <2>6. q = Payload(h)
    BY <2>2, <2>4, <2>5, SeqEqual
  <2> QED BY <1>3, <1>4, <2>1, <2>6 DEF q, b, p
<1>10. SubSeq(buffer, PREFIX + z + 1, Len(buffer)) = << >>
  <2> DEFINE m == PREFIX + z + 1
             n == Len(buffer)
  <2>1. m \in Int /\ n \in Int /\ n < m
    BY <1>1, <1>3, <1>7
  <2> HIDE DEF m, n
  <2>2. SubSeq(buffer, m, n) = << >>
    BY <2>1, SubSeqEmpty
  <2> QED BY <2>2 DEF m, n
<1>11. Resting(h + 1, rest, << >>)
  BY <1>2, <1>4, RestingStart DEF L
<1>12. Len(buffer) = PREFIX + z /\ buffer[1][1] = h
  BY <1>3, <1>7, <1>8
<1>13. Resting(h + 1, rest, SubSeq(buffer, PREFIX + z + 1, Len(buffer)))
  BY <1>10, <1>11
<1> QED BY <1>2, <1>3, <1>9, <1>12, <1>13 DEF z

(* What was delivered is a sequence of payloads, and so is it with one     *)
(* more.                                                                   *)
LEMMA OneMore ==
    ASSUME NEW b, NEW d, Len(d) \in Nat, d = [k \in 1 .. Len(d) |-> Payload(b + k)],
           NEW x, x = Payload(b + (Len(d) + 1))
    PROVE  /\ Len(Append(d, x)) = Len(d) + 1
           /\ Append(d, x) = [k \in 1 .. (Len(d) + 1) |-> Payload(b + k)]
<1> DEFINE S == {Payload(b + k) : k \in Nat}
           n == Len(d)
           t == [k \in 1 .. (n + 1) |-> Payload(b + k)]
<1>1. n \in Nat /\ n + 1 \in Nat
  OBVIOUS
<1>2. x \in S /\ \A k \in Nat : Payload(b + k) \in S
  BY <1>1
<1>3. d \in Seq(S) /\ \A k \in 1 .. n : d[k] = Payload(b + k)
  <2>1. d \in [1 .. n -> S]
    <3> HIDE DEF S
    <3> QED BY <1>1, <1>2
  <2>2. \A k \in 1 .. n : d[k] = Payload(b + k)
    OBVIOUS
  <2> HIDE DEF S
  <2> QED BY <1>1, <2>1, <2>2
<1>4. t \in Seq(S) /\ Len(t) = n + 1 /\ \A k \in 1 .. (n + 1) : t[k] = Payload(b + k)
  <2> HIDE DEF S, n
  <2>1. t \in [1 .. (n + 1) -> S]
    BY <1>1, <1>2
  <2> QED BY <1>1, <2>1
<1> HIDE DEF S, t
<1>5. /\ Append(d, x) \in Seq(S) /\ Len(Append(d, x)) = n + 1
      /\ \A k \in 1 .. n : Append(d, x)[k] = d[k]
      /\ Append(d, x)[n + 1] = x
  BY <1>2, <1>3, AppendProperties
<1> HIDE DEF n
<1>6. ASSUME NEW k \in 1 .. (n + 1) PROVE Append(d, x)[k] = t[k]
  <2>1. CASE k = n + 1
    BY <1>4, <1>5, <2>1 DEF n
  <2>2. CASE k # n + 1
    <3>1. k \in 1 .. n
      BY <1>1, <2>2
    <3> QED BY <1>3, <1>4, <1>5, <3>1
  <2> QED BY <2>1, <2>2
<1>7. Append(d, x) = t
  BY <1>1, <1>4, <1>5, <1>6, SeqEqual
<1> QED BY <1>5, <1>7 DEF t, n

-----------------------------------------------------------------------------
(* The invariant.                                                          *)

LEMMA InitInv == Init => IInv
<1> SUFFICES ASSUME Init PROVE IInv
  OBVIOUS
<1>1. N \in Nat /\ 1 \in 1 .. (N + 1) /\ Start[1] = 0
  BY StartFacts
<1>2. Stream = Cut(0, Len(Stream))
  <2>1. Stream \in Seq(Place)
    BY StreamSeq
  <2>2. SubSeq(Stream, 1, Len(Stream)) = Stream
    BY <2>1, SubSeqFull
  <2> QED BY <2>2 DEF Cut
<1>3. Resting(1, Stream, << >>)
  BY <1>1, <1>2, RestingStart
<1>4. delivered = << >> /\ Len(delivered) = 0 /\ base = 0 /\ Pending = 1
  BY DEF Init, Pending
<1>5. DeliveredInv
  BY <1>1, <1>4 DEF DeliveredInv
<1>6. BufferInv
  BY <1>3, <1>4 DEF Init, BufferInv
<1>7. SavedInv
  <2>1. saved.unsent = Stream /\ saved.last_hint = << >> /\ 1 .. (1 - 1) \subseteq handled
    BY DEF Init
  <2> QED BY <1>1, <1>3, <2>1 DEF SavedInv
<1> QED BY <1>5, <1>6, <1>7 DEF IInv

(* A hint that is being cut off is in the buffer, whole.                   *)
LEMMA CutsWhole ==
    ASSUME IInv
    PROVE  /\ Resting(Pending, unsent, last_hint) => ~ Cuts
           /\ Whole(Pending, unsent, last_hint) => Cuts
<1>1. Pending \in 1 .. (N + 1) /\ PREFIX \in Nat
  BY StartFacts DEF IInv, DeliveredInv
<1>2. ASSUME Resting(Pending, unsent, last_hint) PROVE ~ Cuts
  <2>1. Len(last_hint) \in Nat /\ Len(last_hint) < PREFIX
    BY <1>1, <1>2, RestingShort
  <2> QED BY <1>1, <2>1 DEF Cuts
<1>3. ASSUME Whole(Pending, unsent, last_hint) PROVE Cuts
  <2>1. /\ Size[Pending] \in Nat /\ Len(last_hint) = PREFIX + Size[Pending]
        /\ last_hint[1][1] = Pending
    BY <1>1, <1>3, WholeHint
  <2>2. HintLen = Size[Pending]
    BY <2>1 DEF HintLen
  <2> DEFINE z == Size[Pending]
  <2>3. z \in Nat /\ Len(last_hint) = PREFIX + z /\ HintLen = z
    BY <2>1, <2>2
  <2> HIDE DEF z
  <2> QED BY <1>1, <2>3 DEF Cuts
<1> QED BY <1>2, <1>3

LEMMA HintWriteInv ==
    ASSUME Chunking = "hints", IInv, NEW n \in 1 .. Len(unsent), HintWrite(n)
    PROVE  IInv'
<1>1. Pending \in 1 .. (N + 1)
  BY DEF IInv, DeliveredInv
<1>2. UNCHANGED <<delivered, status, saved, base, handled>> /\ looping' = TRUE
  BY DEF HintWrite
<1>3. Pending' = Pending
  BY <1>2 DEF Pending
<1>4. Resting(Pending, unsent, last_hint)
  BY DEF IInv, BufferInv, HintWrite
<1>5. /\ unsent[n][1] = unsent[1][1]
      /\ unsent[n][2] < PREFIX \/ unsent[n][2] = PREFIX + Size[unsent[n][1]]
  BY DEF HintWrite, HintByHint
<1>6. last_hint' = last_hint \o SubSeq(unsent, 1, n) /\ unsent' = SubSeq(unsent, n + 1, Len(unsent))
  BY DEF HintWrite
<1>7. Resting(Pending, unsent', last_hint') \/ Whole(Pending, unsent', last_hint')
  BY <1>1, <1>4, <1>5, <1>6, WriteStep
<1>8. DeliveredInv'
  BY <1>2, <1>3 DEF IInv, DeliveredInv
<1>9. BufferInv'
  BY <1>2, <1>3, <1>7 DEF IInv, BufferInv, HintWrite
<1>10. SavedInv'
  BY <1>2 DEF IInv, SavedInv
<1> QED BY <1>8, <1>9, <1>10 DEF IInv

LEMMA DeliverInv ==
    ASSUME IInv, Deliver
    PROVE  IInv'
<1> DEFINE h == Pending
<1>1. h \in 1 .. (N + 1) /\ PREFIX \in Nat /\ N \in Nat /\ base \in Nat /\ Len(delivered) \in Nat
  BY StartFacts DEF IInv, DeliveredInv
<1>2. looping = TRUE /\ status = "running" /\ Cuts /\ Slice /\ UNCHANGED <<unsent, saved, base>>
  BY DEF Deliver, IInv, BufferInv
<1>3. Whole(h, unsent, last_hint)
  BY <1>2, CutsWhole DEF IInv, BufferInv
<1>4. /\ h \in 1 .. N /\ Size[h] \in Nat
      /\ Len(last_hint) = PREFIX + Size[h] /\ last_hint[1][1] = h
      /\ SubSeq(last_hint, PREFIX + 1, PREFIX + Size[h]) = Payload(h)
      /\ Resting(h + 1, unsent, SubSeq(last_hint, PREFIX + Size[h] + 1, Len(last_hint)))
  BY <1>1, <1>3, WholeHint
<1>5. HintLen = Size[h] /\ ~ (PREFIX + HintLen > Len(last_hint))
  <2>1. HintLen = Size[h]
    BY <1>4 DEF HintLen
  <2> DEFINE x == PREFIX + Size[h]
  <2>2. x \in Nat
    BY <1>1, <1>4
  <2>3. PREFIX + HintLen = x /\ Len(last_hint) = x
    BY <1>4, <2>1
  <2> HIDE DEF x
  <2> QED BY <2>1, <2>2, <2>3
<1>6. CASE /\ delivered' = Append(delivered, SubSeq(last_hint, PREFIX + 1, PREFIX + HintLen))
           /\ last_hint' = SubSeq(last_hint, PREFIX + HintLen + 1, Len(last_hint))
           /\ handled' = handled \cup {last_hint[1][1]}
           /\ UNCHANGED <<looping, status>>
  <2>1. delivered' = Append(delivered, Payload(h)) /\ handled' = handled \cup {h}
    BY <1>4, <1>5, <1>6
  <2>2. Resting(h + 1, unsent', last_hint')
    BY <1>2, <1>4, <1>5, <1>6
  <2>3. /\ Len(delivered') = Len(delivered) + 1
        /\ delivered' = [k \in 1 .. (Len(delivered) + 1) |-> Payload(base + k)]
    <3>1. base + (Len(delivered) + 1) = h
      BY <1>1 DEF Pending
    <3>2. delivered = [k \in 1 .. Len(delivered) |-> Payload(base + k)]
      BY DEF IInv, DeliveredInv
    <3>3. Payload(h) = Payload(base + (Len(delivered) + 1))
      BY <3>1
    <3> DEFINE x == Payload(h)
    <3>4. x = Payload(base + (Len(delivered) + 1))
      BY <3>3
    <3> HIDE DEF x, h
    <3>5. /\ Len(Append(delivered, x)) = Len(delivered) + 1
          /\ Append(delivered, x) = [k \in 1 .. (Len(delivered) + 1) |-> Payload(base + k)]
      BY <1>1, <3>2, <3>4, OneMore
    <3> QED BY <2>1, <3>5 DEF x
  <2>4. Pending' = h + 1
    BY <1>1, <1>2, <2>3 DEF Pending
  <2>5. DeliveredInv'
    <3>1. base' = base /\ Len(delivered') \in Nat
      BY <1>1, <1>2, <2>3
    <3>2. (1 .. (h - 1)) \subseteq handled /\ h + 1 \in 1 .. (N + 1)
      BY <1>1, <1>4 DEF IInv, DeliveredInv
    <3>3. 1 .. ((h + 1) - 1) \subseteq handled'
      <4> HIDE DEF h
      <4> QED BY <1>1, <2>1, <3>2
    <3>4. delivered' = [k \in 1 .. Len(delivered') |-> Payload(base' + k)]
      BY <2>3, <3>1
    <3> HIDE DEF h
    <3> QED BY <1>1, <2>4, <3>1, <3>2, <3>3, <3>4 DEF DeliveredInv
  <2>6. BufferInv'
    BY <1>2, <1>6, <2>2, <2>4 DEF BufferInv
  <2>7. SavedInv'
    BY <1>2, <2>1 DEF IInv, SavedInv
  <2> QED BY <2>5, <2>6, <2>7 DEF IInv
<1>7. CASE status' = "err" /\ UNCHANGED <<last_hint, looping, delivered, handled>>
  <2>1. Pending' = Pending
    BY <1>2, <1>7 DEF Pending
  <2>2. DeliveredInv'
    BY <1>2, <1>7, <2>1 DEF IInv, DeliveredInv
  <2>3. BufferInv'
    BY <1>2, <1>7, <2>1 DEF IInv, BufferInv
  <2>4. SavedInv'
    BY <1>2, <1>7 DEF IInv, SavedInv
  <2> QED BY <2>2, <2>3, <2>4 DEF IInv
<1> QED BY <1>2, <1>5, <1>6, <1>7 DEF Slice

LEMMA ReturnInv ==
    ASSUME IInv, Return
    PROVE  IInv'
<1>1. looping' = FALSE /\ UNCHANGED <<unsent, last_hint, delivered, status, saved, base, handled>>
  BY DEF Return
<1>2. Resting(Pending, unsent, last_hint)
  BY CutsWhole DEF IInv, BufferInv, Return
<1>3. Pending' = Pending
  BY <1>1 DEF Pending
<1>4. DeliveredInv'
  BY <1>1, <1>3 DEF IInv, DeliveredInv
<1>5. BufferInv'
  BY <1>1, <1>2, <1>3 DEF IInv, BufferInv
<1>6. SavedInv'
  BY <1>1 DEF IInv, SavedInv
<1> QED BY <1>4, <1>5, <1>6 DEF IInv

LEMMA SnapshotInv ==
    ASSUME IInv, Snapshot
    PROVE  IInv'
<1>1. /\ saved' = [unsent |-> unsent, last_hint |-> last_hint]
      /\ UNCHANGED <<unsent, last_hint, looping, delivered, status, base, handled>>
  BY DEF Snapshot
<1>2. Resting(Pending, unsent, last_hint)
  BY DEF IInv, BufferInv, Snapshot
<1>3. Pending' = Pending
  BY <1>1 DEF Pending
<1>4. DeliveredInv'
  BY <1>1, <1>3 DEF IInv, DeliveredInv
<1>5. BufferInv'
  BY <1>1, <1>3 DEF IInv, BufferInv
<1>6. SavedInv'
  <2>1. Pending \in 1 .. (N + 1) /\ 1 .. (Pending - 1) \subseteq handled'
    BY <1>1 DEF IInv, DeliveredInv
  <2>2. saved'.unsent = unsent /\ saved'.last_hint = last_hint
    BY <1>1
  <2> QED BY <1>2, <2>1, <2>2 DEF SavedInv
<1> QED BY <1>4, <1>5, <1>6 DEF IInv

LEMMA ResumeInv ==
    ASSUME IInv, Resume
    PROVE  IInv'
<1>1. /\ unsent' = saved.unsent /\ last_hint' = saved.last_hint
      /\ looping' = FALSE /\ delivered' = << >> /\ status' = "running"
      /\ base' = Cardinality(Before(saved.unsent)) /\ saved' = saved /\ handled' = handled
  BY DEF Resume
<1>2. PICK h \in 1 .. (N + 1) : /\ Resting(h, saved.unsent, saved.last_hint)
                                /\ 1 .. (h - 1) \subseteq handled
  BY DEF IInv, SavedInv
<1>3. h \in Nat /\ h >= 1 /\ h - 1 \in Int /\ 1 \in Int
  BY StartFacts
<1>4. base' = h - 1
  <2>1. base' = Cardinality(1 .. (h - 1))
    BY <1>1, <1>2, BeforeResting
  <2> DEFINE m == h - 1
  <2>2. m \in Int
    BY <1>3
  <2> HIDE DEF m
  <2>3. Cardinality(1 .. m) = IF 1 > m THEN 0 ELSE m - 1 + 1
    BY <1>3, <2>2, FS_Interval
  <2>4. m >= 0
    BY <1>3 DEF m
  <2>5. Cardinality(1 .. m) = m
    BY <2>2, <2>3, <2>4
  <2> QED BY <2>1, <2>5 DEF m
<1>5. Len(delivered') = 0 /\ Pending' = h
  BY <1>1, <1>3, <1>4 DEF Pending
<1>6. DeliveredInv'
  BY <1>1, <1>2, <1>3, <1>4, <1>5 DEF DeliveredInv
<1>7. BufferInv'
  BY <1>1, <1>2, <1>5 DEF BufferInv
<1>8. SavedInv'
  BY <1>1, <1>2 DEF SavedInv
<1> QED BY <1>6, <1>7, <1>8 DEF IInv

LEMMA NextInv == ASSUME Chunking = "hints" PROVE IInv /\ [Next]_vars => IInv'
<1> SUFFICES ASSUME IInv, [Next]_vars PROVE IInv'
  OBVIOUS
<1>1. CASE \E n \in 1 .. Len(unsent) : HintWrite(n)
  BY <1>1, HintWriteInv
<1>2. CASE Deliver
  BY <1>2, DeliverInv
<1>3. CASE Return
  BY <1>3, ReturnInv
<1>4. CASE Snapshot
  BY <1>4, SnapshotInv
<1>5. CASE Resume
  BY <1>5, ResumeInv
<1>6. CASE UNCHANGED vars
  BY <1>6 DEF vars, IInv, DeliveredInv, BufferInv, SavedInv, Pending
<1> QED BY <1>1, <1>2, <1>3, <1>4, <1>5, <1>6 DEF Next

LEMMA Invariant == ASSUME Chunking = "hints" PROVE Spec => []IInv
<1>1. Init => IInv
  BY InitInv
<1>2. IInv /\ [Next]_vars => IInv'
  BY NextInv
<1> QED BY <1>1, <1>2, PTL DEF Spec

(* The loop of handle_syscall never slices past the end of last_hint, and  *)
(* the buffer followed by what the guest has yet to write is the end of    *)
(* the stream: no byte is lost or doubled, snapshots and resumes included. *)
THEOREM BufferCorrect == ASSUME Chunking = "hints" PROVE Spec => []BufferInRange
<1>1. IInv => BufferInRange
  <2> SUFFICES ASSUME IInv PROVE BufferInRange
    OBVIOUS
  <2> DEFINE L == Len(Stream)
             a == Start[Pending]
  <2>1. Pending \in 1 .. (N + 1) /\ status # "panic"
    BY DEF IInv, DeliveredInv, BufferInv
  <2>2. L \in Nat /\ a \in 0 .. L /\ N \in Nat
    BY <2>1, StartFacts
  <2>3. PICK b \in a .. L : last_hint = Cut(a, b) /\ unsent = Cut(b, L)
    <3>1. CASE Resting(Pending, unsent, last_hint)
      <4>1. PICK c \in 0 .. (PREFIX - 1) : /\ a + c <= L
                                           /\ last_hint = Cut(a, a + c)
                                           /\ unsent = Cut(a + c, L)
        BY <3>1 DEF Resting
      <4>2. PREFIX \in Nat
        BY StartFacts
      <4>3. a + c \in a .. L
        <5> HIDE DEF a, L
        <5> QED BY <2>2, <4>1, <4>2
      <4> QED BY <4>1, <4>3
    <3>2. CASE Whole(Pending, unsent, last_hint)
      <4>1. Pending \in 1 .. N /\ Pending + 1 \in 1 .. (N + 1) /\ Pending + 1 \in Pending .. (N + 1)
        BY <2>1, <2>2, <3>2 DEF Whole
      <4>2. Start[Pending] <= Start[Pending + 1] /\ Start[Pending + 1] \in 0 .. L
        BY <2>1, <4>1, StartMonotone, StartFacts
      <4> DEFINE e == Start[Pending + 1]
      <4>3. a <= e /\ e \in 0 .. L
        BY <4>2
      <4>4. last_hint = Cut(a, e) /\ unsent = Cut(e, L)
        BY <3>2 DEF Whole
      <4> HIDE DEF e, a, L
      <4>5. e \in a .. L
        BY <2>2, <4>3
      <4> QED BY <4>4, <4>5
    <3> QED BY <3>1, <3>2 DEF IInv, BufferInv
  <2>4. a \in 0 .. Len(Stream) /\ b \in a .. Len(Stream) /\ L \in b .. Len(Stream)
           /\ L \in a .. Len(Stream)
    <3>1. L \in b .. L /\ L \in a .. L
      <4> HIDE DEF a, L
      <4> QED BY <2>2, <2>3
    <3> QED BY <2>2, <2>3, <3>1
  <2> HIDE DEF a
  <2>5. last_hint \o unsent = Cut(a, L)
    BY <2>3, <2>4, CutJoin
  <2>6. Len(Cut(a, L)) = L - a
    BY <2>4, CutSeq
  <2> HIDE DEF L
  <2>7. L - (L - a) + 1 = a + 1
    BY <2>2
  <2>8. last_hint \o unsent = SubSeq(Stream, L - Len(last_hint \o unsent) + 1, L)
    BY <2>5, <2>6, <2>7 DEF Cut
  <2> QED BY <2>1, <2>8 DEF BufferInRange, L
<1> QED BY <1>1, Invariant, PTL

(* When the write returns, the server of this run has been given every     *)
(* hint written in full since the state it was resumed from, in order and  *)
(* once.                                                                   *)
THEOREM DeliveryCorrect == ASSUME Chunking = "hints" PROVE Spec => []HintsDelivered
<1>1. IInv => HintsDelivered
  <2> SUFFICES ASSUME IInv, ~ looping, status = "running" PROVE
                  /\ delivered = [k \in 1 .. Len(delivered) |-> Payload(base + k)]
                  /\ Complete = 1 .. (base + Len(delivered))
    BY DEF HintsDelivered
  <2>1. Resting(Pending, unsent, last_hint) /\ Pending \in 1 .. (N + 1)
    BY DEF IInv, BufferInv, DeliveredInv
  <2>2. Complete = 1 .. (Pending - 1)
    BY <2>1, BeforeResting DEF Complete
  <2>3. Pending - 1 = base + Len(delivered)
    BY DEF IInv, DeliveredInv, Pending
  <2> QED BY <2>2, <2>3 DEF IInv, DeliveredInv
<1> QED BY <1>1, Invariant, PTL

(* Over any number of errors, kills and resumes: a hint written in full    *)
(* was given to this server or to one before it.                           *)
THEOREM HandledCorrect == ASSUME Chunking = "hints" PROVE Spec => []NoHintLost
<1>1. IInv => NoHintLost
  <2> SUFFICES ASSUME IInv, ~ looping, status = "running" PROVE Complete \subseteq handled
    BY DEF NoHintLost
  <2>1. Resting(Pending, unsent, last_hint) /\ Pending \in 1 .. (N + 1)
    BY DEF IInv, BufferInv, DeliveredInv
  <2>2. Complete = 1 .. (Pending - 1)
    BY <2>1, BeforeResting DEF Complete
  <2> QED BY <2>2 DEF IInv, DeliveredInv
<1> QED BY <1>1, Invariant, PTL
=============================================================================
