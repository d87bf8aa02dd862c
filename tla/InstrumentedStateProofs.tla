----------------------- MODULE InstrumentedStateProofs -----------------------
(***************************************************************************)
(* Proofs about InstrumentedState, for words, keys, pages and address      *)
(* spaces of every size, every oracle and every guest: what the guest      *)
(* reads from the preimage descriptor, what the witness of a step and the  *)
(* input made from it hold, where mmap puts its regions, what the system   *)
(* calls say about a descriptor, and that an exit is final.                *)
(***************************************************************************)
EXTENDS InstrumentedState, SequenceTheorems, TLAPS

StateType ==
    [memory : [DataAddress -> Byte], preimage_key : Key, preimage_offset : Nat, pc : PCs,
     heap : 0 .. (MEM_SIZE - 1), exited : BOOLEAN, exit_code : Nat, step : Nat,
     ret : Int \X {"ok", "EINVAL", "EBADF"}]

ProofType == [mem : {<< >>} \cup [DataAddress -> Byte], address : Int]

CacheType ==
    [last_mem_access : Int, mem_proof_enabled : BOOLEAN, mem_proof : ProofType,
     last_preimage : Seq(Byte), last_preimage_key : Key, last_preimage_offset : Int]

TypeInv ==
    /\ st \in StateType
    /\ ins \in CacheType
    /\ status \in {"running", "err", "panic"}
    /\ guestKey \in Key
    /\ readout \in Seq(Byte)
    /\ mapped \in [regions : SUBSET (Nat \X Nat), wrapped : BOOLEAN]

(* The cache of the last preimage: nothing, or the preimage of its key.    *)
CacheInv ==
    IF ins.last_preimage_key = ZeroKey
    THEN ins.last_preimage = << >>
    ELSE /\ ins.last_preimage_key \in DOMAIN Preimage
         /\ ins.last_preimage = Prefixed(ins.last_preimage_key)

(* What the guest has read is a beginning of the preimage of its key.      *)
StreamInv ==
    /\ PreimageStream
    /\ readout # << >> => /\ guestKey \in DOMAIN Preimage
                          /\ Len(readout) <= Len(Prefixed(guestKey))

(* Until it wraps, the heap pointer is the start of a page.                *)
MapInv ==
    /\ MmapDisjoint
    /\ ~ mapped.wrapped => st.heap % PAGE_SIZE = 0

(* What the system calls may say about a descriptor.                       *)
Answers(fd) ==
    {"nothing"} \cup
    (IF fd \in {Fds.StdIn, Fds.HintRead, Fds.PreimageRead}
     THEN {"readable", "not writable"}
     ELSE IF fd \in {Fds.Stdout, Fds.StdErr, Fds.HintWrite, Fds.PreimageWrite}
     THEN {"writable", "not readable"}
     ELSE {"neither", "not readable", "not writable"})

LearntInv ==
    \/ learnt = Nothing
    \/ \E a0 \in Nat : \E m \in Answers(a0 % U8) : learnt = <<a0, m>>

IInv == TypeInv /\ CacheInv /\ StreamInv /\ MapInv /\ LearntInv

-----------------------------------------------------------------------------
(* Words and pages.                                                        *)

(* What is left of a number above a multiple.                              *)
LEMMA Remainder ==
    ASSUME NEW m \in Nat \ {0}, NEW a \in Nat, a % m = 0, NEW r \in 0 .. (m - 1)
    PROVE  (a + r) % m = r
<1> DEFINE q == a \div m
<1>1. a = m * q + (a % m) /\ q \in Nat
  OBVIOUS
<1>2. a = m * q
  <2>1. m * q \in Nat
    BY <1>1
  <2> HIDE DEF q
  <2> QED BY <1>1, <2>1
<1>3. (m * q + r) % m = r
  <2> HIDE DEF q
  <2> QED BY <1>1
<1> HIDE DEF q
<1> QED BY <1>2, <1>3

(* Sums of multiples are multiples.                                        *)
LEMMA SumMultiple ==
    ASSUME NEW m \in Nat \ {0}, NEW a \in Nat, a % m = 0, NEW b \in Nat, b % m = 0
    PROVE  (a + b) % m = 0
<1> DEFINE q == a \div m
           t == b \div m
<1>1. /\ a = m * q + (a % m) /\ q \in Nat
      /\ b = m * t + (b % m) /\ t \in Nat
  OBVIOUS
<1> HIDE DEF q, t
<1>2. m * q \in Nat /\ m * t \in Nat
  BY <1>1
<1>3. a = m * q /\ b = m * t
  BY <1>1, <1>2
<1>4. m * (q + t) = m * q + m * t
  BY <1>1
<1>5. \A k \in Nat : (m * k) % m = 0
  OBVIOUS
<1>6. (m * (q + t)) % m = 0
  BY <1>1, <1>5
<1> QED BY <1>3, <1>4, <1>6

(* RoundUp returns whole pages.                                            *)
LEMMA RoundUpPages ==
    ASSUME NEW sz \in 0 .. (MEM_SIZE - 1)
    PROVE  RoundUp(sz) \in Nat /\ RoundUp(sz) % PAGE_SIZE = 0
<1> USE InstrumentedAssumption
<1>1. CASE sz % PAGE_SIZE = 0
  BY <1>1 DEF RoundUp
<1>2. CASE sz % PAGE_SIZE # 0
  <2> DEFINE q == sz \div PAGE_SIZE
             r == sz % PAGE_SIZE
             up == sz + PAGE_SIZE - r
             t == MEM_SIZE \div PAGE_SIZE
  <2>1. /\ sz = PAGE_SIZE * q + r /\ q \in Nat
        /\ r \in 1 .. (PAGE_SIZE - 1)
        /\ MEM_SIZE = PAGE_SIZE * t + (MEM_SIZE % PAGE_SIZE) /\ t \in Nat
    BY <1>2
  <2> HIDE DEF q, r, t
  <2>2. PAGE_SIZE * q \in Nat /\ PAGE_SIZE * t \in Nat
    BY <2>1
  <2>3. PAGE_SIZE * (q + 1) = PAGE_SIZE * q + PAGE_SIZE
    BY <2>1
  <2>4. up = PAGE_SIZE * (q + 1) /\ MEM_SIZE = PAGE_SIZE * t
    BY <2>1, <2>2, <2>3
  <2>5. q + 1 <= t
    <3> SUFFICES ASSUME t <= q PROVE FALSE
      BY <2>1
    <3>1. PAGE_SIZE * t <= PAGE_SIZE * q
      BY <2>1
    <3> QED BY <2>1, <2>2, <2>4, <3>1
  <2>6. up <= MEM_SIZE
    BY <2>1, <2>4, <2>5
  <2>7. \A k \in Nat : (PAGE_SIZE * k) % PAGE_SIZE = 0
    OBVIOUS
  <2>8. up \in Nat /\ up % PAGE_SIZE = 0
    BY <2>1, <2>4, <2>7
  <2>9. RoundUp(sz) = up % MEM_SIZE
    BY <1>2 DEF RoundUp, r
  <2> HIDE DEF up
  <2>10. up % MEM_SIZE = IF up = MEM_SIZE THEN 0 ELSE up
    BY <2>6, <2>8
  <2> QED BY <2>8, <2>9, <2>10
<1> QED BY <1>1, <1>2

(* The word that holds an address.                                         *)
LEMMA WordOf ==
    ASSUME NEW a \in DataWords, NEW b \in a .. (a + WORD - 1)
    PROVE  b % WORD = b - a /\ b - (b % WORD) = a
<1> USE InstrumentedAssumption
<1>1. a \in Nat /\ b - a \in 0 .. (WORD - 1)
  OBVIOUS
<1>2. (a + (b - a)) % WORD = b - a
  BY <1>1, Remainder
<1>3. a + (b - a) = b
  BY <1>1
<1> QED BY <1>1, <1>2, <1>3

LEMMA AddressWord ==
    ASSUME NEW b \in DataAddress
    PROVE  /\ b \in Nat /\ b % WORD \in 0 .. (WORD - 1)
           /\ b - (b % WORD) \in DataWords
           /\ \A k \in 0 .. (WORD - (b % WORD) - 1) :
                  b + k \in DataAddress /\ (b + k) - ((b + k) % WORD) = b - (b % WORD)
<1> USE InstrumentedAssumption
<1>1. PICK a \in DataWords : b \in a .. (a + WORD - 1)
  BY DEF DataAddress
<1>2. b % WORD = b - a /\ b - (b % WORD) = a
  BY <1>1, WordOf
<1>3. ASSUME NEW k \in 0 .. (WORD - (b % WORD) - 1)
      PROVE  b + k \in DataAddress /\ (b + k) - ((b + k) % WORD) = a
  <2>1. b + k \in a .. (a + WORD - 1)
    BY <1>1, <1>2
  <2>2. b + k \in DataAddress
    BY <2>1 DEF DataAddress
  <2> QED BY <2>1, <2>2, WordOf
<1>4. b \in Nat /\ b - a \in 0 .. (WORD - 1)
  BY <1>1
<1> QED BY <1>2, <1>3, <1>4

(* The smallest of some numbers.                                           *)
LEMMA MinOfTwo ==
    ASSUME NEW a \in Int, NEW b \in Int
    PROVE  Min({a, b}) \in {a, b} /\ Min({a, b}) <= a /\ Min({a, b}) <= b
<1>1. \E x \in {a, b} : \A y \in {a, b} : x <= y
  <2>1. CASE a <= b
    BY <2>1
  <2>2. CASE b <= a
    BY <2>2
  <2> QED BY <2>1, <2>2
<1>2. Min({a, b}) \in {a, b} /\ \A y \in {a, b} : Min({a, b}) <= y
  BY <1>1 DEF Min
<1> QED BY <1>2

LEMMA MinOfFour ==
    ASSUME NEW a \in Int, NEW b \in Int, NEW c \in Int, NEW d \in Int
    PROVE  LET m == Min({a, b, c, d})
           IN  m \in {a, b, c, d} /\ m <= a /\ m <= b /\ m <= c /\ m <= d
<1> DEFINE S == {a, b, c, d}
<1>1. \E x \in S : \A y \in S : x <= y
  <2>1. CASE a <= b /\ a <= c /\ a <= d
    BY <2>1
  <2>2. CASE b <= a /\ b <= c /\ b <= d
    BY <2>2
  <2>3. CASE c <= a /\ c <= b /\ c <= d
    BY <2>3
  <2>4. CASE d <= a /\ d <= b /\ d <= c
    BY <2>4
  <2> QED BY <2>1, <2>2, <2>3, <2>4
<1>2. Min(S) \in S /\ \A y \in S : Min(S) <= y
  <2> HIDE DEF S
  <2> QED BY <1>1 DEF Min
<1> QED BY <1>2

-----------------------------------------------------------------------------
(* What a step does to the state and the caches.                           *)

(* The caches hold the same preimage.                                      *)
SamePreimage(i, j) ==
    i.last_preimage = j.last_preimage /\ i.last_preimage_key = j.last_preimage_key

(* A step starts with no address tracked and no preimage consumed.         *)
LEMMA Started ==
    ASSUME ins \in CacheType, NEW proof \in BOOLEAN
    PROVE  /\ StepStart(proof) \in CacheType
           /\ SamePreimage(StepStart(proof), ins)
           /\ StepStart(proof).mem_proof_enabled = proof
           /\ StepStart(proof).last_mem_access = NoAccess
           /\ StepStart(proof).last_preimage_offset = NoOffset
<1>1. NoAccess \in Int /\ NoOffset \in Int
  BY InstrumentedAssumption DEF NoAccess, NoOffset
<1>2. StepStart(proof) \in CacheType
  BY <1>1 DEF StepStart, CacheType
<1>3. SamePreimage(StepStart(proof), ins)
  BY DEF StepStart, CacheType, SamePreimage
<1>4. StepStart(proof).mem_proof_enabled = proof
  BY Zenon DEF StepStart, CacheType
<1>5. /\ StepStart(proof).last_mem_access = NoAccess
      /\ StepStart(proof).last_preimage_offset = NoOffset
  BY DEF StepStart, CacheType
<1> QED BY <1>2, <1>3, <1>4, <1>5

(* A tracked word is proved in the memory given, unless it was before.     *)
LEMMA Tracked ==
    ASSUME NEW i \in CacheType, NEW address \in Int, NEW memory \in [DataAddress -> Byte]
    PROVE  LET j == track_mem_access(i, address, memory)
           IN  /\ j \in CacheType
               /\ SamePreimage(j, i)
               /\ j.last_preimage_offset = i.last_preimage_offset
               /\ j.mem_proof_enabled = i.mem_proof_enabled
               /\ i.mem_proof_enabled => j.last_mem_access = address
               /\ i.mem_proof_enabled /\ i.last_mem_access # address =>
                      j.mem_proof = merkle_proof(memory, address)
               /\ i.last_mem_access = address => j = i
<1>1. merkle_proof(memory, address) \in ProofType
  BY DEF merkle_proof, ProofType
<1>2. CASE i.mem_proof_enabled /\ i.last_mem_access # address
  BY <1>1, <1>2 DEF track_mem_access, CacheType, SamePreimage
<1>3. CASE ~ (i.mem_proof_enabled /\ i.last_mem_access # address)
  BY <1>3 DEF track_mem_access, SamePreimage
<1> QED BY <1>2, <1>3

(* step() counts, and leaves the rest as the instruction left it.          *)
LEMMA Counted ==
    ASSUME NEW s \in StateType
    PROVE  LET t == [s EXCEPT !.step = @ + 1]
           IN  /\ t \in StateType
               /\ t.memory = s.memory /\ t.preimage_key = s.preimage_key
               /\ t.preimage_offset = s.preimage_offset /\ t.heap = s.heap
               /\ t.exited = s.exited /\ t.exit_code = s.exit_code /\ t.step = s.step + 1
BY DEF StateType

(* A step that leaves the key, the offset, the heap and the cached         *)
(* preimage alone.                                                         *)
QuietStep ==
    /\ st' \in StateType /\ ins' \in CacheType /\ status' \in {"running", "err"}
    /\ st'.preimage_key = st.preimage_key /\ st'.preimage_offset = st.preimage_offset
    /\ SamePreimage(ins', ins)
    /\ UNCHANGED <<guestKey, readout>>

LEMMA QuietStream ==
    ASSUME IInv, QuietStep
    PROVE  CacheInv' /\ StreamInv'
<1>1. PreimageStream'
  BY DEF IInv, QuietStep, StreamInv, PreimageStream
<1>2. CacheInv'
  BY DEF IInv, QuietStep, CacheInv, SamePreimage
<1> QED BY <1>1, <1>2 DEF IInv, QuietStep, StreamInv

LEMMA QuietInv ==
    ASSUME IInv, QuietStep, st'.heap = st.heap, UNCHANGED mapped, LearntInv'
    PROVE  IInv'
<1>1. CacheInv' /\ StreamInv'
  BY QuietStream
<1>2. TypeInv'
  BY DEF IInv, TypeInv, QuietStep
<1>3. MapInv'
  BY DEF IInv, MapInv, MmapDisjoint
<1> QED BY <1>1, <1>2, <1>3 DEF IInv

LEMMA NothingLearnt == ASSUME learnt' = Nothing PROVE LearntInv'
BY DEF LearntInv

(* The state s has the key and the offset of st.                           *)
SameKey(s) ==
    /\ s \in StateType
    /\ s.preimage_key = st.preimage_key /\ s.preimage_offset = st.preimage_offset

LEMMA QuietReturn ==
    ASSUME IInv, status = "running", NEW proof, NEW s, SameKey(s),
           NEW i \in CacheType, SamePreimage(i, ins), Return(proof, s, i),
           UNCHANGED <<guestKey, readout>>
    PROVE  QuietStep /\ st'.heap = s.heap
<1>1. st' = [s EXCEPT !.step = @ + 1] /\ ins' = i /\ status' = "running"
  BY DEF Return
<1> QED BY <1>1, Counted DEF QuietStep, SameKey

LEMMA QuietAbort ==
    ASSUME IInv, NEW i \in CacheType, SamePreimage(i, ins), Abort("err", i),
           UNCHANGED <<guestKey, readout>>
    PROVE  QuietStep /\ st'.heap = st.heap
<1>1. st' = [st EXCEPT !.step = @ + 1] /\ ins' = i /\ status' = "err"
  BY DEF Abort
<1>2. st \in StateType
  BY DEF IInv, TypeInv
<1> QED BY <1>1, <1>2, Counted DEF QuietStep

LEMMA InitIInv == Init => IInv
<1> SUFFICES ASSUME Init PROVE IInv
  OBVIOUS
<1> USE InstrumentedAssumption DEF Init
<1>1. ZeroKey \in Key
  BY DEF ZeroKey, Key
<1>2. TypeInv
  <2>1. st \in StateType
    <3>1. [a \in DataAddress |-> 0] \in [DataAddress -> Byte]
      OBVIOUS
    <3>2. <<0, "ok">> \in Int \X {"ok", "EINVAL", "EBADF"}
      OBVIOUS
    <3>3. HEAP_START \in 0 .. (MEM_SIZE - 1)
      OBVIOUS
    <3>4. PICK pc \in PCs :
              st = [memory |-> [a \in DataAddress |-> 0], preimage_key |-> ZeroKey,
                    preimage_offset |-> 0, pc |-> pc, heap |-> HEAP_START, exited |-> FALSE,
                    exit_code |-> 0, step |-> 0, ret |-> <<0, "ok">>]
      OBVIOUS
    <3> QED BY <1>1, <3>1, <3>2, <3>3, <3>4 DEF StateType
  <2>2. NoProof \in ProofType
    BY DEF NoProof, ProofType, NoAccess
  <2>3. ins \in CacheType
    BY <1>1, <2>2 DEF NewInstrumented, CacheType
  <2> QED BY <1>1, <2>1, <2>3 DEF TypeInv
<1>3. CacheInv
  BY DEF CacheInv, NewInstrumented
<1>4. StreamInv
  BY DEF StreamInv, PreimageStream
<1>5. MapInv
  BY DEF MapInv, MmapDisjoint
<1>6. LearntInv
  BY DEF LearntInv
<1> QED BY <1>2, <1>3, <1>4, <1>5, <1>6 DEF IInv

-----------------------------------------------------------------------------
(* The steps that leave the preimage alone.                                *)

LEMMA NewCaches == NewInstrumented \in CacheType /\ NewInstrumented.last_preimage_key = ZeroKey
                     /\ NewInstrumented.last_preimage = << >>
<1> USE InstrumentedAssumption
<1>1. ZeroKey \in Key
  BY DEF ZeroKey, Key
<1>2. NoProof \in ProofType
  BY DEF NoProof, ProofType, NoAccess
<1> QED BY <1>1, <1>2 DEF NewInstrumented, CacheType

(* The bytes of a word written to memory are bytes of that word.           *)
LEMMA Written ==
    ASSUME NEW memory \in [DataAddress -> Byte], NEW a \in Nat, NEW bytes \in Seq(Byte)
    PROVE  /\ WithBytes(memory, a, bytes) \in [DataAddress -> Byte]
           /\ \A b \in DataAddress :
                  WithBytes(memory, a, bytes)[b] # memory[b] => b \in a .. (a + Len(bytes) - 1)
<1> DEFINE new == WithBytes(memory, a, bytes)
<1>1. DataAddress \subseteq Nat
  BY AddressWord
<1>2. ASSUME NEW b \in DataAddress
      PROVE  /\ new[b] \in Byte
             /\ new[b] # memory[b] => b \in a .. (a + Len(bytes) - 1)
  <2>1. new[b] = IF b \in a .. (a + Len(bytes) - 1) THEN bytes[b - a + 1] ELSE memory[b]
    BY DEF WithBytes
  <2>2. CASE b \in a .. (a + Len(bytes) - 1)
    <3>1. b - a + 1 \in 1 .. Len(bytes)
      BY <1>1, <2>2
    <3> QED BY <2>1, <2>2, <3>1
  <2>3. CASE b \notin a .. (a + Len(bytes) - 1)
    BY <2>1, <2>3
  <2> QED BY <2>2, <2>3
<1>3. new = [b \in DataAddress |-> new[b]]
  BY DEF WithBytes
<1>4. new \in [DataAddress -> Byte]
  <2> HIDE DEF new
  <2> QED BY <1>2, <1>3
<1> QED BY <1>2, <1>4

LEMMA PlainIInv ==
    ASSUME IInv, NEW proof \in BOOLEAN, NEW next \in PCs, Plain(proof, next)
    PROVE  IInv'
<1>1. SameKey([st EXCEPT !.pc = next]) /\ [st EXCEPT !.pc = next].heap = st.heap
  BY DEF IInv, TypeInv, SameKey, StateType
<1>2. StepStart(proof) \in CacheType /\ SamePreimage(StepStart(proof), ins)
  BY Started DEF IInv, TypeInv
<1>3. QuietStep /\ st'.heap = st.heap
  BY <1>1, <1>2, QuietReturn DEF Plain, Stepping, NoHistory
<1> QED BY <1>3, QuietInv, NothingLearnt DEF Plain, NoHistory

LEMMA LoadIInv ==
    ASSUME IInv, NEW proof \in BOOLEAN, NEW address \in DataWords, NEW next \in PCs,
           Load(proof, address, next)
    PROVE  IInv'
<1> DEFINE i0 == StepStart(proof)
           i1 == track_mem_access(i0, address, st.memory)
           s  == [st EXCEPT !.pc = next]
<1>1. SameKey(s) /\ s.heap = st.heap /\ st.memory \in [DataAddress -> Byte]
  BY DEF IInv, TypeInv, SameKey, StateType
<1>2. i0 \in CacheType /\ SamePreimage(i0, ins)
  BY Started DEF IInv, TypeInv
<1>3. address \in Int
  BY InstrumentedAssumption
<1>4. i1 \in CacheType /\ SamePreimage(i1, i0)
  <2> HIDE DEF i0
  <2> QED BY <1>1, <1>2, <1>3, Tracked
<1>5. SamePreimage(i1, ins)
  BY <1>2, <1>4 DEF SamePreimage
<1>6. /\ Abort("err", i0) \/ Return(proof, s, i1)
      /\ status = "running" /\ NoHistory
  BY DEF Load, Stepping
<1> HIDE DEF i0, i1, s
<1>7. QuietStep /\ st'.heap = st.heap
  BY <1>1, <1>2, <1>4, <1>5, <1>6, QuietReturn, QuietAbort DEF NoHistory
<1> QED BY <1>6, <1>7, QuietInv, NothingLearnt DEF NoHistory

LEMMA StoreIInv ==
    ASSUME IInv, NEW proof \in BOOLEAN, NEW address \in DataWords, NEW w \in StoreWords,
           NEW next \in PCs, Store(proof, address, w, next)
    PROVE  IInv'
<1> DEFINE i0 == StepStart(proof)
           i1 == track_mem_access(i0, address, st.memory)
           i2 == track_mem_access(i1, address, st.memory)
           s  == [st EXCEPT !.pc = next, !.memory = WithBytes(@, address, w)]
<1>1. st \in StateType /\ st.memory \in [DataAddress -> Byte]
  BY DEF IInv, TypeInv, StateType
<1>2. i0 \in CacheType /\ SamePreimage(i0, ins)
  BY Started DEF IInv, TypeInv
<1>3. address \in Int /\ address \in Nat /\ w \in Seq(Byte)
  BY InstrumentedAssumption
<1>4. i1 \in CacheType /\ SamePreimage(i1, i0)
  <2> HIDE DEF i0
  <2> QED BY <1>1, <1>2, <1>3, Tracked
<1>5. i2 \in CacheType /\ SamePreimage(i2, i1)
  <2> HIDE DEF i1
  <2> QED BY <1>1, <1>3, <1>4, Tracked
<1>6. SamePreimage(i2, ins)
  BY <1>2, <1>4, <1>5 DEF SamePreimage
<1>7. SameKey(s) /\ s.heap = st.heap
  <2>1. WithBytes(st.memory, address, w) \in [DataAddress -> Byte]
    BY <1>1, <1>3, Written
  <2> QED BY <1>1, <2>1 DEF SameKey, StateType
<1>8. /\ Abort("err", i0) \/ Return(proof, s, i2)
      /\ status = "running" /\ NoHistory
  BY DEF Store, Stepping
<1> HIDE DEF i0, i1, i2, s
<1>9. QuietStep /\ st'.heap = st.heap
  BY <1>2, <1>5, <1>6, <1>7, <1>8, QuietReturn, QuietAbort DEF NoHistory
<1> QED BY <1>8, <1>9, QuietInv, NothingLearnt DEF NoHistory

LEMMA RefusedIInv ==
    ASSUME IInv, NEW proof \in BOOLEAN, Refused(proof)
    PROVE  IInv'
<1>1. StepStart(proof) \in CacheType /\ SamePreimage(StepStart(proof), ins)
  BY Started DEF IInv, TypeInv
<1>2. QuietStep /\ st'.heap = st.heap
  BY <1>1, QuietAbort DEF Refused, NoHistory
<1> QED BY <1>2, QuietInv, NothingLearnt DEF Refused, NoHistory

LEMMA StepExitedIInv ==
    ASSUME IInv, NEW proof \in BOOLEAN, StepExited(proof)
    PROVE  IInv'
<1>1. StepStart(proof) \in CacheType /\ SamePreimage(StepStart(proof), ins)
  BY Started DEF IInv, TypeInv
<1>2. QuietStep /\ st'.heap = st.heap
  BY <1>1 DEF StepExited, NoHistory, QuietStep, IInv, TypeInv
<1> QED BY <1>2, QuietInv, NothingLearnt DEF StepExited, NoHistory

LEMMA ExitGroupIInv ==
    ASSUME IInv, NEW proof \in BOOLEAN, NEW a0 \in Descriptors, ExitGroup(proof, a0)
    PROVE  IInv'
<1> DEFINE s == [st EXCEPT !.exited = TRUE, !.exit_code = a0 % U8]
<1>1. a0 % U8 \in Nat
  BY InstrumentedAssumption
<1>2. SameKey(s) /\ s.heap = st.heap
  BY <1>1 DEF IInv, TypeInv, SameKey, StateType
<1>3. StepStart(proof) \in CacheType /\ SamePreimage(StepStart(proof), ins)
  BY Started DEF IInv, TypeInv
<1>4. Return(proof, s, StepStart(proof)) /\ status = "running" /\ NoHistory
  BY DEF ExitGroup, Stepping
<1> HIDE DEF s
<1>5. QuietStep /\ st'.heap = st.heap
  BY <1>2, <1>3, <1>4, QuietReturn DEF NoHistory
<1> QED BY <1>4, <1>5, QuietInv, NothingLearnt DEF NoHistory

(* The caches start anew; the state is the one that was saved.             *)
LEMMA RestartIInv == ASSUME IInv, Restart PROVE IInv'
<1> USE DEF Restart, NoHistory
<1>1. TypeInv'
  BY NewCaches DEF IInv, TypeInv
<1>2. CacheInv'
  BY NewCaches DEF CacheInv
<1>3. StreamInv'
  BY DEF IInv, StreamInv, PreimageStream
<1>4. MapInv'
  BY DEF IInv, MapInv, MmapDisjoint
<1> QED BY <1>1, <1>2, <1>3, <1>4, NothingLearnt DEF IInv

-----------------------------------------------------------------------------
(* System calls.                                                           *)

(* What read, write and fcntl answer agrees with what the descriptor is    *)
(* for.                                                                    *)
LEMMA SyscallAnswers ==
    ASSUME NEW call \in {"brk", "clone", "read", "write", "fcntl", "unknown"},
           NEW fd \in Nat, NEW cmd, NEW n \in Nat,
           ~ (call = "read" /\ fd = Fds.PreimageRead),
           ~ (call = "write" /\ fd \in {Fds.HintWrite, Fds.PreimageWrite})
    PROVE  /\ SyscallResult(call, fd, cmd, n) \in Int \X {"ok", "EINVAL", "EBADF"}
           /\ Meaning(call, SyscallResult(call, fd, cmd, n)) \in Answers(fd)
<1> DEFINE r == SyscallResult(call, fd, cmd, n)
           Codes == {"ok", "EINVAL", "EBADF"}
<1>1. BRK \in Int /\ ERROR \in Int
  BY InstrumentedAssumption DEF BRK, ERROR
<1>2. /\ fd \in {0, 3, 5} => Answers(fd) = {"nothing", "readable", "not writable"}
      /\ fd \in {1, 2, 4, 6} => Answers(fd) = {"nothing", "writable", "not readable"}
      /\ fd \notin 0 .. 6 => Answers(fd) = {"nothing", "neither", "not readable", "not writable"}
      /\ "nothing" \in Answers(fd)
  <2>1. /\ {Fds.StdIn, Fds.HintRead, Fds.PreimageRead} = {0, 3, 5}
        /\ {Fds.Stdout, Fds.StdErr, Fds.HintWrite, Fds.PreimageWrite} = {1, 2, 4, 6}
    BY DEF Fds
  <2>2. fd \in {1, 2, 4, 6} => fd \notin {0, 3, 5}
    OBVIOUS
  <2>3. fd \notin 0 .. 6 => fd \notin {0, 3, 5} /\ fd \notin {1, 2, 4, 6}
    OBVIOUS
  <2>4. Answers(fd) = {"nothing"} \cup (IF fd \in {0, 3, 5} THEN {"readable", "not writable"}
                                        ELSE IF fd \in {1, 2, 4, 6}
                                        THEN {"writable", "not readable"}
                                        ELSE {"neither", "not readable", "not writable"})
    BY <2>1 DEF Answers
  <2> QED BY <2>2, <2>3, <2>4, Zenon
<1>3. \A v \in Int, c \in Codes : <<v, c>> \in Int \X Codes
  OBVIOUS
<1>4. fd \in {0, 3, 5} \/ fd \in {1, 2, 4, 6} \/ fd \notin 0 .. 6
  OBVIOUS
<1>5. CASE call \in {"brk", "clone", "unknown"}
  <2>1. r \in {<<BRK, "ok">>, <<1, "ok">>, <<0, "ok">>}
    BY <1>5 DEF SyscallResult
  <2> HIDE DEF r
  <2>2. Meaning(call, r) = "nothing"
    BY <1>5 DEF Meaning
  <2>3. r \in Int \X Codes
    BY <1>1, <1>3, <2>1
  <2> QED BY <1>2, <2>2, <2>3 DEF r
<1>6. CASE call = "read"
  <2>1. r = IF fd = 0 THEN <<0, "ok">> ELSE IF fd = 3 THEN <<n, "ok">> ELSE <<ERROR, "EBADF">>
    BY <1>6 DEF SyscallResult, Fds
  <2>2. fd # 5
    BY <1>6 DEF Fds
  <2>3. r \in Int \X Codes
    BY <1>1, <1>3, <2>1
  <2>4. r[2] = IF fd \in {0, 3} THEN "ok" ELSE "EBADF"
    BY <2>1
  <2> HIDE DEF r
  <2>5. Meaning(call, r) = IF fd \in {0, 3} THEN "readable" ELSE "not readable"
    BY <1>6, <2>4 DEF Meaning
  <2>6. Meaning(call, r) \in Answers(fd)
    BY <1>2, <1>4, <2>2, <2>5
  <2> QED BY <2>3, <2>6 DEF r
<1>7. CASE call = "write"
  <2>1. r = IF fd \in {1, 2} THEN <<n, "ok">> ELSE <<ERROR, "EBADF">>
    BY <1>7 DEF SyscallResult, Fds
  <2>2. fd \notin {4, 6}
    BY <1>7 DEF Fds
  <2>3. r \in Int \X Codes
    BY <1>1, <1>3, <2>1
  <2>4. r[2] = IF fd \in {1, 2} THEN "ok" ELSE "EBADF"
    BY <2>1
  <2> HIDE DEF r
  <2>5. Meaning(call, r) = IF fd \in {1, 2} THEN "writable" ELSE "not writable"
    BY <1>7, <2>4 DEF Meaning
  <2>6. Meaning(call, r) \in Answers(fd)
    BY <1>2, <1>4, <2>2, <2>5
  <2> QED BY <2>3, <2>6 DEF r
<1>8. CASE call = "fcntl"
  <2>1. r = IF cmd # 3 THEN <<ERROR, "EINVAL">>
            ELSE IF fd \in {0, 5, 3} THEN <<0, "ok">>
            ELSE IF fd \in {1, 2, 6, 4} THEN <<1, "ok">> ELSE <<ERROR, "EBADF">>
    BY <1>8 DEF SyscallResult, Fds
  <2>2. r \in Int \X Codes
    BY <1>1, <1>3, <2>1
  <2>3. /\ r[2] = IF cmd # 3 THEN "EINVAL" ELSE IF fd \in 0 .. 6 THEN "ok" ELSE "EBADF"
        /\ r[2] = "ok" => r[1] = IF fd \in {0, 5, 3} THEN 0 ELSE 1
    BY <2>1
  <2> HIDE DEF r
  <2>4. Meaning(call, r) = IF cmd # 3 THEN "nothing"
                           ELSE IF fd \notin 0 .. 6 THEN "neither"
                           ELSE IF fd \in {0, 3, 5} THEN "readable" ELSE "writable"
    BY <1>8, <2>3 DEF Meaning
  <2>5. Meaning(call, r) \in Answers(fd)
    BY <1>2, <1>4, <2>4
  <2> QED BY <2>2, <2>5 DEF r
<1> QED BY <1>5, <1>6, <1>7, <1>8

LEMMA PureSyscallIInv ==
    ASSUME IInv, NEW proof \in BOOLEAN,
           NEW call \in {"brk", "clone", "read", "write", "fcntl", "unknown"},
           NEW a0 \in Descriptors, NEW a1, NEW n \in Lengths, NEW next \in PCs,
           PureSyscall(proof, call, a0, a1, n, next)
    PROVE  IInv'
<1> DEFINE fd == a0 % U8
           r  == SyscallResult(call, fd, a1, n)
           s  == Continue(st, r[1], r[2], next)
<1>1. a0 \in Nat /\ fd \in Nat /\ n \in Nat
  BY InstrumentedAssumption
<1>2. /\ status = "running"
      /\ ~ (call = "read" /\ fd = Fds.PreimageRead)
      /\ ~ (call = "write" /\ fd \in {Fds.HintWrite, Fds.PreimageWrite})
      /\ Return(proof, s, StepStart(proof))
      /\ learnt' = <<a0, Meaning(call, r)>>
      /\ UNCHANGED <<guestKey, readout, mapped>>
  BY DEF PureSyscall, Stepping
<1>3. r \in Int \X {"ok", "EINVAL", "EBADF"} /\ Meaning(call, r) \in Answers(fd)
  <2> HIDE DEF fd
  <2> QED BY <1>1, <1>2, SyscallAnswers
<1>4. LearntInv'
  BY <1>1, <1>2, <1>3 DEF LearntInv
<1>5. SameKey(s) /\ s.heap = st.heap
  <2> HIDE DEF r
  <2>1. <<r[1], r[2]>> \in Int \X {"ok", "EINVAL", "EBADF"}
    BY <1>3
  <2> QED BY <2>1 DEF IInv, TypeInv, SameKey, StateType, Continue
<1>6. StepStart(proof) \in CacheType /\ SamePreimage(StepStart(proof), ins)
  BY Started DEF IInv, TypeInv
<1> HIDE DEF s
<1>7. QuietStep /\ st'.heap = st.heap
  BY <1>2, <1>5, <1>6, QuietReturn
<1> QED BY <1>2, <1>4, <1>7, QuietInv

LEMMA SmallRemainder ==
    ASSUME NEW m \in Nat \ {0}, NEW a \in Nat
    PROVE  a % m \in 0 .. (m - 1) /\ (a < m => a % m = a)
OBVIOUS

(* A region that mmap chooses lies between the old and the new heap        *)
(* pointer.                                                                *)
LEMMA MmapIInv ==
    ASSUME IInv, NEW proof \in BOOLEAN, NEW a0 \in {0, PAGE_SIZE}, NEW a1 \in MapSizes,
           NEW next \in PCs, Mmap(proof, a0, a1, next)
    PROVE  IInv'
<1> DEFINE sz == RoundUp(a1)
           heap == (st.heap + sz) % MEM_SIZE
           s == Continue([st EXCEPT !.heap = heap], st.heap, "ok", next)
<1> USE InstrumentedAssumption
<1>1. a1 \in Nat /\ a1 \in 0 .. (MEM_SIZE - 1) /\ a0 \in Nat
  OBVIOUS
<1>2. sz \in Nat /\ sz % PAGE_SIZE = 0
  BY <1>1, RoundUpPages
<1>3. /\ status = "running" /\ learnt' = Nothing /\ UNCHANGED <<guestKey, readout>>
      /\ StepStart(proof) \in CacheType /\ SamePreimage(StepStart(proof), ins)
  BY Started DEF IInv, TypeInv, Mmap, Stepping
<1>4. st \in StateType /\ st.heap \in 0 .. (MEM_SIZE - 1)
  BY DEF IInv, TypeInv, StateType
<1>5. CASE a0 = 0
  <2>1. /\ Return(proof, s, StepStart(proof))
        /\ mapped' = [regions |-> mapped.regions \cup {<<st.heap, a1>>},
                      wrapped |-> mapped.wrapped \/ a1 > sz \/ st.heap + sz >= MEM_SIZE]
    BY <1>5 DEF Mmap
  <2> HIDE DEF sz
  <2>2. heap \in 0 .. (MEM_SIZE - 1) /\ (st.heap + sz < MEM_SIZE => heap = st.heap + sz)
    <3>1. st.heap + sz \in Nat
      BY <1>2, <1>4
    <3> QED BY <3>1, SmallRemainder
  <2>3. SameKey(s) /\ s.heap = heap
    <3> HIDE DEF heap
    <3>1. <<st.heap, "ok">> \in Int \X {"ok", "EINVAL", "EBADF"}
      BY <1>4
    <3> QED BY <1>4, <2>2, <3>1 DEF SameKey, StateType, Continue
  <2>4. QuietStep /\ st'.heap = heap
    <3> HIDE DEF s
    <3> QED BY <1>3, <2>1, <2>3, QuietReturn
  <2>5. CacheInv' /\ StreamInv'
    BY <2>4, QuietStream
  <2>6. TypeInv'
    <3>1. mapped' \in [regions : SUBSET (Nat \X Nat), wrapped : BOOLEAN]
      BY <1>1, <1>4, <2>1 DEF IInv, TypeInv
    <3> QED BY <1>3, <2>4, <3>1 DEF IInv, TypeInv, QuietStep
  <2>7. MapInv'
    <3> SUFFICES ASSUME ~ mapped'.wrapped PROVE MapInv'
      BY DEF MapInv, MmapDisjoint
    <3>1. ~ mapped.wrapped /\ a1 <= sz /\ st.heap + sz < MEM_SIZE
      <4>1. ~ mapped.wrapped /\ ~ (a1 > sz) /\ ~ (st.heap + sz >= MEM_SIZE)
        BY <2>1, Zenon
      <4>2. \A x \in Nat, y \in Nat : (~ (x > y) => x <= y) /\ (~ (x >= y) => x < y)
        OBVIOUS
      <4>3. st.heap + sz \in Nat
        BY <1>2, <1>4
      <4> QED BY <1>1, <1>2, <4>1, <4>2, <4>3
    <3>2. heap = st.heap + sz
      BY <2>2, <3>1
    <3>3. /\ st.heap % PAGE_SIZE = 0
          /\ \A r \in mapped.regions :
                /\ r[1] % PAGE_SIZE = 0 /\ r[1] + r[2] <= st.heap
                /\ \A q \in mapped.regions \ {r} :
                       r[1] + r[2] <= q[1] \/ q[1] + q[2] <= r[1]
      BY <3>1 DEF IInv, MapInv, MmapDisjoint
    <3>4. heap % PAGE_SIZE = 0
      <4>1. st.heap \in Nat
        BY <1>4
      <4> HIDE DEF heap
      <4> QED BY <1>2, <3>2, <3>3, <4>1, SumMultiple
    <3> DEFINE new == <<st.heap, a1>>
    <3>5. mapped'.regions = mapped.regions \cup {new} /\ mapped.regions \subseteq Nat \X Nat
      BY <2>1 DEF IInv, TypeInv
    <3>6. new[1] = st.heap /\ new[2] = a1
      OBVIOUS
    <3> HIDE DEF heap, new
    <3>7. \A r \in mapped'.regions : r[1] % PAGE_SIZE = 0 /\ r[1] + r[2] <= st'.heap
      <4> SUFFICES ASSUME NEW r \in mapped'.regions
                   PROVE  r[1] % PAGE_SIZE = 0 /\ r[1] + r[2] <= st'.heap
        OBVIOUS
      <4>1. CASE r = new
        <5>1. st'.heap = st.heap + sz /\ st.heap \in Nat
          BY <1>4, <2>4, <3>2
        <5>2. \A h \in Nat : h + a1 <= h + sz
          BY <1>1, <1>2, <3>1
        <5> QED BY <3>3, <3>6, <4>1, <5>1, <5>2
      <4>2. CASE r \in mapped.regions
        <5>1. r[1] \in Nat /\ r[2] \in Nat
          BY <3>5, <4>2
        <5> QED BY <1>2, <1>4, <2>4, <3>2, <3>3, <4>2, <5>1
      <4> QED BY <3>5, <4>1, <4>2
    <3>8. \A r \in mapped'.regions : \A q \in mapped'.regions \ {r} :
             r[1] + r[2] <= q[1] \/ q[1] + q[2] <= r[1]
      <4> SUFFICES ASSUME NEW r \in mapped'.regions, NEW q \in mapped'.regions \ {r}
                   PROVE  r[1] + r[2] <= q[1] \/ q[1] + q[2] <= r[1]
        OBVIOUS
      <4>1. CASE r \in mapped.regions /\ q \in mapped.regions
        BY <3>3, <4>1
      <4>2. CASE r = new /\ q \in mapped.regions
        BY <3>3, <3>6, <4>2
      <4>3. CASE r \in mapped.regions /\ q = new
        BY <3>3, <3>6, <4>3
      <4> QED BY <3>5, <4>1, <4>2, <4>3
    <3> QED BY <2>4, <3>4, <3>7, <3>8 DEF MapInv, MmapDisjoint
  <2> QED BY <1>3, <2>5, <2>6, <2>7, NothingLearnt DEF IInv
<1>6. CASE a0 # 0
  <2> DEFINE t == Continue(st, a0, "ok", next)
  <2>1. Return(proof, t, StepStart(proof)) /\ UNCHANGED mapped
    BY <1>6 DEF Mmap
  <2>2. SameKey(t) /\ t.heap = st.heap
    <3>1. <<a0, "ok">> \in Int \X {"ok", "EINVAL", "EBADF"}
      BY <1>1
    <3> QED BY <1>4, <3>1 DEF SameKey, StateType, Continue
  <2> HIDE DEF t
  <2>3. QuietStep /\ st'.heap = st.heap
    BY <1>3, <2>1, <2>2, QuietReturn
  <2> QED BY <1>3, <2>1, <2>3, QuietInv, NothingLearnt
<1> QED BY <1>5, <1>6

-----------------------------------------------------------------------------
(* The preimage descriptor.                                                *)

LEMMA PrefixedSeq ==
    ASSUME NEW k \in DOMAIN Preimage
    PROVE  /\ k \in Key /\ k # ZeroKey
           /\ Prefixed(k) \in Seq(Byte) /\ Len(Prefixed(k)) = Len(Preimage[k]) + 1
           /\ Preimage[k] \in Seq(Byte)
           /\ Prefixed(k)[1] = Len(Preimage[k])
           /\ \A i \in 1 .. Len(Preimage[k]) : Prefixed(k)[i + 1] = Preimage[k][i]
<1>1. k \in Key /\ k # ZeroKey /\ Preimage[k] \in Seq(Byte) /\ Len(Preimage[k]) \in Byte
  BY InstrumentedAssumption
<1> DEFINE one == <<Len(Preimage[k])>>
<1>2. one \in Seq(Byte) /\ Len(one) = 1 /\ one[1] = Len(Preimage[k])
  BY <1>1
<1> HIDE DEF one
<1>3. /\ one \o Preimage[k] \in Seq(Byte)
      /\ Len(one \o Preimage[k]) = Len(one) + Len(Preimage[k])
      /\ \A i \in 1 .. Len(one) + Len(Preimage[k]) :
            (one \o Preimage[k])[i] = IF i <= Len(one) THEN one[i] ELSE Preimage[k][i - Len(one)]
  BY <1>1, <1>2, ConcatProperties
<1>4. Prefixed(k) = one \o Preimage[k]
  BY DEF Prefixed, one
<1>5. Len(Preimage[k]) \in Nat
  BY <1>1
<1>6. Prefixed(k)[1] = Len(Preimage[k])
  BY <1>2, <1>3, <1>4, <1>5
<1>7. ASSUME NEW i \in 1 .. Len(Preimage[k]) PROVE Prefixed(k)[i + 1] = Preimage[k][i]
  <2>1. i + 1 \in 1 .. Len(one) + Len(Preimage[k]) /\ ~ (i + 1 <= Len(one))
           /\ (i + 1) - Len(one) = i
    BY <1>2, <1>5
  <2> QED BY <1>3, <1>4, <2>1
<1> QED BY <1>1, <1>2, <1>3, <1>4, <1>5, <1>6, <1>7

LEMMA KeySeq ==
    ASSUME NEW k \in Key
    PROVE  k \in Seq(Byte) /\ Len(k) = KEY /\ KEY \in Nat
BY InstrumentedAssumption DEF Key

(* Shifting bytes in from the right keeps the last KEY bytes written.      *)
LEMMA ShiftedKey ==
    ASSUME NEW k \in Key, NEW bytes \in Seq(Byte), Len(bytes) <= KEY
    PROVE  LET all == k \o bytes
           IN  /\ ShiftedIn(k, bytes) \in Key
               /\ ShiftedIn(k, bytes) = SubSeq(all, Len(all) - KEY + 1, Len(all))
<1> DEFINE n == Len(bytes)
           all == k \o bytes
           left == SubSeq(k, n + 1, KEY)
           right == SubSeq(all, n + 1, KEY + n)
<1>1. k \in Seq(Byte) /\ Len(k) = KEY /\ KEY \in Nat /\ n \in Nat /\ n <= KEY
  BY KeySeq
<1> HIDE DEF n
<1>2. /\ all \in Seq(Byte) /\ Len(all) = KEY + n
      /\ \A i \in 1 .. KEY + n : all[i] = IF i <= KEY THEN k[i] ELSE bytes[i - KEY]
  BY <1>1, ConcatProperties DEF n
<1> HIDE DEF all
<1>3. /\ left \in Seq(Byte) /\ Len(left) = KEY - n
      /\ \A i \in 1 .. KEY - n : left[i] = k[n + i]
  <2>1. \A i \in (n + 1) .. KEY : k[i] \in Byte
    BY <1>1
  <2>2. /\ left \in Seq(Byte) /\ Len(left) = IF n + 1 <= KEY THEN KEY - (n + 1) + 1 ELSE 0
        /\ \A i \in 1 .. KEY - (n + 1) + 1 : left[i] = k[(n + 1) + i - 1]
    <3>1. n + 1 \in Int /\ KEY \in Int
      BY <1>1
    <3> QED BY <2>1, <3>1, SubSeqProperties
  <2>3. \A i \in Int : (n + 1) + i - 1 = n + i /\ KEY - (n + 1) + 1 = KEY - n
    BY <1>1
  <2> HIDE DEF left
  <2> QED BY <1>1, <2>2, <2>3
<1> HIDE DEF left
<1>4. /\ left \o bytes \in Seq(Byte) /\ Len(left \o bytes) = KEY
      /\ \A i \in 1 .. KEY : (left \o bytes)[i] = IF i <= KEY - n THEN left[i]
                                                  ELSE bytes[i - (KEY - n)]
  <2>1. /\ left \o bytes \in Seq(Byte) /\ Len(left \o bytes) = Len(left) + Len(bytes)
        /\ \A i \in 1 .. Len(left) + Len(bytes) :
              (left \o bytes)[i] = IF i <= Len(left) THEN left[i] ELSE bytes[i - Len(left)]
    BY <1>3, ConcatProperties
  <2> QED BY <1>1, <1>3, <2>1 DEF n
<1>5. /\ right \in Seq(Byte) /\ Len(right) = KEY
      /\ \A i \in 1 .. KEY : right[i] = all[n + i]
  <2>1. \A i \in (n + 1) .. (KEY + n) : all[i] \in Byte
    BY <1>1, <1>2
  <2>2. /\ right \in Seq(Byte)
        /\ Len(right) = IF n + 1 <= KEY + n THEN (KEY + n) - (n + 1) + 1 ELSE 0
        /\ \A i \in 1 .. (KEY + n) - (n + 1) + 1 : right[i] = all[(n + 1) + i - 1]
    <3>1. n + 1 \in Int /\ KEY + n \in Int
      BY <1>1
    <3> QED BY <2>1, <3>1, SubSeqProperties
  <2>3. \A i \in Int : (n + 1) + i - 1 = n + i /\ (KEY + n) - (n + 1) + 1 = KEY
    BY <1>1
  <2> HIDE DEF right
  <2> QED BY <1>1, <2>2, <2>3
<1>6. ASSUME NEW i \in 1 .. KEY PROVE (left \o bytes)[i] = right[i]
  <2>1. n + i \in 1 .. KEY + n
    BY <1>1
  <2>2. CASE i <= KEY - n
    BY <1>1, <1>2, <1>3, <1>4, <1>5, <2>1, <2>2
  <2>3. CASE ~ (i <= KEY - n)
    <3>1. ~ (n + i <= KEY) /\ (n + i) - KEY = i - (KEY - n)
      BY <1>1, <2>3
    <3> QED BY <1>2, <1>4, <1>5, <2>1, <2>3, <3>1
  <2> QED BY <2>2, <2>3
<1>7. left \o bytes = right
  <2> HIDE DEF right
  <2> QED BY <1>4, <1>5, <1>6, SeqEqual
<1>8. ShiftedIn(k, bytes) = left \o bytes
  BY DEF ShiftedIn, left, n
<1>9. Len(all) - KEY + 1 = n + 1
  BY <1>1, <1>2
<1>10. left \o bytes \in Key
  <2> DEFINE lb == left \o bytes
  <2>1. lb \in Seq(Byte) /\ Len(lb) = KEY
    BY <1>4
  <2> HIDE DEF lb
  <2>2. lb \in Key
    BY <2>1 DEF Key
  <2> QED BY <2>2 DEF lb
<1> QED BY <1>2, <1>7, <1>8, <1>9, <1>10 DEF all

(* The bytes of a write to the descriptor, all of one word.                *)
WriteBytes(a1, a2) == Min({a2, WORD - (a1 % WORD)})

LEMMA WrittenBytes ==
    ASSUME NEW memory \in [DataAddress -> Byte], NEW a1 \in DataAddress, NEW a2 \in Lengths
    PROVE  LET n == WriteBytes(a1, a2)
           IN  /\ n \in Nat /\ n <= KEY
               /\ BytesAt(memory, a1, n) \in Seq(Byte) /\ Len(BytesAt(memory, a1, n)) = n
<1> DEFINE n == WriteBytes(a1, a2)
<1>1. a1 \in Nat /\ a1 % WORD \in 0 .. (WORD - 1)
  BY AddressWord
<1>2. a2 \in Nat /\ WORD \in Nat /\ KEY \in Nat /\ WORD <= KEY
  BY InstrumentedAssumption
<1>3. n \in Nat /\ n <= WORD - (a1 % WORD) /\ n <= KEY
  <2> DEFINE r == WORD - (a1 % WORD)
  <2>1. r \in Nat /\ r <= KEY
    BY <1>1, <1>2
  <2> HIDE DEF r
  <2>2. Min({a2, r}) \in Nat /\ Min({a2, r}) <= r
    <3>1. a2 \in Int /\ r \in Int
      BY <1>2, <2>1
    <3>2. Min({a2, r}) \in {a2, r} /\ Min({a2, r}) <= r
      BY <3>1, MinOfTwo, Zenon
    <3> QED BY <1>2, <2>1, <3>2
  <2> QED BY <1>2, <2>1, <2>2 DEF r, WriteBytes
<1> HIDE DEF n
<1>4. ASSUME NEW k \in 1 .. n PROVE memory[a1 + k - 1] \in Byte
  <2>1. k - 1 \in 0 .. (WORD - (a1 % WORD) - 1) /\ a1 + (k - 1) = a1 + k - 1
    BY <1>1, <1>2, <1>3
  <2> QED BY <2>1, AddressWord
<1>5. BytesAt(memory, a1, n) \in Seq(Byte) /\ Len(BytesAt(memory, a1, n)) = n
  BY <1>3, <1>4 DEF BytesAt
<1> QED BY <1>3, <1>5 DEF n

LEMMA PreimageWriteIInv ==
    ASSUME IInv, NEW proof \in BOOLEAN, NEW a1 \in DataAddress, NEW a2 \in Lengths,
           NEW next \in PCs, PreimageWrite(proof, a1, a2, next)
    PROVE  IInv'
<1> DEFINE address == a1 - (a1 % WORD)
           n  == WriteBytes(a1, a2)
           bytes == BytesAt(st.memory, a1, n)
           i0 == StepStart(proof)
           i1 == track_mem_access(i0, address, st.memory)
           key == ShiftedIn(st.preimage_key, bytes)
           s  == Continue([st EXCEPT !.preimage_key = key, !.preimage_offset = 0],
                          n, "ok", next)
           all == guestKey \o bytes
<1>1. /\ st \in StateType /\ st.memory \in [DataAddress -> Byte] /\ st.preimage_key \in Key
      /\ guestKey = st.preimage_key
  BY DEF IInv, TypeInv, StateType, StreamInv, PreimageStream
<1>2. i0 \in CacheType /\ SamePreimage(i0, ins)
  BY Started DEF IInv, TypeInv
<1>3. address \in Int
  BY AddressWord, InstrumentedAssumption
<1>4. i1 \in CacheType /\ SamePreimage(i1, i0)
  <2> HIDE DEF i0, address
  <2> QED BY <1>1, <1>2, <1>3, Tracked
<1>5. SamePreimage(i1, ins)
  BY <1>2, <1>4 DEF SamePreimage
<1>6. n \in Nat /\ n <= KEY /\ bytes \in Seq(Byte) /\ Len(bytes) = n
  BY <1>1, WrittenBytes
<1>7. \/ Abort("err", i0) /\ NoHistory
      \/ /\ status = "running"
         /\ Return(proof, s, i1)
         /\ guestKey' = SubSeq(all, Len(all) - KEY + 1, Len(all))
         /\ readout' = << >>
         /\ learnt' = <<Fds.PreimageWrite, "writable">>
         /\ UNCHANGED mapped
  BY DEF PreimageWrite, Stepping, WriteBytes
<1>8. key \in Key /\ key = SubSeq(all, Len(all) - KEY + 1, Len(all))
  <2> HIDE DEF bytes
  <2> QED BY <1>1, <1>6, ShiftedKey
<1>9. /\ s \in StateType /\ s.preimage_key = key /\ s.preimage_offset = 0 /\ s.heap = st.heap
  <2> HIDE DEF n, key
  <2>1. <<n, "ok">> \in Int \X {"ok", "EINVAL", "EBADF"}
    BY <1>6
  <2> QED BY <1>1, <1>8, <2>1 DEF StateType, Continue
<1> HIDE DEF i0, i1, s, n, bytes, key, all
<1>10. CASE Abort("err", i0) /\ NoHistory
  <2>1. QuietStep /\ st'.heap = st.heap
    BY <1>2, <1>10, QuietAbort DEF NoHistory
  <2> QED BY <1>10, <2>1, QuietInv, NothingLearnt DEF NoHistory
<1>11. CASE /\ status = "running"
            /\ Return(proof, s, i1)
            /\ guestKey' = SubSeq(all, Len(all) - KEY + 1, Len(all))
            /\ readout' = << >>
            /\ learnt' = <<Fds.PreimageWrite, "writable">>
            /\ UNCHANGED mapped
  <2>1. st' = [s EXCEPT !.step = @ + 1] /\ ins' = i1 /\ status' = "running"
    BY <1>11 DEF Return
  <2>2. st' \in StateType /\ st'.preimage_key = key /\ st'.preimage_offset = 0
           /\ st'.heap = st.heap
    BY <1>9, <2>1, Counted
  <2>3. TypeInv'
    BY <1>4, <1>8, <1>11, <2>1, <2>2, EmptySeq DEF IInv, TypeInv
  <2>4. CacheInv'
    BY <1>5, <2>1 DEF IInv, CacheInv, SamePreimage
  <2>5. StreamInv'
    BY <1>8, <1>11, <2>1, <2>2 DEF StreamInv, PreimageStream
  <2>6. MapInv'
    BY <1>11, <2>2 DEF IInv, MapInv, MmapDisjoint
  <2>7. LearntInv'
    <3>1. Fds.PreimageWrite = 6
      BY DEF Fds
    <3>2. 6 % U8 = 6
      BY InstrumentedAssumption
    <3>3. "writable" \in Answers(6)
      BY DEF Answers, Fds
    <3> QED BY <1>11, <3>1, <3>2, <3>3 DEF LearntInv
  <2> QED BY <2>3, <2>4, <2>5, <2>6, <2>7 DEF IInv
<1> QED BY <1>7, <1>10, <1>11

(* The caches after a read of the descriptor at a1, and what is read.      *)
ReadTracked(proof, a1) == track_mem_access(StepStart(proof), a1 - (a1 % WORD), st.memory)
ReadCaches(proof, a1)  == Fetched(ReadTracked(proof, a1))
ReadLength(proof, a1, a2) ==
    Min({Len(ReadCaches(proof, a1).last_preimage) - st.preimage_offset, KEY,
         WORD - (a1 % WORD), a2})
ReadData(proof, a1, a2) ==
    SubSeq(ReadCaches(proof, a1).last_preimage, st.preimage_offset + 1,
           st.preimage_offset + ReadLength(proof, a1, a2))
ReadState(proof, a1, a2, next) ==
    Continue([st EXCEPT !.memory = WithBytes(@, a1, ReadData(proof, a1, a2)),
                        !.preimage_offset = @ + ReadLength(proof, a1, a2)],
             ReadLength(proof, a1, a2), "ok", next)

LEMMA ReadTrackedType ==
    ASSUME IInv, NEW proof \in BOOLEAN, NEW a1 \in DataAddress
    PROVE  /\ ReadTracked(proof, a1) \in CacheType
           /\ SamePreimage(ReadTracked(proof, a1), ins)
<1> DEFINE address == a1 - (a1 % WORD)
           i0 == StepStart(proof)
<1>1. st.memory \in [DataAddress -> Byte]
  BY DEF IInv, TypeInv, StateType
<1>2. i0 \in CacheType /\ SamePreimage(i0, ins)
  BY Started DEF IInv, TypeInv
<1>3. address \in Int
  BY AddressWord, InstrumentedAssumption
<1>4. ReadTracked(proof, a1) = track_mem_access(i0, address, st.memory)
  BY DEF ReadTracked
<1> HIDE DEF i0, address
<1> QED BY <1>1, <1>2, <1>3, <1>4, Tracked DEF SamePreimage

(* read_preimage caches the preimage of the key, and there is no more to   *)
(* slice off it than there is.                                             *)
LEMMA ReadInRange ==
    ASSUME IInv, NEW proof \in BOOLEAN, NEW a1 \in DataAddress, NEW a2 \in Lengths,
           ~ FetchFails(ReadTracked(proof, a1))
    PROVE  LET i == ReadCaches(proof, a1)
               p == i.last_preimage
               n == ReadLength(proof, a1, a2)
           IN  /\ i \in CacheType
               /\ i.last_preimage_key = st.preimage_key
               /\ i.last_preimage_offset = st.preimage_offset
               /\ i.mem_proof = ReadTracked(proof, a1).mem_proof
               /\ IF st.preimage_key = ZeroKey
                  THEN p = << >>
                  ELSE st.preimage_key \in DOMAIN Preimage /\ p = Prefixed(st.preimage_key)
               /\ Len(p) \in Nat /\ st.preimage_offset <= Len(p)
               /\ n \in Nat /\ n <= WORD - (a1 % WORD) /\ n <= Len(p) - st.preimage_offset
               /\ readout = SubSeq(p, 1, st.preimage_offset)
<1> DEFINE j == ReadTracked(proof, a1)
           i == ReadCaches(proof, a1)
           p == i.last_preimage
           key == st.preimage_key
           off == st.preimage_offset
           cached == IF key = j.last_preimage_key THEN j.last_preimage ELSE Prefixed(key)
<1>1. j \in CacheType /\ SamePreimage(j, ins)
  BY ReadTrackedType
<1>2. key \in Key /\ off \in Nat
  BY DEF IInv, TypeInv, StateType
<1>3. IF key = ZeroKey THEN cached = << >>
      ELSE key \in DOMAIN Preimage /\ cached = Prefixed(key)
  <2>1. key = j.last_preimage_key \/ key \in DOMAIN Preimage
    BY DEF FetchFails
  <2>2. IF j.last_preimage_key = ZeroKey THEN j.last_preimage = << >>
        ELSE /\ j.last_preimage_key \in DOMAIN Preimage
             /\ j.last_preimage = Prefixed(j.last_preimage_key)
    BY <1>1 DEF IInv, CacheInv, SamePreimage
  <2>3. ZeroKey \notin DOMAIN Preimage
    BY InstrumentedAssumption
  <2> HIDE DEF j, key
  <2> QED BY <2>1, <2>2, <2>3
<1>4. cached \in Seq(Byte)
  <2> HIDE DEF cached, key
  <2> QED BY <1>3, PrefixedSeq, EmptySeq
<1>5. /\ i \in CacheType /\ i.last_preimage = cached /\ i.last_preimage_key = key
      /\ i.last_preimage_offset = off /\ i.mem_proof = j.mem_proof
  <2>1. i = [j EXCEPT !.last_preimage_key = key, !.last_preimage = cached,
                      !.last_preimage_offset = off]
    BY DEF ReadCaches, Fetched
  <2>2. off \in Int
    BY <1>2
  <2> HIDE DEF i, j, cached, key, off
  <2> QED BY <1>1, <1>2, <1>4, <2>1, <2>2 DEF CacheType
<1>6. /\ guestKey = key /\ off = Len(readout) /\ readout \in Seq(Byte)
      /\ readout # << >> => /\ guestKey \in DOMAIN Preimage
                            /\ readout = SubSeq(Prefixed(guestKey), 1, off)
                            /\ off <= Len(Prefixed(guestKey))
  BY DEF IInv, TypeInv, StreamInv, PreimageStream
<1> HIDE DEF i, j, cached, key, off
<1>7. Len(cached) \in Nat /\ off <= Len(cached) /\ readout = SubSeq(cached, 1, off)
  <2>1. CASE readout = << >>
    <3>1. off = 0
      BY <1>6, <2>1, EmptySeq
    <3>2. SubSeq(cached, 1, 0) = << >>
      BY SubSeqEmpty
    <3> QED BY <1>4, <2>1, <3>1, <3>2
  <2>2. CASE readout # << >>
    <3>1. key # ZeroKey
      BY <1>6, <2>2, PrefixedSeq
    <3> QED BY <1>3, <1>4, <1>6, <2>2, <3>1
  <2> QED BY <2>1, <2>2
<1>8. LET n == ReadLength(proof, a1, a2)
      IN  n \in Nat /\ n <= WORD - (a1 % WORD) /\ n <= Len(cached) - off
  <2> DEFINE rest == Len(cached) - off
             room == WORD - (a1 % WORD)
  <2>1. rest \in Nat
    BY <1>2, <1>7
  <2>2. room \in Nat
    BY AddressWord, InstrumentedAssumption
  <2>3. a2 \in Nat /\ KEY \in Nat
    BY InstrumentedAssumption
  <2>4. ReadLength(proof, a1, a2) = Min({rest, KEY, room, a2})
    BY <1>5 DEF ReadLength, i, off
  <2> HIDE DEF rest, room
  <2>5. rest \in Int /\ KEY \in Int /\ room \in Int /\ a2 \in Int
    BY <2>1, <2>2, <2>3
  <2> DEFINE m == Min({rest, KEY, room, a2})
  <2>6. m \in {rest, KEY, room, a2} /\ m <= rest /\ m <= room
    BY <2>5, MinOfFour, Zenon
  <2> HIDE DEF m
  <2>7. m \in Nat
    BY <2>1, <2>2, <2>3, <2>6
  <2> QED BY <2>4, <2>6, <2>7 DEF m, rest, room
<1> QED BY <1>3, <1>5, <1>7, <1>8 DEF i, j, key, off

ReadDone(proof, a1, a2, next) ==
    /\ ~ FetchFails(ReadTracked(proof, a1))
    /\ status = "running"
    /\ Return(proof, ReadState(proof, a1, a2, next), ReadCaches(proof, a1))
    /\ readout' = readout \o ReadData(proof, a1, a2)

ReadFailed(proof, a1) ==
    /\ Abort("err", StepStart(proof)) \/ Abort("err", ReadTracked(proof, a1))
    /\ UNCHANGED readout

(* A read fails, or it returns: it never panics.                           *)
LEMMA ReadCases ==
    ASSUME IInv, NEW proof \in BOOLEAN, NEW a1 \in DataAddress, NEW a2 \in Lengths,
           NEW next \in PCs, PreimageRead(proof, a1, a2, next)
    PROVE  /\ ReadDone(proof, a1, a2, next) \/ ReadFailed(proof, a1)
           /\ UNCHANGED <<guestKey, mapped>>
           /\ touched' = a1 - (a1 % WORD)
           /\ learnt' = IF status' = "running" THEN <<Fds.PreimageRead, "readable">> ELSE Nothing
<1> DEFINE i1 == ReadTracked(proof, a1)
           i2 == ReadCaches(proof, a1)
           rest == Len(i2.last_preimage) - st.preimage_offset
<1>1. ~ FetchFails(i1) => ~ (rest < 0)
  <2> SUFFICES ASSUME ~ FetchFails(i1) PROVE ~ (rest < 0)
    OBVIOUS
  <2>1. Len(i2.last_preimage) \in Nat /\ st.preimage_offset <= Len(i2.last_preimage)
    BY ReadInRange
  <2>2. st.preimage_offset \in Nat
    BY DEF IInv, TypeInv, StateType
  <2> QED BY <2>1, <2>2
<1>2. \/ Abort("err", StepStart(proof)) /\ UNCHANGED readout
      \/ FetchFails(i1) /\ Abort("err", i1) /\ UNCHANGED readout
      \/ /\ ~ FetchFails(i1)
         /\ IF rest < 0
            THEN Abort("panic", i2) /\ UNCHANGED readout
            ELSE /\ Return(proof, ReadState(proof, a1, a2, next), i2)
                 /\ readout' = readout \o ReadData(proof, a1, a2)
  BY DEF PreimageRead, ReadTracked, ReadCaches, ReadState, ReadData, ReadLength
<1>3. /\ status = "running" /\ UNCHANGED <<guestKey, mapped>>
      /\ touched' = a1 - (a1 % WORD)
      /\ learnt' = IF status' = "running" THEN <<Fds.PreimageRead, "readable">> ELSE Nothing
  BY DEF PreimageRead, Stepping
<1> HIDE DEF i1, i2, rest
<1>4. ReadDone(proof, a1, a2, next) \/ ReadFailed(proof, a1)
  BY <1>1, <1>2, <1>3 DEF ReadDone, ReadFailed, i1, i2
<1> QED BY <1>3, <1>4

(* What a read that returns does: the bytes go to the word, and follow the *)
(* ones read before.                                                       *)
LEMMA ReadEffect ==
    ASSUME IInv, NEW proof \in BOOLEAN, NEW a1 \in DataAddress, NEW a2 \in Lengths,
           NEW next \in PCs, ReadDone(proof, a1, a2, next)
    PROVE  LET p == ReadCaches(proof, a1).last_preimage
               n == ReadLength(proof, a1, a2)
           IN  /\ st' \in StateType /\ ins' = ReadCaches(proof, a1) /\ status' = "running"
               /\ st'.memory = WithBytes(st.memory, a1, ReadData(proof, a1, a2))
               /\ st'.preimage_key = st.preimage_key
               /\ st'.preimage_offset = st.preimage_offset + n
               /\ st'.heap = st.heap /\ st'.step = st.step + 1
               /\ ReadData(proof, a1, a2) \in Seq(Byte) /\ Len(ReadData(proof, a1, a2)) = n
               /\ readout' = SubSeq(p, 1, st.preimage_offset + n)
               /\ readout' \in Seq(Byte) /\ Len(readout') = st.preimage_offset + n
<1> DEFINE p == ReadCaches(proof, a1).last_preimage
           n == ReadLength(proof, a1, a2)
           off == st.preimage_offset
           data == ReadData(proof, a1, a2)
           s == ReadState(proof, a1, a2, next)
<1>1. /\ p \in Seq(Byte) /\ Len(p) \in Nat /\ off \in Nat /\ off <= Len(p)
      /\ n \in Nat /\ n <= Len(p) - off /\ readout = SubSeq(p, 1, off)
  <2>1. ~ FetchFails(ReadTracked(proof, a1))
    BY DEF ReadDone
  <2>2. off \in Nat
    BY DEF IInv, TypeInv, StateType
  <2>3. ReadCaches(proof, a1) \in CacheType
    BY <2>1, ReadInRange
  <2>4. p \in Seq(Byte)
    BY <2>3 DEF CacheType
  <2> QED BY <2>1, <2>2, <2>4, ReadInRange
<1>2. data = SubSeq(p, off + 1, off + n) /\ readout' = readout \o data
  BY DEF ReadData, ReadDone
<1>3. st \in StateType /\ st.memory \in [DataAddress -> Byte]
  BY DEF IInv, TypeInv, StateType
<1>4. a1 \in Nat
  BY AddressWord
<1>5. /\ s = Continue([st EXCEPT !.memory = WithBytes(@, a1, data), !.preimage_offset = @ + n],
                      n, "ok", next)
      /\ st' = [s EXCEPT !.step = @ + 1] /\ ins' = ReadCaches(proof, a1) /\ status' = "running"
  BY DEF ReadDone, ReadState, Return
<1> HIDE DEF p, n, off, data, s
<1>6. data \in Seq(Byte) /\ Len(data) = n
  <2>1. \A k \in (off + 1) .. (off + n) : p[k] \in Byte
    BY <1>1
  <2>2. /\ data \in Seq(Byte)
        /\ Len(data) = IF off + 1 <= off + n THEN (off + n) - (off + 1) + 1 ELSE 0
    <3>1. off + 1 \in Int /\ off + n \in Int
      BY <1>1
    <3> QED BY <1>2, <2>1, <3>1, SubSeqProperties
  <2> QED BY <1>1, <2>2
<1>7. readout' = SubSeq(p, 1, off + n)
  <2>1. 1 \in 1 .. Len(p) + 1 /\ off \in 0 .. Len(p) /\ off + n \in off .. Len(p)
    BY <1>1
  <2>2. SubSeq(p, 1, off) \o SubSeq(p, off + 1, off + n) = SubSeq(p, 1, off + n)
    <3>1. off \in (1 - 1) .. Len(p)
      BY <2>1
    <3> QED BY <1>1, <2>1, <3>1, ConcatAdjacentSubSeq
  <2> QED BY <1>1, <1>2, <2>2
<1>8. readout' \in Seq(Byte) /\ Len(readout') = off + n
  <2>1. \A k \in 1 .. (off + n) : p[k] \in Byte
    BY <1>1
  <2>2. /\ SubSeq(p, 1, off + n) \in Seq(Byte)
        /\ Len(SubSeq(p, 1, off + n)) = IF 1 <= off + n THEN (off + n) - 1 + 1 ELSE 0
    <3>1. 1 \in Int /\ off + n \in Int
      BY <1>1
    <3> QED BY <2>1, <3>1, SubSeqProperties
  <2> QED BY <1>1, <1>7, <2>2
<1>9. /\ s \in StateType /\ s.memory = WithBytes(st.memory, a1, data)
      /\ s.preimage_key = st.preimage_key /\ s.preimage_offset = off + n /\ s.heap = st.heap
      /\ s.step = st.step
  <2>1. WithBytes(st.memory, a1, data) \in [DataAddress -> Byte]
    BY <1>3, <1>4, <1>6, Written
  <2>2. <<n, "ok">> \in Int \X {"ok", "EINVAL", "EBADF"}
    BY <1>1
  <2>3. st.preimage_offset + n \in Nat /\ st.preimage_offset = off
    BY <1>1 DEF off
  <2> QED BY <1>3, <1>5, <2>1, <2>2, <2>3 DEF StateType, Continue
<1>10. /\ st' \in StateType /\ st'.memory = WithBytes(st.memory, a1, data)
       /\ st'.preimage_key = st.preimage_key /\ st'.preimage_offset = off + n
       /\ st'.heap = st.heap /\ st'.step = st.step + 1
  BY <1>5, <1>9, Counted
<1> QED BY <1>5, <1>6, <1>7, <1>8, <1>10 DEF p, n, off, data

LEMMA PreimageReadIInv ==
    ASSUME IInv, NEW proof \in BOOLEAN, NEW a1 \in DataAddress, NEW a2 \in Lengths,
           NEW next \in PCs, PreimageRead(proof, a1, a2, next)
    PROVE  IInv'
<1>1. /\ ReadDone(proof, a1, a2, next) \/ ReadFailed(proof, a1)
      /\ UNCHANGED <<guestKey, mapped>>
      /\ learnt' = IF status' = "running" THEN <<Fds.PreimageRead, "readable">> ELSE Nothing
  BY ReadCases
<1>2. LearntInv'
  <2>1. Fds.PreimageRead = 5
    BY DEF Fds
  <2>2. 5 % U8 = 5
    BY InstrumentedAssumption
  <2>3. "readable" \in Answers(5)
    BY DEF Answers, Fds
  <2> QED BY <1>1, <2>1, <2>2, <2>3 DEF LearntInv
<1>3. CASE ReadFailed(proof, a1)
  <2>1. StepStart(proof) \in CacheType /\ SamePreimage(StepStart(proof), ins)
    BY Started DEF IInv, TypeInv
  <2>2. ReadTracked(proof, a1) \in CacheType /\ SamePreimage(ReadTracked(proof, a1), ins)
    BY ReadTrackedType
  <2>3. QuietStep /\ st'.heap = st.heap
    BY <1>1, <1>3, <2>1, <2>2, QuietAbort DEF ReadFailed
  <2> QED BY <1>1, <1>2, <2>3, QuietInv
<1>4. CASE ReadDone(proof, a1, a2, next)
  <2> DEFINE i == ReadCaches(proof, a1)
             p == i.last_preimage
             n == ReadLength(proof, a1, a2)
             off == st.preimage_offset
             key == st.preimage_key
  <2>1. ~ FetchFails(ReadTracked(proof, a1))
    BY <1>4 DEF ReadDone
  <2>2. /\ i \in CacheType /\ i.last_preimage_key = key
        /\ IF key = ZeroKey THEN p = << >> ELSE key \in DOMAIN Preimage /\ p = Prefixed(key)
        /\ Len(p) \in Nat /\ off <= Len(p) /\ n \in Nat /\ n <= Len(p) - off
    BY <2>1, ReadInRange
  <2>3. /\ st' \in StateType /\ ins' = i /\ status' = "running"
        /\ st'.preimage_key = key /\ st'.preimage_offset = off + n /\ st'.heap = st.heap
        /\ readout' = SubSeq(p, 1, off + n)
        /\ readout' \in Seq(Byte) /\ Len(readout') = off + n
    BY <1>4, ReadEffect
  <2>4. guestKey = key /\ off \in Nat
    BY DEF IInv, TypeInv, StreamInv, PreimageStream, StateType
  <2> HIDE DEF i, n, off, key
  <2>5. TypeInv'
    BY <1>1, <2>2, <2>3 DEF IInv, TypeInv
  <2>6. CacheInv'
    BY <2>2, <2>3 DEF CacheInv
  <2>7. StreamInv'
    <3>1. readout' # << >> => /\ key \in DOMAIN Preimage
                              /\ p = Prefixed(key)
                              /\ Len(readout') <= Len(Prefixed(key))
      <4> SUFFICES ASSUME readout' # << >>
                   PROVE  /\ key \in DOMAIN Preimage /\ p = Prefixed(key)
                          /\ Len(readout') <= Len(Prefixed(key))
        OBVIOUS
      <4>1. Len(readout') # 0
        BY <2>3, EmptySeq
      <4>2. Len(readout') <= Len(p)
        BY <2>2, <2>3, <2>4
      <4>3. p # << >>
        BY <2>2, <2>3, <2>4, <4>1, <4>2, EmptySeq
      <4> QED BY <2>2, <4>2, <4>3
    <3> QED BY <1>1, <2>3, <2>4, <3>1 DEF StreamInv, PreimageStream
  <2>8. MapInv'
    BY <1>1, <2>3 DEF IInv, MapInv, MmapDisjoint
  <2> QED BY <1>2, <2>5, <2>6, <2>7, <2>8 DEF IInv
<1> QED BY <1>1, <1>3, <1>4

-----------------------------------------------------------------------------
LEMMA NextIInv == IInv /\ [Next]_vars => IInv'
<1> SUFFICES ASSUME IInv, [Next]_vars PROVE IInv'
  OBVIOUS
<1>1. CASE UNCHANGED vars
  BY <1>1 DEF vars, IInv, TypeInv, CacheInv, StreamInv, PreimageStream, MapInv, MmapDisjoint,
              LearntInv
<1>2. CASE Restart
  BY <1>2, RestartIInv
<1>3. ASSUME NEW proof \in BOOLEAN, StepExited(proof) PROVE IInv'
  BY <1>3, StepExitedIInv
<1>4. ASSUME NEW proof \in BOOLEAN, NEW next \in PCs, MemoryOp(proof, next) PROVE IInv'
  BY <1>4, LoadIInv, StoreIInv DEF MemoryOp
<1>5. ASSUME NEW proof \in BOOLEAN, NEW next \in PCs, PreimageOp(proof, next) PROVE IInv'
  BY <1>5, PreimageWriteIInv, PreimageReadIInv DEF PreimageOp
<1>6. ASSUME NEW proof \in BOOLEAN, NEW next \in PCs, OtherOp(proof, next) PROVE IInv'
  BY <1>6, PlainIInv, RefusedIInv, ExitGroupIInv, PureSyscallIInv DEF OtherOp
<1>7. ASSUME NEW proof \in BOOLEAN, NEW next \in PCs,
             NEW a0 \in {0, PAGE_SIZE}, NEW a1 \in MapSizes, Mmap(proof, a0, a1, next)
      PROVE  IInv'
  BY <1>7, MmapIInv
<1> QED BY <1>1, <1>2, <1>3, <1>4, <1>5, <1>6, <1>7 DEF Next

LEMMA Invariance == Spec => []IInv
BY InitIInv, NextIInv, PTL DEF Spec

(* Over any sequence of partial reads and writes of the preimage           *)
(* descriptor, of switches between keys and of restarts, the guest reads   *)
(* the length and the bytes of the preimage of its last key, each once and *)
(* in order, and read_preimage never slices past the end of its cache: for *)
(* every oracle, every size of words and keys, and any number of steps.    *)
THEOREM StreamCorrect == Spec => []PreimageStream
<1>1. IInv => PreimageStream
  BY DEF IInv, StreamInv
<1> QED BY <1>1, Invariance, PTL

(* Until the heap wraps, the regions mmap chooses start on a page, do not  *)
(* overlap and lie below the heap pointer: for every page size and every   *)
(* sequence of sizes.                                                      *)
THEOREM MmapCorrect == Spec => []MmapDisjoint
<1>1. IInv => MmapDisjoint
  BY DEF IInv, MapInv
<1> QED BY <1>1, Invariance, PTL

-----------------------------------------------------------------------------
(* What the steps look like to the action properties.                      *)

(* The state stays: a restart, or a step after the exit.                   *)
StillForm ==
    /\ UNCHANGED <<st, readout>>
    /\ \/ witness' = NoWitness
       \/ /\ witness' = StepWitness(ins')
          /\ ins'.last_preimage_offset = NoOffset /\ touched' = NoAccess

AbortForm ==
    /\ Stepping
    /\ st' = [st EXCEPT !.step = @ + 1] /\ witness' = NoWitness /\ UNCHANGED readout

(* A step that consumes no preimage, and touches one word or none.         *)
TouchForm(proof, s, i) ==
    /\ Stepping /\ Return(proof, s, i)
    /\ s \in StateType /\ s.step = st.step
    /\ readout' \in {readout, << >>}
    /\ i.last_preimage_offset = NoOffset
    /\ s.preimage_offset \in {0, st.preimage_offset}
    /\ proof /\ touched' # NoAccess => i.mem_proof = merkle_proof(st.memory, touched')
    /\ \A a \in DataAddress : s.memory[a] # st.memory[a] => a - (a % WORD) = touched'

ReadForm(proof, a1, a2, next) ==
    /\ Stepping /\ ReadDone(proof, a1, a2, next)
    /\ touched' = a1 - (a1 % WORD) /\ UNCHANGED guestKey

StepForm ==
    \/ StillForm
    \/ AbortForm
    \/ \E proof \in BOOLEAN : \E s, i : TouchForm(proof, s, i)
    \/ \E proof \in BOOLEAN, a1 \in DataAddress, a2 \in Lengths, next \in PCs :
          ReadForm(proof, a1, a2, next)

LEMMA AbortIsForm ==
    ASSUME NEW outcome, NEW i, Stepping, Abort(outcome, i), UNCHANGED readout
    PROVE  StepForm
BY DEF StepForm, AbortForm, Abort

(* A step without a data word.                                             *)
LEMMA QuietIsForm ==
    ASSUME IInv, NEW proof \in BOOLEAN, NEW s \in StateType, Stepping,
           Return(proof, s, StepStart(proof)), touched' = NoAccess, UNCHANGED readout,
           s.step = st.step, s.memory = st.memory, s.preimage_offset = st.preimage_offset
    PROVE  StepForm
<1>1. StepStart(proof).last_preimage_offset = NoOffset
  BY Started DEF IInv, TypeInv
<1>2. TouchForm(proof, s, StepStart(proof))
  BY <1>1 DEF TouchForm
<1> QED BY <1>2 DEF StepForm

(* A word tracked at the start of a step is proved in the memory before.   *)
LEMMA TrackedProof ==
    ASSUME IInv, NEW proof \in BOOLEAN, NEW address \in Int
    PROVE  LET i == track_mem_access(StepStart(proof), address, st.memory)
           IN  /\ i \in CacheType
               /\ i.last_preimage_offset = NoOffset
               /\ proof /\ address # NoAccess => i.mem_proof = merkle_proof(st.memory, address)
               /\ track_mem_access(i, address, st.memory) = i
<1> DEFINE i0 == StepStart(proof)
           i1 == track_mem_access(i0, address, st.memory)
<1>1. st.memory \in [DataAddress -> Byte]
  BY DEF IInv, TypeInv, StateType
<1>2. /\ i0 \in CacheType /\ i0.last_mem_access = NoAccess
      /\ i0.last_preimage_offset = NoOffset /\ i0.mem_proof_enabled = proof
  BY Started DEF IInv, TypeInv
<1> HIDE DEF i0
<1>3. /\ i1 \in CacheType /\ i1.last_preimage_offset = i0.last_preimage_offset
      /\ i1.mem_proof_enabled = i0.mem_proof_enabled
      /\ i0.mem_proof_enabled => i1.last_mem_access = address
      /\ i0.mem_proof_enabled /\ i0.last_mem_access # address =>
             i1.mem_proof = merkle_proof(st.memory, address)
  BY <1>1, <1>2, Tracked
<1> HIDE DEF i1
<1>4. track_mem_access(i1, address, st.memory) = i1
  <2>1. CASE proof
    <3>1. i1.last_mem_access = address
      BY <1>2, <1>3, <2>1
    <3> QED BY <1>1, <1>3, <3>1, Tracked
  <2>2. CASE ~ proof
    <3>1. ~ i1.mem_proof_enabled
      BY <1>2, <1>3, <2>2
    <3> QED BY <3>1 DEF track_mem_access
  <2> QED BY <2>1, <2>2
<1> QED BY <1>2, <1>3, <1>4 DEF i0, i1

LEMMA MemoryForms ==
    ASSUME IInv, NEW proof \in BOOLEAN, NEW next \in PCs, MemoryOp(proof, next)
    PROVE  StepForm
<1>0. st \in StateType /\ st.memory \in [DataAddress -> Byte]
  BY DEF IInv, TypeInv, StateType
<1>1. ASSUME NEW address \in DataWords, Load(proof, address, next) PROVE StepForm
  <2> DEFINE i == track_mem_access(StepStart(proof), address, st.memory)
             s == [st EXCEPT !.pc = next]
  <2>1. address \in Int
    BY InstrumentedAssumption
  <2>2. /\ Stepping /\ touched' = address /\ UNCHANGED readout
        /\ Abort("err", StepStart(proof)) \/ Return(proof, s, i)
    BY <1>1 DEF Load, NoHistory
  <2>3. /\ i.last_preimage_offset = NoOffset
        /\ proof /\ address # NoAccess => i.mem_proof = merkle_proof(st.memory, address)
    BY <2>1, TrackedProof
  <2>4. /\ s \in StateType /\ s.step = st.step /\ s.memory = st.memory
        /\ s.preimage_offset = st.preimage_offset
    BY <1>0 DEF StateType
  <2> HIDE DEF i, s
  <2>5. Return(proof, s, i) => TouchForm(proof, s, i)
    BY <2>2, <2>3, <2>4 DEF TouchForm
  <2> QED BY <2>2, <2>5, AbortIsForm DEF StepForm
<1>2. ASSUME NEW address \in DataWords, NEW w \in StoreWords, Store(proof, address, w, next)
      PROVE  StepForm
  <2> DEFINE i == track_mem_access(StepStart(proof), address, st.memory)
             m == WithBytes(st.memory, address, w)
             s == [st EXCEPT !.pc = next, !.memory = m]
  <2>1. address \in Int /\ address \in Nat /\ w \in Seq(Byte) /\ Len(w) = WORD
    BY InstrumentedAssumption
  <2>2. /\ Stepping /\ touched' = address /\ UNCHANGED readout
        /\ \/ Abort("err", StepStart(proof))
           \/ Return(proof, s, track_mem_access(i, address, st.memory))
    BY <1>2 DEF Store, NoHistory
  <2>3. /\ i.last_preimage_offset = NoOffset
        /\ proof /\ address # NoAccess => i.mem_proof = merkle_proof(st.memory, address)
        /\ track_mem_access(i, address, st.memory) = i
    BY <2>1, TrackedProof
  <2>4. /\ m \in [DataAddress -> Byte]
        /\ \A b \in DataAddress : m[b] # st.memory[b] => b \in address .. (address + WORD - 1)
    BY <1>0, <2>1, Written
  <2> HIDE DEF m
  <2>5. \A b \in DataAddress : m[b] # st.memory[b] => b - (b % WORD) = address
    BY <2>4, WordOf
  <2>6. /\ s \in StateType /\ s.step = st.step /\ s.memory = m
        /\ s.preimage_offset = st.preimage_offset
    BY <1>0, <2>4 DEF StateType
  <2> HIDE DEF i, s
  <2>7. Return(proof, s, i) => TouchForm(proof, s, i)
    BY <2>2, <2>3, <2>5, <2>6 DEF TouchForm
  <2> QED BY <2>2, <2>3, <2>7, AbortIsForm DEF StepForm
<1> QED BY <1>1, <1>2 DEF MemoryOp

LEMMA PreimageForms ==
    ASSUME IInv, NEW proof \in BOOLEAN, NEW next \in PCs, PreimageOp(proof, next)
    PROVE  StepForm
<1>0. st \in StateType /\ st.memory \in [DataAddress -> Byte] /\ st.preimage_key \in Key
  BY DEF IInv, TypeInv, StateType
<1>1. ASSUME NEW a1 \in DataAddress, NEW a2 \in Lengths, PreimageWrite(proof, a1, a2, next)
      PROVE  StepForm
  <2> DEFINE address == a1 - (a1 % WORD)
             n == WriteBytes(a1, a2)
             key == ShiftedIn(st.preimage_key, BytesAt(st.memory, a1, n))
             i == track_mem_access(StepStart(proof), address, st.memory)
             s == Continue([st EXCEPT !.preimage_key = key, !.preimage_offset = 0],
                           n, "ok", next)
  <2>1. address \in Int
    BY AddressWord, InstrumentedAssumption
  <2>2. /\ Stepping /\ touched' = address
        /\ \/ Abort("err", StepStart(proof)) /\ UNCHANGED readout
           \/ Return(proof, s, i) /\ readout' = << >>
    BY <1>1 DEF PreimageWrite, WriteBytes, NoHistory
  <2> HIDE DEF address
  <2>3. /\ i.last_preimage_offset = NoOffset
        /\ proof /\ address # NoAccess => i.mem_proof = merkle_proof(st.memory, address)
    BY <2>1, TrackedProof
  <2>4. n \in Nat /\ key \in Key
    BY <1>0, WrittenBytes, ShiftedKey
  <2> HIDE DEF n, key
  <2>5. /\ s \in StateType /\ s.step = st.step /\ s.memory = st.memory
        /\ s.preimage_offset = 0
    <3>1. <<n, "ok">> \in Int \X {"ok", "EINVAL", "EBADF"}
      BY <2>4
    <3> QED BY <1>0, <2>4, <3>1 DEF StateType, Continue
  <2> HIDE DEF i, s
  <2>6. Return(proof, s, i) /\ readout' = << >> => TouchForm(proof, s, i)
    BY <2>2, <2>3, <2>5 DEF TouchForm
  <2> QED BY <2>2, <2>6, AbortIsForm DEF StepForm
<1>2. ASSUME NEW a1 \in DataAddress, NEW a2 \in Lengths, PreimageRead(proof, a1, a2, next)
      PROVE  StepForm
  <2>1. /\ ReadDone(proof, a1, a2, next) \/ ReadFailed(proof, a1)
        /\ touched' = a1 - (a1 % WORD) /\ UNCHANGED guestKey
    BY <1>2, ReadCases
  <2>2. Stepping
    BY <1>2 DEF PreimageRead
  <2>3. ReadFailed(proof, a1) => StepForm
    BY <2>2, AbortIsForm DEF ReadFailed
  <2>4. ReadDone(proof, a1, a2, next) => ReadForm(proof, a1, a2, next)
    BY <2>1, <2>2 DEF ReadForm
  <2> QED BY <2>1, <2>3, <2>4 DEF StepForm
<1> QED BY <1>1, <1>2 DEF PreimageOp

LEMMA ContinueType ==
    ASSUME NEW s \in StateType, NEW v0 \in Int, NEW v1 \in {"ok", "EINVAL", "EBADF"},
           NEW next \in PCs
    PROVE  LET t == Continue(s, v0, v1, next)
           IN  /\ t \in StateType /\ t.step = s.step /\ t.memory = s.memory
               /\ t.preimage_offset = s.preimage_offset
<1>1. <<v0, v1>> \in Int \X {"ok", "EINVAL", "EBADF"}
  OBVIOUS
<1> QED BY <1>1 DEF StateType, Continue

LEMMA OtherForms ==
    ASSUME IInv, NEW proof \in BOOLEAN, NEW next \in PCs, OtherOp(proof, next)
    PROVE  StepForm
<1>0. st \in StateType
  BY DEF IInv, TypeInv
<1>1. CASE Plain(proof, next)
  <2> DEFINE s == [st EXCEPT !.pc = next]
  <2>1. /\ s \in StateType /\ s.step = st.step /\ s.memory = st.memory
        /\ s.preimage_offset = st.preimage_offset
    BY <1>0 DEF StateType
  <2>2. Stepping /\ Return(proof, s, StepStart(proof)) /\ touched' = NoAccess /\ UNCHANGED readout
    BY <1>1 DEF Plain, NoHistory
  <2> HIDE DEF s
  <2> QED BY <2>1, <2>2, QuietIsForm
<1>2. CASE Refused(proof)
  BY <1>2, AbortIsForm DEF Refused, NoHistory
<1>3. ASSUME NEW a0 \in Descriptors, ExitGroup(proof, a0) PROVE StepForm
  <2> DEFINE s == [st EXCEPT !.exited = TRUE, !.exit_code = a0 % U8]
  <2>1. a0 % U8 \in Nat
    BY InstrumentedAssumption
  <2>2. /\ s \in StateType /\ s.step = st.step /\ s.memory = st.memory
        /\ s.preimage_offset = st.preimage_offset
    BY <1>0, <2>1 DEF StateType
  <2>3. Stepping /\ Return(proof, s, StepStart(proof)) /\ touched' = NoAccess /\ UNCHANGED readout
    BY <1>3 DEF ExitGroup, NoHistory
  <2> HIDE DEF s
  <2> QED BY <2>2, <2>3, QuietIsForm
<1>4. ASSUME NEW call \in {"brk", "clone", "read", "write", "fcntl", "unknown"},
             NEW a0 \in Descriptors, NEW a1 \in {0, 3}, NEW n \in Lengths,
             PureSyscall(proof, call, a0, a1, n, next)
      PROVE  StepForm
  <2> DEFINE fd == a0 % U8
             r  == SyscallResult(call, fd, a1, n)
             s  == Continue(st, r[1], r[2], next)
  <2>1. fd \in Nat /\ n \in Nat
    BY InstrumentedAssumption
  <2>2. /\ Stepping /\ Return(proof, s, StepStart(proof))
        /\ touched' = NoAccess /\ UNCHANGED readout
        /\ ~ (call = "read" /\ fd = Fds.PreimageRead)
        /\ ~ (call = "write" /\ fd \in {Fds.HintWrite, Fds.PreimageWrite})
    BY <1>4 DEF PureSyscall
  <2> HIDE DEF fd
  <2>3. r \in Int \X {"ok", "EINVAL", "EBADF"}
    BY <2>1, <2>2, SyscallAnswers
  <2> HIDE DEF r
  <2>4. r[1] \in Int /\ r[2] \in {"ok", "EINVAL", "EBADF"}
    BY <2>3
  <2>5. /\ s \in StateType /\ s.step = st.step /\ s.memory = st.memory
        /\ s.preimage_offset = st.preimage_offset
    BY <1>0, <2>4, ContinueType
  <2> HIDE DEF s
  <2> QED BY <2>2, <2>5, QuietIsForm
<1> QED BY <1>1, <1>2, <1>3, <1>4 DEF OtherOp

LEMMA MmapForms ==
    ASSUME IInv, NEW proof \in BOOLEAN, NEW next \in PCs, NEW a0 \in {0, PAGE_SIZE},
           NEW a1 \in MapSizes, Mmap(proof, a0, a1, next)
    PROVE  StepForm
<1> DEFINE heap == (st.heap + RoundUp(a1)) % MEM_SIZE
           h == [st EXCEPT !.heap = heap]
           s == Continue(h, st.heap, "ok", next)
           t == Continue(st, a0, "ok", next)
<1>1. st \in StateType /\ st.heap \in Nat
  BY DEF IInv, TypeInv, StateType
<1>2. heap \in 0 .. (MEM_SIZE - 1)
  <2>1. a1 \in 0 .. (MEM_SIZE - 1) /\ MEM_SIZE \in Nat \ {0}
    BY InstrumentedAssumption
  <2>2. RoundUp(a1) \in Nat
    BY <2>1, RoundUpPages
  <2>3. st.heap + RoundUp(a1) \in Nat
    BY <1>1, <2>2
  <2> QED BY <2>1, <2>3, SmallRemainder
<1>3. /\ Stepping /\ touched' = NoAccess /\ UNCHANGED readout
      /\ Return(proof, s, StepStart(proof)) \/ Return(proof, t, StepStart(proof))
  BY DEF Mmap
<1> HIDE DEF heap
<1>4. /\ h \in StateType /\ h.step = st.step /\ h.memory = st.memory
      /\ h.preimage_offset = st.preimage_offset
  BY <1>1, <1>2 DEF StateType
<1> HIDE DEF h
<1>5. /\ s \in StateType /\ s.step = st.step /\ s.memory = st.memory
      /\ s.preimage_offset = st.preimage_offset
  <2>1. st.heap \in Int /\ "ok" \in {"ok", "EINVAL", "EBADF"}
    BY <1>1
  <2> QED BY <1>4, <2>1, ContinueType
<1>6. /\ t \in StateType /\ t.step = st.step /\ t.memory = st.memory
      /\ t.preimage_offset = st.preimage_offset
  <2>1. a0 \in Int /\ "ok" \in {"ok", "EINVAL", "EBADF"}
    BY InstrumentedAssumption
  <2> QED BY <1>1, <2>1, ContinueType
<1> HIDE DEF s, t
<1> QED BY <1>3, <1>5, <1>6, QuietIsForm

(* Every step has one of the forms.                                        *)
LEMMA Forms == IInv /\ Next => StepForm
<1> SUFFICES ASSUME IInv, Next PROVE StepForm
  OBVIOUS
<1>1. CASE Restart
  BY <1>1 DEF Restart, NoHistory, StepForm, StillForm
<1>2. ASSUME NEW proof \in BOOLEAN, StepExited(proof) PROVE StepForm
  <2>1. StepStart(proof).last_preimage_offset = NoOffset
    BY Started DEF IInv, TypeInv
  <2> QED BY <1>2, <2>1 DEF StepExited, NoHistory, StepForm, StillForm
<1> QED BY <1>1, <1>2, MemoryForms, PreimageForms, OtherForms, MmapForms DEF Next

-----------------------------------------------------------------------------
(* What the system calls of two steps in a row say about a descriptor      *)
(* agrees, for every value of the register cast to a byte.                 *)
THEOREM ModesCorrect == Spec => DescriptorModes
<1>1. IInv /\ IInv' => ModesAgree
  <2> SUFFICES ASSUME IInv, IInv' PROVE ModesAgree
    OBVIOUS
  <2>1. CASE learnt = Nothing \/ learnt' = Nothing
    <3>1. learnt[2] = "nothing" \/ learnt'[2] = "nothing"
      BY <2>1 DEF Nothing
    <3> QED BY <3>1 DEF ModesAgree
  <2>2. CASE ~ (learnt = Nothing \/ learnt' = Nothing)
    <3>1. PICK a \in Nat : \E m \in Answers(a % U8) : learnt = <<a, m>>
      BY <2>2 DEF IInv, LearntInv
    <3>2. PICK b \in Nat : \E n \in Answers(b % U8) : learnt' = <<b, n>>
      BY <2>2 DEF IInv, LearntInv
    <3>3. PICK m \in Answers(a % U8) : learnt = <<a, m>>
      BY <3>1
    <3>4. PICK n \in Answers(b % U8) : learnt' = <<b, n>>
      BY <3>2
    <3>5. CASE a = b
      <4>1. m \in Answers(a % U8) /\ n \in Answers(a % U8)
        BY <3>3, <3>4, <3>5
      <4>2. learnt[2] = m /\ learnt'[2] = n
        BY <3>3, <3>4
      <4>3. {m, n} \notin {{"readable", "writable"}, {"readable", "not readable"},
                           {"writable", "not writable"}, {"neither", "readable"},
                           {"neither", "writable"}}
        <5>1. \/ {m, n} \subseteq {"nothing", "readable", "not writable"}
              \/ {m, n} \subseteq {"nothing", "writable", "not readable"}
              \/ {m, n} \subseteq {"nothing", "neither", "not readable", "not writable"}
          BY <4>1, Zenon DEF Answers
        <5>2. ASSUME NEW x, NEW y, {m, n} = {x, y}
              PROVE  (m = x /\ n = y) \/ (m = y /\ n = x)
          BY <5>2
        <5> QED BY <5>1, <5>2, Zenon
      <4> QED BY <4>2, <4>3 DEF ModesAgree
    <3>6. CASE a # b
      BY <3>3, <3>4, <3>6 DEF ModesAgree
    <3> QED BY <3>5, <3>6
  <2> QED BY <2>1, <2>2
<1>2. IInv /\ [Next]_vars => [ModesAgree]_vars
  BY <1>1, NextIInv
<1> QED BY <1>2, Invariance, PTL DEF Spec, DescriptorModes

(* Steps and restarts keep the hash of a state that has exited, and no     *)
(* other state has a hash that occurred before.                            *)
THEOREM ExitCorrect == Spec => ExitIsFinal
<1>1. IInv /\ Next => FinalExit
  <2> SUFFICES ASSUME IInv, Next PROVE FinalExit
    OBVIOUS
  <2>1. st \in StateType /\ st.step \in Nat
    BY DEF IInv, TypeInv, StateType
  <2>2. st' = st \/ (~ st.exited /\ st'.step = st.step + 1)
    <3>1. StepForm
      BY Forms
    <3>2. CASE StillForm
      BY <3>2 DEF StillForm
    <3>3. CASE AbortForm
      BY <2>1, <3>3, Counted DEF AbortForm, Stepping
    <3>4. ASSUME NEW proof \in BOOLEAN, NEW s, NEW i, TouchForm(proof, s, i)
          PROVE  ~ st.exited /\ st'.step = st.step + 1
      <4>1. s \in StateType /\ s.step = st.step /\ st' = [s EXCEPT !.step = @ + 1]
        BY <3>4 DEF TouchForm, Return
      <4> QED BY <3>4, <4>1, Counted DEF TouchForm, Stepping
    <3>5. ASSUME NEW proof \in BOOLEAN, NEW a1 \in DataAddress, NEW a2 \in Lengths,
                 NEW next \in PCs, ReadForm(proof, a1, a2, next)
          PROVE  ~ st.exited /\ st'.step = st.step + 1
      BY <3>5, ReadEffect DEF ReadForm, Stepping
    <3> QED BY <3>1, <3>2, <3>3, <3>4, <3>5 DEF StepForm
  <2>3. st.exited <=> state_hash(st).status # "Unfinished"
    BY DEF state_hash, vm_status
  <2>4. state_hash(st).digest = st /\ state_hash(st').digest = st'
    BY DEF state_hash
  <2> QED BY <2>1, <2>2, <2>3, <2>4 DEF FinalExit
<1>2. IInv /\ [Next]_vars => [FinalExit]_vars
  BY <1>1
<1> QED BY <1>2, Invariance, PTL DEF Spec, ExitIsFinal

(* A step that returned with the state s and the caches i.                 *)
LEMMA ReturnWitness ==
    ASSUME NEW proof \in BOOLEAN, NEW s \in StateType, NEW i, Return(proof, s, i),
           witness' # NoWitness
    PROVE  /\ proof /\ witness' = StepWitness(i)
           /\ st'.memory = s.memory /\ st'.preimage_offset = s.preimage_offset
<1>1. proof /\ witness' = StepWitness(i)
  BY DEF Return
<1>2. st' = [s EXCEPT !.step = @ + 1]
  BY DEF Return
<1> QED BY <1>1, <1>2, Counted

LEMMA WitnessParts ==
    ASSUME NEW i
    PROVE  /\ StepWitness(i).state = st
           /\ StepWitness(i).instruction = merkle_proof(st.memory, st.pc)
           /\ StepWitness(i).mem = i.mem_proof
           /\ i.last_preimage_offset = NoOffset => StepWitness(i).preimage = NoPreimage
           /\ i.last_preimage_offset \in Nat =>
                 /\ StepWitness(i).preimage # NoPreimage
                 /\ StepWitness(i).preimage = [key |-> i.last_preimage_key,
                                               value |-> i.last_preimage,
                                               offset |-> i.last_preimage_offset]
<1>1. \A n \in Nat : n # NoOffset
  BY DEF NoOffset
<1>2. NoPreimage.offset = NoOffset
  BY DEF NoPreimage
<1>3. [key |-> i.last_preimage_key, value |-> i.last_preimage,
       offset |-> i.last_preimage_offset].offset = i.last_preimage_offset
  OBVIOUS
<1>4. StepWitness(i).preimage = IF i.last_preimage_offset = NoOffset
                                THEN NoPreimage
                                ELSE [key    |-> i.last_preimage_key,
                                      value  |-> i.last_preimage,
                                      offset |-> i.last_preimage_offset]
  BY DEF StepWitness
<1>5. /\ StepWitness(i).state = st
      /\ StepWitness(i).instruction = merkle_proof(st.memory, st.pc)
      /\ StepWitness(i).mem = i.mem_proof
  BY DEF StepWitness
<1> QED BY <1>1, <1>2, <1>3, <1>4, <1>5

(* The witness of a step that read from the preimage descriptor.           *)
LEMMA ReadWitness ==
    ASSUME IInv, NEW proof \in BOOLEAN, NEW a1 \in DataAddress, NEW a2 \in Lengths,
           NEW next \in PCs, ReadForm(proof, a1, a2, next), witness' # NoWitness
    PROVE  LET i == ReadCaches(proof, a1)
           IN  /\ proof /\ witness' = StepWitness(i)
               /\ touched' # NoAccess => witness'.mem = merkle_proof(st.memory, touched')
               /\ witness'.preimage # NoPreimage
               /\ witness'.preimage = [key |-> st.preimage_key, value |-> i.last_preimage,
                                       offset |-> st.preimage_offset]
<1> DEFINE i == ReadCaches(proof, a1)
           address == a1 - (a1 % WORD)
<1>1. /\ proof /\ witness' = StepWitness(i)
  BY DEF ReadForm, ReadDone, Return
<1>2. /\ i.last_preimage_key = st.preimage_key
      /\ i.last_preimage_offset = st.preimage_offset
      /\ i.mem_proof = ReadTracked(proof, a1).mem_proof
  <2>1. ~ FetchFails(ReadTracked(proof, a1))
    BY DEF ReadForm, ReadDone
  <2> QED BY <2>1, ReadInRange
<1>3. st.preimage_offset \in Nat
  BY DEF IInv, TypeInv, StateType
<1>4. address \in Int
  BY AddressWord, InstrumentedAssumption
<1>5. proof /\ address # NoAccess =>
          ReadTracked(proof, a1).mem_proof = merkle_proof(st.memory, address)
  <2>1. ReadTracked(proof, a1) = track_mem_access(StepStart(proof), address, st.memory)
    BY DEF ReadTracked
  <2> HIDE DEF address
  <2> QED BY <1>4, <2>1, TrackedProof
<1>6. touched' = address
  BY DEF ReadForm
<1> HIDE DEF i, address
<1> QED BY <1>1, <1>2, <1>3, <1>5, <1>6, WitnessParts DEF i

(* The witness of every step is what is needed to check the step, and only *)
(* the word it proves changes: for every instruction, preimage, cached     *)
(* state and restart.                                                      *)
THEOREM WitnessCorrect == Spec => StepWitnessed
<1>1. IInv /\ Next => WitnessedStep
  <2> SUFFICES ASSUME IInv, Next, witness' # NoWitness PROVE WitnessedStep
    BY DEF WitnessedStep
  <2>0. st \in StateType /\ st.memory \in [DataAddress -> Byte] /\ st.preimage_offset \in Nat
    BY DEF IInv, TypeInv, StateType
  <2>1. StepForm
    BY Forms
  <2>2. CASE StillForm
    <3>1. /\ st' = st /\ witness' = StepWitness(ins') /\ touched' = NoAccess
          /\ ins'.last_preimage_offset = NoOffset
      BY <2>2 DEF StillForm
    <3> QED BY <3>1, WitnessParts DEF WitnessedStep
  <2>3. CASE AbortForm
    BY <2>3 DEF AbortForm
  <2>4. ASSUME NEW proof \in BOOLEAN, NEW s, NEW i, TouchForm(proof, s, i)
        PROVE  WitnessedStep
    <3>1. /\ s \in StateType /\ Return(proof, s, i)
          /\ i.last_preimage_offset = NoOffset
          /\ s.preimage_offset \in {0, st.preimage_offset}
          /\ proof /\ touched' # NoAccess => i.mem_proof = merkle_proof(st.memory, touched')
          /\ \A a \in DataAddress : s.memory[a] # st.memory[a] => a - (a % WORD) = touched'
      BY <2>4 DEF TouchForm
    <3>2. /\ proof /\ witness' = StepWitness(i)
          /\ st'.memory = s.memory /\ st'.preimage_offset = s.preimage_offset
      BY <3>1, ReturnWitness
    <3> QED BY <3>1, <3>2, WitnessParts DEF WitnessedStep
  <2>5. ASSUME NEW proof \in BOOLEAN, NEW a1 \in DataAddress, NEW a2 \in Lengths,
               NEW next \in PCs, ReadForm(proof, a1, a2, next)
        PROVE  WitnessedStep
    <3> DEFINE i == ReadCaches(proof, a1)
               n == ReadLength(proof, a1, a2)
               data == ReadData(proof, a1, a2)
    <3>1. /\ witness' = StepWitness(i)
          /\ touched' # NoAccess => witness'.mem = merkle_proof(st.memory, touched')
          /\ witness'.preimage # NoPreimage
          /\ witness'.preimage = [key |-> st.preimage_key, value |-> i.last_preimage,
                                  offset |-> st.preimage_offset]
      BY <2>5, ReadWitness
    <3>2. touched' = a1 - (a1 % WORD) /\ ReadDone(proof, a1, a2, next)
             /\ ~ FetchFails(ReadTracked(proof, a1))
      BY <2>5 DEF ReadForm, ReadDone
    <3>3. /\ st.preimage_key # ZeroKey => i.last_preimage = Prefixed(st.preimage_key)
          /\ n \in Nat /\ n <= WORD - (a1 % WORD)
      BY <3>2, ReadInRange
    <3>4. /\ st'.memory = WithBytes(st.memory, a1, data)
          /\ data \in Seq(Byte) /\ Len(data) = n
      BY <3>2, ReadEffect
    <3>5. /\ a1 \in Nat /\ a1 % WORD \in 0 .. (WORD - 1)
          /\ \A k \in 0 .. (WORD - (a1 % WORD) - 1) :
                (a1 + k) - ((a1 + k) % WORD) = a1 - (a1 % WORD)
      BY AddressWord
    <3> HIDE DEF i, n, data
    <3>6. ASSUME NEW b \in DataAddress, st'.memory[b] # st.memory[b]
          PROVE  b - (b % WORD) = touched'
      <4>1. b \in a1 .. (a1 + n - 1)
        BY <2>0, <3>4, <3>5, <3>6, Written
      <4>2. b - a1 \in 0 .. (WORD - (a1 % WORD) - 1) /\ a1 + (b - a1) = b
        BY <3>3, <3>5, <4>1, InstrumentedAssumption
      <4> QED BY <3>2, <3>5, <4>2
    <3>7. /\ witness'.preimage.key = st.preimage_key
          /\ witness'.preimage.offset = st.preimage_offset
          /\ witness'.preimage.value = i.last_preimage
      BY <3>1
    <3> QED BY <3>1, <3>3, <3>6, <3>7, WitnessParts DEF WitnessedStep
  <2> QED BY <2>1, <2>2, <2>3, <2>4, <2>5 DEF StepForm
<1>2. IInv /\ [Next]_vars => [WitnessedStep]_vars
  BY <1>1
<1> QED BY <1>2, Invariance, PTL DEF Spec, StepWitnessed

-----------------------------------------------------------------------------
(* The input for the contract.                                             *)

(* Without the length in front, a cached preimage is the preimage.         *)
LEMMA UnprefixedIs ==
    ASSUME NEW k \in DOMAIN Preimage
    PROVE  Unprefixed(Prefixed(k)) = Preimage[k]
<1> DEFINE p == Prefixed(k)
           d == Preimage[k]
           u == SubSeq(p, 2, Len(p))
<1>1. /\ p \in Seq(Byte) /\ d \in Seq(Byte) /\ Len(p) = Len(d) + 1 /\ Len(d) \in Nat
      /\ \A i \in 1 .. Len(d) : p[i + 1] = d[i]
  BY PrefixedSeq
<1> HIDE DEF p, d
<1>2. \A i \in 2 .. Len(p) : p[i] \in Byte
  BY <1>1
<1>3. /\ u \in Seq(Byte) /\ Len(u) = IF 2 <= Len(p) THEN Len(p) - 2 + 1 ELSE 0
      /\ \A i \in 1 .. Len(p) - 2 + 1 : u[i] = p[2 + i - 1]
  <2>1. 2 \in Int /\ Len(p) \in Int
    BY <1>1
  <2> QED BY <1>2, <2>1, SubSeqProperties
<1> HIDE DEF u
<1>4. Len(u) = Len(d)
  BY <1>1, <1>3
<1>5. ASSUME NEW i \in 1 .. Len(u) PROVE u[i] = d[i]
  <2>1. i \in 1 .. Len(p) - 2 + 1 /\ i \in 1 .. Len(d) /\ 2 + i - 1 = i + 1
    BY <1>1, <1>4
  <2> QED BY <1>1, <1>3, <2>1
<1>6. u = d
  BY <1>1, <1>3, <1>4, <1>5, SeqEqual
<1> QED BY <1>6 DEF u, p, d, Unprefixed

(* A local preimage is what its word and its size say.                     *)
LEMMA LocalWord ==
    ASSUME NEW d \in Seq(Byte), ~ (Len(d) > LOCAL_SIZE)
    PROVE  SubSeq([i \in 1 .. LOCAL_SIZE |-> IF i <= Len(d) THEN d[i] ELSE 0], 1, Len(d)) = d
<1> DEFINE w == [i \in 1 .. LOCAL_SIZE |-> IF i <= Len(d) THEN d[i] ELSE 0]
           u == SubSeq(w, 1, Len(d))
<1>1. LOCAL_SIZE \in Nat /\ Len(d) \in Nat
  BY InstrumentedAssumption
<1>2. \A i \in 1 .. Len(d) : i \in 1 .. LOCAL_SIZE /\ w[i] = d[i] /\ w[i] \in Byte
  BY <1>1
<1> HIDE DEF w
<1>3. /\ u \in Seq(Byte) /\ Len(u) = IF 1 <= Len(d) THEN Len(d) - 1 + 1 ELSE 0
      /\ \A i \in 1 .. Len(d) - 1 + 1 : u[i] = w[1 + i - 1]
  <2>1. 1 \in Int /\ Len(d) \in Int
    BY <1>1
  <2> QED BY <1>2, <2>1, SubSeqProperties
<1> HIDE DEF u
<1>4. Len(u) = Len(d)
  BY <1>1, <1>3
<1>5. ASSUME NEW i \in 1 .. Len(u) PROVE u[i] = d[i]
  <2>1. i \in 1 .. Len(d) - 1 + 1 /\ i \in 1 .. Len(d) /\ 1 + i - 1 = i
    BY <1>1, <1>4
  <2> QED BY <1>2, <1>3, <2>1
<1>6. u = d
  BY <1>3, <1>4, <1>5, SeqEqual
<1> QED BY <1>6 DEF u, w

(* What a read adds is where what the contract has loaded begins.          *)
LEMMA PartRead ==
    ASSUME NEW p \in Seq(Byte), NEW off \in Nat, NEW n \in Nat \ {0}, off + n <= Len(p)
    PROVE  SubSeq(SubSeq(p, 1, off + n), off + 1, off + n)
              = SubSeq(SubSeq(p, off + 1, Len(p)), 1, n)
<1>1. /\ 1 \in 1 .. Len(p) /\ off + n \in 1 .. Len(p) /\ off + 1 \in 1 .. Len(p)
      /\ Len(p) \in 1 .. Len(p)
  OBVIOUS
<1>2. SubSeq(SubSeq(p, 1, off + n), off + 1, off + n) = SubSeq(p, off + 1, off + n)
  <2>1. off + 1 \in 1 .. (off + n) - 1 + 1 /\ off + n \in 1 .. (off + n) - 1 + 1
    OBVIOUS
  <2>2. SubSeq(SubSeq(p, 1, off + n), off + 1, off + n)
           = SubSeq(p, 1 + (off + 1) - 1, 1 + (off + n) - 1)
    BY <1>1, <2>1, SubSeqOfSubSeq
  <2>3. 1 + (off + 1) - 1 = off + 1 /\ 1 + (off + n) - 1 = off + n
    OBVIOUS
  <2> QED BY <2>2, <2>3
<1>3. SubSeq(SubSeq(p, off + 1, Len(p)), 1, n) = SubSeq(p, off + 1, off + n)
  <2>1. 1 \in 1 .. Len(p) - (off + 1) + 1 /\ n \in 1 .. Len(p) - (off + 1) + 1
    OBVIOUS
  <2>2. SubSeq(SubSeq(p, off + 1, Len(p)), 1, n)
           = SubSeq(p, (off + 1) + 1 - 1, (off + 1) + n - 1)
    BY <1>1, <2>1, SubSeqOfSubSeq
  <2>3. (off + 1) + 1 - 1 = off + 1 /\ (off + 1) + n - 1 = off + n
    OBVIOUS
  <2> QED BY <2>2, <2>3
<1> QED BY <1>2, <1>3

(* The input made from a witness that carries the preimage of k.           *)
LEMMA InputOf ==
    ASSUME NEW w, NEW k \in DOMAIN Preimage, NEW off \in Nat,
           w.preimage # NoPreimage,
           w.preimage = [key |-> k, value |-> Prefixed(k), offset |-> off]
    PROVE  LET input == encode_preimage_oracle_input(w)
               kind  == KeyType(k[1])
           IN  IF kind = "_Illegal" \/ (kind = "Local" /\ Len(Preimage[k]) > LOCAL_SIZE)
               THEN input = NoInput
               ELSE /\ input # NoInput
                    /\ LoadedPart(input) = SubSeq(Prefixed(k), off + 1, Len(Prefixed(k)))
                    /\ input.call = "loadLocalData" => input.ident = k
                    /\ input.call # "loadLocalData" => input.data = Preimage[k]
<1> DEFINE input == encode_preimage_oracle_input(w)
           kind  == KeyType(k[1])
           d     == Preimage[k]
           word  == [i \in 1 .. LOCAL_SIZE |-> IF i <= Len(d) THEN d[i] ELSE 0]
           keccak == [call |-> "loadKeccak256PreimagePart", offset |-> off, data |-> d]
           local == [call |-> "loadLocalData", ident |-> k, size |-> Len(d),
                     offset |-> off, word |-> word]
<1>1. w.preimage.key = k /\ w.preimage.value = Prefixed(k) /\ w.preimage.offset = off
  OBVIOUS
<1>2. Unprefixed(w.preimage.value) = d /\ d \in Seq(Byte) /\ Len(Prefixed(k)) = Len(d) + 1
  BY <1>1, UnprefixedIs, PrefixedSeq
<1>3. kind \in {"Local", "GlobalKeccak", "_Illegal"}
  BY DEF KeyType
<1>4. input = IF kind = "_Illegal" THEN NoInput
              ELSE IF kind = "GlobalKeccak" THEN keccak
              ELSE IF Len(d) > LOCAL_SIZE THEN NoInput ELSE local
  <2> HIDE DEF d, kind
  <2> QED BY <1>1, <1>2 DEF encode_preimage_oracle_input, kind
<1>5. Prefixed(k) = <<Len(d)>> \o d
  BY DEF Prefixed
<1>6. CASE kind = "GlobalKeccak"
  <2>1. input = keccak
    BY <1>4, <1>6
  <2>2. input.call = "loadKeccak256PreimagePart" /\ input.data = d /\ input.offset = off
    BY <2>1
  <2>3. input # NoInput
    <3>1. NoInput.call = "none"
      BY DEF NoInput
    <3> QED BY <2>2, <3>1
  <2>4. LoadedPart(input) = SubSeq(<<Len(d)>> \o d, off + 1, Len(d) + 1)
    <3> HIDE DEF input, d
    <3> QED BY <2>2 DEF LoadedPart
  <2> QED BY <1>2, <1>5, <1>6, <2>2, <2>3, <2>4
<1>7. CASE kind = "Local" /\ ~ (Len(d) > LOCAL_SIZE)
  <2>1. input = local
    BY <1>4, <1>7
  <2>2. /\ input.call = "loadLocalData" /\ input.word = word /\ input.size = Len(d)
        /\ input.offset = off /\ input.ident = k
    BY <2>1
  <2>3. input # NoInput
    <3>1. NoInput.call = "none"
      BY DEF NoInput
    <3> QED BY <2>2, <3>1
  <2>4. SubSeq(word, 1, Len(d)) = d
    BY <1>2, <1>7, LocalWord
  <2>5. LoadedPart(input) = SubSeq(<<Len(d)>> \o d, off + 1, Len(d) + 1)
    <3> HIDE DEF input, d, word
    <3> QED BY <2>2, <2>4 DEF LoadedPart
  <2> QED BY <1>2, <1>5, <1>7, <2>2, <2>3, <2>5
<1>8. CASE kind = "_Illegal" \/ (kind = "Local" /\ Len(d) > LOCAL_SIZE)
  BY <1>4, <1>8
<1> QED BY <1>3, <1>6, <1>7, <1>8

(* A step that read bytes of a preimage can be replayed by the contract:   *)
(* what encode_preimage_oracle_input makes it load begins with the bytes   *)
(* read.  For every oracle and key, and whichever steps and restarts came  *)
(* between the fetch and the read.                                         *)
THEOREM InputCorrect == Spec => OracleInputSuffices
<1>1. IInv /\ Next => SufficientInput
  <2> SUFFICES ASSUME IInv, Next, witness' # NoWitness, readout' # << >>,
                      Len(readout') > Len(readout)
               PROVE  SufficientInput
    BY DEF SufficientInput
  <2>1. Len(readout) \in Nat /\ ~ (Len(readout) > Len(readout))
    BY DEF IInv, TypeInv
  <2>2. ~ StillForm /\ ~ AbortForm
    BY <2>1 DEF StillForm, AbortForm
  <2>3. ~ \E proof \in BOOLEAN : \E s, i : TouchForm(proof, s, i)
    BY <2>1 DEF TouchForm
  <2>4. PICK proof \in BOOLEAN, a1 \in DataAddress, a2 \in Lengths, next \in PCs :
            ReadForm(proof, a1, a2, next)
    BY <2>2, <2>3, Forms DEF StepForm
  <2> DEFINE i == ReadCaches(proof, a1)
             p == i.last_preimage
             n == ReadLength(proof, a1, a2)
             off == st.preimage_offset
             key == st.preimage_key
  <2>5. ReadDone(proof, a1, a2, next) /\ ~ FetchFails(ReadTracked(proof, a1))
    BY <2>4 DEF ReadForm, ReadDone
  <2>6. /\ IF key = ZeroKey THEN p = << >> ELSE key \in DOMAIN Preimage /\ p = Prefixed(key)
        /\ Len(p) \in Nat /\ n \in Nat /\ n <= Len(p) - off
    BY <2>5, ReadInRange
  <2>7. readout' = SubSeq(p, 1, off + n) /\ Len(readout') = off + n
    BY <2>5, ReadEffect
  <2>8. /\ witness'.preimage # NoPreimage
        /\ witness'.preimage = [key |-> key, value |-> p, offset |-> off]
    BY <2>4, ReadWitness
  <2>9. guestKey = key /\ off = Len(readout) /\ off \in Nat
    BY <2>1 DEF IInv, StreamInv, PreimageStream
  <2> HIDE DEF i, n, off, key
  <2>10. n # 0 /\ off + n <= Len(p) /\ n > 0
    BY <2>6, <2>7, <2>9
  <2>11. key \in DOMAIN Preimage /\ p = Prefixed(key)
    <3>1. p # << >>
      BY <2>6, <2>9, <2>10, EmptySeq
    <3> QED BY <2>6, <3>1
  <2>12. p \in Seq(Byte)
    BY <2>11, PrefixedSeq
  <2> DEFINE read == SubSeq(readout', Len(readout) + 1, Len(readout'))
             part == SubSeq(p, off + 1, Len(p))
             input == encode_preimage_oracle_input(witness')
             kind == KeyType(key[1])
  <2>13. read = SubSeq(part, 1, n)
    <3> HIDE DEF p
    <3> QED BY <2>6, <2>7, <2>9, <2>10, <2>12, PartRead
  <2>14. Len(read) = n
    <3>1. \A k \in (off + 1) .. (off + n) : p[k] \in Byte
      BY <2>6, <2>9, <2>10, <2>12
    <3>2. \A k \in 1 .. n : part[k] \in Byte
      <4>1. /\ \A k \in (off + 1) .. Len(p) : p[k] \in Byte
            /\ off + 1 \in Int /\ Len(p) \in Int
        BY <2>6, <2>9, <2>12
      <4>2. \A k \in 1 .. Len(p) - (off + 1) + 1 : part[k] = p[(off + 1) + k - 1]
        <5> HIDE DEF p
        <5> QED BY <4>1, SubSeqProperties
      <4>3. ASSUME NEW k \in 1 .. n PROVE part[k] \in Byte
        <5>1. k \in 1 .. Len(p) - (off + 1) + 1 /\ (off + 1) + k - 1 \in (off + 1) .. Len(p)
          BY <2>6, <2>9, <2>10
        <5> HIDE DEF p, part
        <5> QED BY <4>1, <4>2, <5>1
      <4> QED BY <4>3
    <3>3. Len(SubSeq(part, 1, n)) = IF 1 <= n THEN n - 1 + 1 ELSE 0
      <4>1. 1 \in Int /\ n \in Int
        BY <2>6
      <4> HIDE DEF part
      <4> QED BY <3>2, <4>1, SubSeqProperties
    <3> HIDE DEF part, read
    <3> QED BY <2>6, <2>10, <2>13, <3>3
  <2>15. IF kind = "_Illegal" \/ (kind = "Local" /\ Len(Preimage[key]) > LOCAL_SIZE)
         THEN input = NoInput
         ELSE /\ input # NoInput
              /\ LoadedPart(input) = part
              /\ input.call = "loadLocalData" => input.ident = key
              /\ input.call # "loadLocalData" => input.data = Preimage[key]
    <3> HIDE DEF p
    <3> QED BY <2>8, <2>9, <2>11, InputOf
  <2>16. SufficientInput <=>
            IF kind = "_Illegal" \/ (kind = "Local" /\ Len(Preimage[key]) > LOCAL_SIZE)
            THEN input = NoInput
            ELSE /\ input # NoInput
                 /\ read = SubSeq(LoadedPart(input), 1, Len(read))
                 /\ input.call = "loadLocalData" => input.ident = key
                 /\ input.call # "loadLocalData" => input.data = Preimage[key]
    BY <2>9 DEF SufficientInput
  <2> HIDE DEF read, part, input, kind
  <2> QED BY <2>13, <2>14, <2>15, <2>16
<1>2. IInv /\ [Next]_vars => [SufficientInput]_vars
  BY <1>1
<1> QED BY <1>2, Invariance, PTL DEF Spec, OracleInputSuffices
=============================================================================
