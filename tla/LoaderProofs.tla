---------------------------- MODULE LoaderProofs ----------------------------
(***************************************************************************)
(* Proofs about MemoryReader and Loader, for every file, list of patches   *)
(* and guest: load-elf, the processes that read its dump, and the guest    *)
(* use memory as Memory allows, the write system calls see exactly the     *)
(* cells the guest asked for, and what is dumped and hashed is the image   *)
(* that the file and the patches describe.                                 *)
(***************************************************************************)
EXTENDS Loader, MemoryProofs, SequenceTheorems

-----------------------------------------------------------------------------
(* One read.                                                               *)

EndOf(a, c) ==
    IF PageOf(a) = PageOf((a + c) % S) THEN OffsetOf((a + c) % S) ELSE L

(* A read that does not panic returns something, no more than was asked    *)
(* for and no more than the page holds; it ends the range or the page.     *)
LEMMA OneRead ==
    ASSUME NEW a \in Address, NEW c \in 1 .. (S - 1),
           NEW n, n = EndOf(a, c) - OffsetOf(a)
    PROVE  /\ n \in Int
           /\ n < 0 => c > S - L
           /\ ~ (n < 0) => /\ n \in 1 .. c /\ OffsetOf(a) + n <= L
                           /\ n = c \/ \E p \in PageIndex : (a + n) % S = Begin(p)
<1> DEFINE p == PageOf(a)
           o == OffsetOf(a)
           e == (a + c) % S
           q == PageOf(e)
           t == OffsetOf(e)
           b == Begin(p)
           d == Begin(q)
<1>1. L \in Nat \ {0} /\ S \in Nat \ {0} /\ Address = 0 .. (S - 1) /\ L <= S
  BY Space
<1>2. a \in Nat /\ a < S /\ c \in Nat /\ c >= 1 /\ c < S
  BY <1>1
<1>3. e = (IF a + c < S THEN a + c ELSE (a + c) - S) /\ e \in Address
  <2> DEFINE x == a + c
  <2>1. x \in 0 .. (2 * S - 1)
    BY <1>1, <1>2
  <2>2. x \in Nat /\ x < 2 * S
    BY <1>1, <1>2
  <2> HIDE DEF x
  <2>3. x % S = IF x < S THEN x ELSE x - S
    BY <2>1, Wrap
  <2>4. x % S \in 0 .. (S - 1)
    BY <1>1, <2>2, <2>3
  <2> QED BY <1>1, <2>3, <2>4 DEF x
<1>4. p \in PageIndex /\ o \in 0 .. (L - 1) /\ a = b + o
  BY Parts
<1>5. q \in PageIndex /\ t \in 0 .. (L - 1) /\ e = d + t
  <2> HIDE DEF e
  <2> QED BY <1>3, Parts
<1> HIDE DEF p, o, e, q, t
<1>6. /\ b \in Nat /\ b + L <= S /\ d \in Nat /\ d + L <= S
      /\ p # q => b + L <= d \/ d + L <= b
      /\ b + L = S \/ \E g \in PageIndex : b + L = Begin(g)
  BY <1>4, <1>5, Pages
<1>7. p = q => b = d
  OBVIOUS
<1> HIDE DEF b, d
<1>8. n = (IF p = q THEN t ELSE L) - o
  BY DEF EndOf, p, o, e, q, t
<1>9. CASE p = q
  <2>1. n = t - o /\ n \in Int
    BY <1>4, <1>5, <1>8, <1>9
  <2>2. CASE a + c < S
    <3>1. n = c
      BY <1>2, <1>3, <1>4, <1>5, <1>6, <1>7, <1>9, <2>1, <2>2
    <3>2. o + n <= L
      BY <1>1, <1>4, <1>5, <2>1
    <3> QED BY <1>2, <3>1, <3>2 DEF o
  <2>3. CASE ~ (a + c < S)
    <3>1. n = c - S
      BY <1>1, <1>2, <1>3, <1>4, <1>5, <1>6, <1>7, <1>9, <2>1, <2>3
    <3>2. n < 0
      BY <1>1, <1>2, <3>1
    <3>3. c > S - L
      BY <1>1, <1>2, <1>4, <1>5, <2>1, <3>1
    <3> QED BY <2>1, <3>2, <3>3
  <2> QED BY <2>2, <2>3
<1>10. CASE p # q
  <2>1. n = L - o /\ n \in Nat /\ n >= 1 /\ o + n <= L
    BY <1>1, <1>4, <1>8, <1>10
  <2>2. n <= c
    <3> SUFFICES ASSUME ~ (n <= c) PROVE FALSE
      OBVIOUS
    <3>1. a + c < b + L
      BY <1>1, <1>2, <1>4, <1>6, <2>1
    <3>2. e = a + c
      BY <1>1, <1>2, <1>3, <1>6, <3>1
    <3> QED BY <1>1, <1>2, <1>4, <1>5, <1>6, <1>10, <3>1, <3>2
  <2>3. a + n = b + L /\ a + n \in 0 .. (2 * S - 1)
    BY <1>1, <1>2, <1>4, <1>6, <2>1
  <2>4. \E g \in PageIndex : (a + n) % S = Begin(g)
    <3> DEFINE x == a + n
    <3>1. x = b + L /\ x \in 0 .. (2 * S - 1) /\ x \in Nat /\ x <= S
      BY <1>1, <1>6, <2>3
    <3> HIDE DEF x
    <3>2. x % S = IF x < S THEN x ELSE x - S
      BY <3>1, Wrap
    <3>3. CASE x = S
      BY <1>1, <3>2, <3>3, Pages DEF x
    <3>4. CASE x # S
      BY <1>1, <1>6, <3>1, <3>2, <3>4 DEF x
    <3> QED BY <3>3, <3>4
  <2>5. n \in 1 .. c /\ ~ (n < 0)
    BY <1>2, <2>1, <2>2
  <2> QED BY <2>1, <2>4, <2>5 DEF o
<1> QED BY <1>9, <1>10

-----------------------------------------------------------------------------
(* The inductive invariant: that of Memory, what the commands have done by *)
(* the phase they are in, and where a reader is.                           *)

Loaded == {"dumped", "ended", "witness", "done", "run"}

LoadInv ==
    /\ phase \in {"writing", "failed"} \cup Loaded
    /\ ops \in Seq(LoaderOp) /\ first \in Nat
    /\ phase = "writing" => loading /\ ~ dumped.written
    /\ phase \in Loaded => ~ loading
    /\ phase # "writing" => ~ range.busy
    /\ phase \in {"dumped", "ended"} /\ dumped.written =>
           dumped.pages = [p \in Resident |-> pages[p].data]
    /\ reader.state # "none" => phase = "run"

(* The cells of the range a reader was made for, and the first k of them.  *)
CellAt(a) == FlatData[PageOf(a)][OffsetOf(a)]
Asked(r, i) == CellAt((r.from + i - 1) % SPACE)
Given(r, k) == [i \in 1 .. k |-> Asked(r, i)]

ReaderType ==
    [state : {"none", "reading", "done", "panic"}, from : Address, asked : 0 .. (S - 1),
     address : Address, count : 0 .. (S - 1), got : Seq(Word)]

ReaderInv ==
    /\ reader \in ReaderType
    /\ reader.state \in {"reading", "done"} =>
           /\ reader.count <= reader.asked
           /\ reader.address = (reader.from + (reader.asked - reader.count)) % S
           /\ reader.got = Given(reader, reader.asked - reader.count)
    /\ reader.state = "reading" /\ reader.count # 0 => reader.address \in Touched
    /\ reader.state = "done" => reader.count = 0
    /\ reader.state = "panic" => reader.asked > S - L

LoaderInv == IInv /\ LoadInv /\ ReaderInv

-----------------------------------------------------------------------------
LEMMA LoaderInitInv == LoaderInit => LoaderInv
<1> SUFFICES ASSUME LoaderInit PROVE LoaderInv
  OBVIOUS
<1>1. IInv
  BY InitIInv DEF LoaderInit
<1>2. LoadInv
  <2>1. ops \in Seq(LoaderOp)
    BY LoaderAssumption DEF LoaderInit
  <2>2. loading = TRUE /\ phase = "writing" /\ first = 0 /\ ~ dumped.written /\ reader.state = "none"
    BY DEF LoaderInit, Init, NoDump, NoReader
  <2> QED BY <2>1, <2>2 DEF LoadInv, Loaded
<1>3. ReaderInv
  <2>1. 0 \in Address /\ 0 \in 0 .. (S - 1) /\ << >> \in Seq(Word)
    BY Space
  <2>2. reader = NoReader
    BY DEF LoaderInit
  <2>3. reader \in ReaderType /\ reader.state = "none"
    BY <2>1, <2>2 DEF ReaderType, NoReader
  <2> QED BY <2>3 DEF ReaderInv
<1> QED BY <1>1, <1>2, <1>3 DEF LoaderInv

(* The write at the head of what is left to do.                            *)
LEMMA HeadOp ==
    ASSUME LoadInv, NEW kind, Writing(kind)
    PROVE  /\ ops' \in Seq(LoaderOp) /\ phase = "writing" /\ ~ range.busy /\ loading
           /\ kind = "range" => /\ Head(ops).address \in Touched /\ Head(ops).data \in RangeData
                                /\ Head(ops).first \in Nat
           /\ kind = "set" => Head(ops).address \in Touched /\ Head(ops).data[1] \in Word
<1>1. ops \in Seq(LoaderOp) /\ ops # << >> /\ Head(ops).kind = kind /\ ops' = Tail(ops)
         /\ phase = "writing" /\ ~ range.busy /\ loading
  BY DEF LoadInv, Writing
<1>2. Head(ops) \in LoaderOp /\ Tail(ops) \in Seq(LoaderOp)
  BY <1>1, HeadTailProperties
<1> DEFINE op == Head(ops)
<1>3. \/ op \in [kind : {"range"}, address : Touched, data : RangeData, first : Nat]
      \/ op \in [kind : {"set"}, address : Touched, data : {<<v>> : v \in Word}, first : {0}]
      \/ op = PointerOp \/ op = FailOp
  BY <1>2 DEF LoaderOp
<1> HIDE DEF op
<1>4. kind = op.kind
  BY <1>1 DEF op
<1>5. CASE op \in [kind : {"range"}, address : Touched, data : RangeData, first : Nat]
  <2>1. op.kind = "range" /\ op.address \in Touched /\ op.data \in RangeData /\ op.first \in Nat
    BY <1>5
  <2> QED BY <1>1, <1>2, <1>4, <2>1 DEF op
<1>6. CASE op \in [kind : {"set"}, address : Touched, data : {<<v>> : v \in Word}, first : {0}]
  <2>1. op.kind = "set" /\ op.address \in Touched /\ op.data \in {<<v>> : v \in Word}
    BY <1>6
  <2>2. op.data[1] \in Word
    BY <2>1
  <2> QED BY <1>1, <1>2, <1>4, <2>1, <2>2 DEF op
<1>7. CASE op = PointerOp \/ op = FailOp
  <2>1. op.kind # "range" /\ op.kind # "set"
    BY <1>7 DEF PointerOp, FailOp
  <2> QED BY <1>1, <1>2, <1>4, <2>1
<1> QED BY <1>3, <1>5, <1>6, <1>7

(* A read of the range's input fits the page, and one that returns nothing *)
(* has come to the end of the input.                                       *)
LEMMA ReadFits ==
    ASSUME LoaderInv
    PROVE  /\ ReadSize \in 0 .. L /\ (first > 0 => ReadSize <= first)
           /\ ReadSize = 0 => range.data = << >>
<1> DEFINE room == PAGE_SIZE_WORDS - OffsetOf(range.address)
           left == IF first > 0 THEN first ELSE Len(range.data)
<1>1. range.address \in Address /\ range.data \in Seq(Word) /\ first \in Nat
  BY DEF LoaderInv, IInv, TypeOK, LoadInv
<1>2. L \in Nat /\ OffsetOf(range.address) \in 0 .. (L - 1) /\ L = PAGE_SIZE_WORDS
  BY <1>1, Parts, Space DEF L
<1>3. room \in 1 .. L
  BY <1>2
<1>4. left \in Nat /\ (first > 0 => left = first) /\ (left = 0 => Len(range.data) = 0)
  BY <1>1
<1>5. ReadSize = IF left < room THEN left ELSE room
  BY DEF ReadSize
<1> HIDE DEF room, left
<1>6. ReadSize \in 0 .. L /\ ReadSize <= left /\ (ReadSize = 0 => left = 0)
  BY <1>2, <1>3, <1>4, <1>5
<1>7. Len(range.data) = 0 => range.data = << >>
  BY <1>1, EmptySeq
<1> QED BY <1>4, <1>6, <1>7

(* Every step of the commands and of the guest is one of Memory's.         *)
LEMMA MemoryStep == LoaderInv /\ [LoaderNext]_allVars => [Next]_vars
<1> SUFFICES ASSUME LoaderInv, [LoaderNext]_allVars PROVE [Next]_vars
  OBVIOUS
<1>0. LoadInv /\ IInv /\ ReaderInv
  BY DEF LoaderInv
<1>1. CASE BeginRange
  <2>1. Writing("range") /\ RangeCall(Head(ops).address, Head(ops).data)
    BY <1>1 DEF BeginRange
  <2>2. loading /\ Head(ops).address \in Touched /\ Head(ops).data \in RangeData
    BY <1>0, <2>1, HeadOp
  <2> QED BY <2>1, <2>2 DEF Next
<1>2. CASE ReadChunk
  <2>1. RangeChunk(ReadSize) /\ ReadSize > 0
    BY <1>2 DEF ReadChunk
  <2>2. ReadSize \in 1 .. PAGE_SIZE_WORDS
    BY <2>1, ReadFits, Space DEF L
  <2> QED BY <2>1, <2>2 DEF Next, Operation
<1>3. CASE EndRange
  <2>1. /\ range.busy /\ RangeTouch(0) /\ range' = NoCall /\ UNCHANGED loading
        /\ result' = <<"range", range.address, range.data, TRUE>>
    BY <1>3 DEF EndRange
  <2>2. range.data = << >>
    BY <1>3, ReadFits DEF EndRange
  <2>3. RangeReturn
    BY <2>1, <2>2 DEF RangeReturn
  <2> QED BY <2>3 DEF Next, Operation
<1>4. CASE StoreWord
  <2>1. Writing("set") /\ SetMemory(Head(ops).address, Head(ops).data[1])
    BY <1>4 DEF StoreWord
  <2>2. Head(ops).address \in Touched /\ Head(ops).data[1] \in Word
    BY <1>0, <2>1, HeadOp
  <2> QED BY <2>1, <2>2 DEF Next, Operation
<1>5. CASE SetStackPointer \/ Refuse
  BY <1>5 DEF SetStackPointer, Refuse
<1>6. CASE Dump
  <2>1. loading /\ ~ range.busy /\ loading' = FALSE
           /\ UNCHANGED <<nodes, pages, last_page, range, result>>
    BY <1>0, <1>6 DEF Dump, LoadInv
  <2> QED BY <2>1 DEF Next, FinishLoading
<1>7. CASE StateHash
  <2>1. phase \in {"dumped", "witness"}
    BY <1>7 DEF StateHash, After
  <2>2. ~ loading /\ ~ range.busy
    BY <1>0, <2>1 DEF LoadInv, Loaded
  <2>3. MerkleRoot
    BY <1>7, <2>2 DEF StateHash, MerkleRoot
  <2> QED BY <2>3 DEF Next, Operation
<1>8. CASE ReadDump
  <2>1. ~ range.busy /\ dumped.pages = [p \in Resident |-> pages[p].data]
    BY <1>0, <1>8 DEF ReadDump, LoadInv
  <2>2. DOMAIN dumped.pages = Resident /\ \A p \in Resident : dumped.pages[p] = pages[p].data
    BY <2>1
  <2>3. /\ nodes' = [g \in UNION {Branch[MAX_PAGE_COUNT + p] : p \in DOMAIN dumped.pages} |-> None]
        /\ pages' = [p \in DOMAIN dumped.pages |->
                        PageInvalidateFull(WithData(DefaultPage, dumped.pages[p]))]
        /\ last_page' = <<NoPage, NoPage>> /\ result' = <<"reloaded">> /\ UNCHANGED <<loading, range>>
    BY <1>8 DEF ReadDump
  <2>4. nodes' = [g \in UNION {Branch[MAX_PAGE_COUNT + p] : p \in Resident} |-> None]
    BY <2>2, <2>3
  <2>5. pages' = [p \in Resident |-> PageInvalidateFull(WithData(DefaultPage, pages[p].data))]
    BY <2>2, <2>3
  <2>6. Reload
    BY <2>1, <2>3, <2>4, <2>5 DEF Reload
  <2> QED BY <2>6 DEF Next, Operation
<1>9. CASE GuestStore
  <2>1. PICK address \in DOMAIN Stored : SetMemory(address, Stored[address])
    BY <1>9 DEF GuestStore
  <2>2. address \in Touched /\ Stored[address] \in Word
    BY LoaderAssumption
  <2> QED BY <2>1, <2>2 DEF Next, Operation
<1>10. CASE GuestWrite
  BY <1>10 DEF GuestWrite, ReaderOpen
<1>11. CASE CopyStep
  <2>1. CASE ReaderRead
    <3>1. ReadPage(reader.address) /\ reader.address \in Touched
      BY <1>0, <2>1 DEF ReaderRead, ReaderInv, Reading
    <3> QED BY <3>1 DEF Next, Operation
  <2>2. CASE ReaderEnd \/ ReaderDrop
    BY <2>2 DEF ReaderEnd, ReaderDrop
  <2> QED BY <1>11, <2>1, <2>2 DEF CopyStep
<1>12. CASE UNCHANGED allVars
  BY <1>12 DEF allVars
<1> QED BY <1>1, <1>2, <1>3, <1>4, <1>5, <1>6, <1>7, <1>8, <1>9, <1>10, <1>11, <1>12
        DEF LoaderNext, LoadStep

LEMMA LoadInvStep == LoaderInv /\ [LoaderNext]_allVars => LoadInv'
<1> SUFFICES ASSUME LoaderInv, [LoaderNext]_allVars PROVE LoadInv'
  OBVIOUS
<1>0. LoadInv /\ IInv /\ ReaderInv
  BY DEF LoaderInv
<1>1. CASE BeginRange
  <2>1. Writing("range") /\ UNCHANGED <<loading, reader, phase, dumped>> /\ first' = Head(ops).first
    BY <1>1 DEF BeginRange, RangeCall
  <2>2. ops' \in Seq(LoaderOp) /\ phase = "writing" /\ Head(ops).first \in Nat
    BY <1>0, <2>1, HeadOp
  <2> QED BY <1>0, <2>1, <2>2 DEF LoadInv, Loaded
<1>2. CASE ReadChunk
  <2>1. range.busy /\ UNCHANGED <<loading, reader, ops, phase, dumped>>
           /\ first' = IF first > 0 THEN first - ReadSize ELSE 0
    BY <1>2 DEF ReadChunk, RangeChunk
  <2>2. phase = "writing"
    BY <1>0, <2>1 DEF LoadInv
  <2>3. first' \in Nat
    BY <1>0, <2>1, ReadFits, Space DEF LoadInv
  <2> QED BY <1>0, <2>1, <2>2, <2>3 DEF LoadInv, Loaded
<1>3. CASE EndRange
  <2>1. range.busy /\ UNCHANGED <<loading, reader, ops, first, phase, dumped>>
    BY <1>3 DEF EndRange, loadVars
  <2>2. phase = "writing"
    BY <1>0, <2>1 DEF LoadInv
  <2> QED BY <1>0, <2>1, <2>2 DEF LoadInv, Loaded
<1>4. CASE StoreWord
  <2>1. Writing("set") /\ UNCHANGED <<loading, reader, first, phase, dumped>>
    BY <1>4 DEF StoreWord, SetMemory
  <2>2. ops' \in Seq(LoaderOp) /\ phase = "writing"
    BY <1>0, <2>1, HeadOp
  <2> QED BY <1>0, <2>1, <2>2 DEF LoadInv, Loaded
<1>5. CASE SetStackPointer
  <2>1. Writing("pointer") /\ UNCHANGED <<vars, reader, first, phase, dumped>>
    BY <1>5 DEF SetStackPointer
  <2>2. ops' \in Seq(LoaderOp) /\ phase = "writing"
    BY <1>0, <2>1, HeadOp
  <2> QED BY <1>0, <2>1, <2>2 DEF LoadInv, Loaded, vars
<1>6. CASE Refuse
  <2>1. Writing("fail") /\ phase' = "failed" /\ UNCHANGED <<vars, reader, first, dumped>>
    BY <1>6 DEF Refuse
  <2>2. ops' \in Seq(LoaderOp) /\ phase = "writing" /\ ~ range.busy
    BY <1>0, <2>1, HeadOp
  <2> QED BY <1>0, <2>1, <2>2 DEF LoadInv, Loaded, vars
<1>7. CASE Dump
  <2>1. /\ phase = "writing" /\ ~ range.busy /\ loading' = FALSE
        /\ UNCHANGED <<pages, range, reader, ops, first>>
    BY <1>7 DEF Dump
  <2>2. ~ dumped.written /\ reader.state = "none"
    BY <1>0, <2>1 DEF LoadInv
  <2>3. \/ /\ phase' = "dumped"
           /\ \/ dumped' = [written |-> TRUE, pages |-> [p \in Resident |-> pages[p].data],
                            cpu |-> cpu]
              \/ dumped' = dumped
        \/ phase' = "failed"
    BY <1>7 DEF Dump
  <2>4. phase' = "dumped" /\ dumped'.written =>
           dumped'.pages = [p \in Resident |-> pages[p].data]
    BY <2>2, <2>3
  <2>5. phase' \in {"dumped", "failed"} /\ Resident' = Resident
    BY <2>1, <2>3 DEF Resident
  <2> QED BY <1>0, <2>1, <2>2, <2>4, <2>5 DEF LoadInv, Loaded
<1>8. CASE StateHash
  <2>1. /\ phase \in {"dumped", "witness"} /\ phase' = After[phase]
        /\ Merkleize({1}, NoPage, {}) /\ UNCHANGED <<loading, range, reader, ops, first, dumped>>
    BY <1>8 DEF StateHash, After
  <2>2. phase = "dumped" => phase' = "ended"
    BY <2>1 DEF After
  <2>3. phase = "witness" => phase' = "done"
    BY <2>1 DEF After
  <2>4. Resident' = Resident /\ \A p \in Resident : pages'[p].data = pages[p].data
    BY <1>0, <2>1, MerkleizeOK DEF IInv, Resident
  <2>5. [p \in Resident |-> pages[p].data]' = [p \in Resident |-> pages[p].data]
    BY <2>4
  <2>6. ~ range.busy /\ ~ loading /\ reader.state = "none"
    BY <1>0, <2>1 DEF LoadInv, Loaded
  <2>7. phase' \in {"ended", "done"}
    BY <2>1, <2>2, <2>3
  <2>8. phase' = "ended" /\ dumped'.written => dumped'.pages = [p \in Resident |-> pages[p].data]
    BY <1>0, <2>1, <2>2, <2>3 DEF LoadInv
  <2>9. (phase' \in {"dumped", "ended"} /\ dumped'.written =>
            dumped'.pages = [p \in Resident |-> pages[p].data]')
    BY <2>5, <2>7, <2>8
  <2> QED BY <1>0, <2>1, <2>6, <2>7, <2>9 DEF LoadInv, Loaded
<1>9. CASE ReadDump
  <2>1. /\ phase = "ended" /\ phase' \in {"witness", "run"}
        /\ UNCHANGED <<loading, range, reader, ops, first, dumped>>
    BY <1>9 DEF ReadDump
  <2>2. ~ range.busy /\ ~ loading /\ reader.state = "none"
    BY <1>0, <2>1 DEF LoadInv, Loaded
  <2> QED BY <1>0, <2>1, <2>2 DEF LoadInv, Loaded
<1>10. CASE GuestStore
  <2>1. phase = "run" /\ UNCHANGED <<loading, range, reader, ops, first, dumped, phase>>
    BY <1>10 DEF GuestStore, SetMemory, loadVars
  <2> QED BY <1>0, <2>1 DEF LoadInv, Loaded
<1>11. CASE GuestWrite
  <2>1. phase = "run" /\ UNCHANGED <<loading, range, ops, first, dumped, phase>>
    BY <1>11 DEF GuestWrite, ReaderOpen, vars, loadVars
  <2> QED BY <1>0, <2>1 DEF LoadInv, Loaded
<1>12. CASE CopyStep
  <2>1. reader.state # "none" /\ UNCHANGED <<loading, range, ops, first, dumped, phase>>
    BY <1>12 DEF CopyStep, ReaderRead, ReaderEnd, ReaderDrop, Reading, ReadPage, vars, loadVars
  <2>2. phase = "run"
    BY <1>0, <2>1 DEF LoadInv
  <2> QED BY <1>0, <2>1, <2>2 DEF LoadInv, Loaded
<1>13. CASE UNCHANGED allVars
  BY <1>0, <1>13 DEF LoadInv, allVars, vars, loadVars, Resident
<1> QED BY <1>1, <1>2, <1>3, <1>4, <1>5, <1>6, <1>7, <1>8, <1>9, <1>10, <1>11, <1>12, <1>13
        DEF LoaderNext, LoadStep

-----------------------------------------------------------------------------
(* The reader.                                                             *)

(* The cells one read returns are those of the range it has come to.       *)
LEMMA ReadCells ==
    ASSUME IInv, NEW from \in Address, NEW k \in 0 .. (S - 1), NEW a, a = (from + k) % S,
           a \in Address, NEW n \in Nat, OffsetOf(a) + n <= L
    PROVE  /\ Cells(PageOf(a), OffsetOf(a), OffsetOf(a) + n) \in Seq(Word)
           /\ Len(Cells(PageOf(a), OffsetOf(a), OffsetOf(a) + n)) = n
           /\ \A j \in 1 .. n : Cells(PageOf(a), OffsetOf(a), OffsetOf(a) + n)[j]
                                    = CellAt((from + (k + j) - 1) % S)
<1> DEFINE p == PageOf(a)
           o == OffsetOf(a)
           C == Cells(p, o, o + n)
<1>1. L \in Nat \ {0} /\ S \in Nat \ {0} /\ Address = 0 .. (S - 1)
  BY Space
<1>2. p \in PageIndex /\ o \in 0 .. (L - 1)
  BY Parts
<1>3. FlatData[p] \in [PageOffset -> Word] /\ PageOffset = 0 .. (L - 1)
         /\ \A x \in PageOffset :
                FlatData[p][x] = IF p \in Resident THEN pages[p].data[x] ELSE 0
  BY <1>2, WordAssumption DEF IInv, TypeOK, FlatData, ZeroData, PageOffset, L
<1>4. (o + n) - o = n
  BY <1>1, <1>2
<1>5. C = [j \in 1 .. n |-> IF p \in Resident THEN pages[p].data[o + j - 1] ELSE 0]
  <2> HIDE DEF p, o
  <2> QED BY <1>4 DEF Cells
<1>6. ASSUME NEW j \in 1 .. n
      PROVE  C[j] = FlatData[p][o + (j - 1)] /\ C[j] \in Word
             /\ C[j] = CellAt((from + (k + j) - 1) % S)
  <2> DEFINE i == j - 1
  <2>1. i \in Nat /\ o + i < L /\ o + j - 1 = o + i /\ o + i \in 0 .. (L - 1)
    BY <1>1, <1>2
  <2>2. C[j] = FlatData[p][o + i] /\ C[j] \in Word
    <3> HIDE DEF i, C, p, o
    <3> QED BY <1>3, <1>5, <2>1
  <2>3. a + i \in Address /\ PageOf(a + i) = p /\ OffsetOf(a + i) = o + i
    <3> HIDE DEF i
    <3> QED BY <2>1, SamePage
  <2>4. (from + (k + j) - 1) % S = a + i
    <3> DEFINE x == from + k
               y == from + (k + j) - 1
    <3>1. x \in 0 .. (2 * S - 1) /\ y = x + i /\ x \in Nat /\ y \in Nat
      BY <1>1
    <3> HIDE DEF x
    <3>2. a = IF x < S THEN x ELSE x - S
      BY <3>1, Wrap DEF x
    <3>3. a + i < S /\ a + i \in Nat
      BY <1>1, <2>3
    <3>4. a \in Nat
      BY <1>1
    <3> HIDE DEF i, y
    <3>5. y \in 0 .. (2 * S - 1) /\ (y < S <=> x < S)
      BY <1>1, <2>1, <3>1, <3>2, <3>3, <3>4
    <3>6. y % S = IF y < S THEN y ELSE y - S
      BY <3>5, Wrap
    <3>7. y % S = a + i
      BY <1>1, <2>1, <3>1, <3>2, <3>5, <3>6
    <3> QED BY <3>7 DEF y
  <2> HIDE DEF i, C, p, o
  <2>5. CellAt(a + i) = FlatData[p][o + i]
    BY <2>3 DEF CellAt
  <2>6. C[j] = CellAt((from + (k + j) - 1) % S)
    BY <2>2, <2>4, <2>5
  <2> QED BY <2>2, <2>6 DEF i
<1>7. C \in Seq(Word) /\ Len(C) = n
  <2> HIDE DEF p, o
  <2>1. C \in [1 .. n -> Word]
    BY <1>5, <1>6
  <2> HIDE DEF C
  <2> QED BY <2>1
<1> QED BY <1>6, <1>7

(* Cells added to cells that were given.                                   *)
LEMMA GivenMore ==
    ASSUME NEW k \in Nat, NEW n \in Nat,
           NEW g \in Seq(Word), g = Given(reader, k),
           NEW c \in Seq(Word), c = [j \in 1 .. n |-> Asked(reader, k + j)]
    PROVE  g \o c \in Seq(Word) /\ g \o c = Given(reader, k + n)
<1> DEFINE h == Given(reader, k + n)
<1>1. Len(g) = k /\ \A i \in 1 .. k : g[i] = Asked(reader, i)
  BY DEF Given
<1>0. Len(c) = n /\ \A j \in 1 .. n : c[j] = Asked(reader, k + j)
  OBVIOUS
<1>2. /\ g \o c \in Seq(Word) /\ Len(g \o c) = k + n
      /\ \A i \in 1 .. (k + n) : (g \o c)[i] = IF i <= k THEN g[i] ELSE c[i - k]
  <2>1. /\ g \o c \in Seq(Word) /\ Len(g \o c) = Len(g) + Len(c)
        /\ \A i \in 1 .. Len(g) + Len(c) :
              (g \o c)[i] = IF i <= Len(g) THEN g[i] ELSE c[i - Len(g)]
    <3>1. g \in Seq(Word) /\ c \in Seq(Word)
      OBVIOUS
    <3> QED BY ONLY <3>1, ConcatProperties
  <2>2. Len(g) = k /\ Len(c) = n
    BY <1>0, <1>1
  <2> QED BY <2>1, <2>2
<1>3. ASSUME NEW i \in 1 .. (k + n) PROVE (g \o c)[i] = Asked(reader, i)
  <2>1. CASE i <= k
    <3>1. i \in 1 .. k
      BY <2>1
    <3> QED BY <1>1, <1>2, <2>1, <3>1
  <2>2. CASE ~ (i <= k)
    <3>1. i - k \in 1 .. n /\ k + (i - k) = i
      BY <2>2
    <3>2. c[i - k] = Asked(reader, k + (i - k))
      BY <1>0, <3>1
    <3>3. (g \o c)[i] = c[i - k]
      BY <1>2, <2>2
    <3> QED BY <3>1, <3>2, <3>3
  <2> QED BY <2>1, <2>2
<1>4. g \o c = [i \in 1 .. (k + n) |-> (g \o c)[i]]
  <2> DEFINE w == g \o c
  <2>1. w \in Seq(Word) /\ Len(w) = k + n
    BY <1>2
  <2> HIDE DEF w
  <2>2. w = [i \in 1 .. (k + n) |-> w[i]]
    BY <2>1
  <2> QED BY <2>2 DEF w
<1>5. h = [i \in 1 .. (k + n) |-> Asked(reader, i)]
  BY DEF Given
<1> HIDE DEF h
<1>6. g \o c = h
  BY <1>3, <1>4, <1>5
<1> QED BY <1>2, <1>6 DEF h

(* A reader whose memory is left alone has given what it had given.        *)
LEMMA ReaderStays ==
    ASSUME ReaderInv, reader' = reader, pages' = pages \/ reader.state = "none"
    PROVE  ReaderInv'
<1>1. CASE pages' = pages
  <2>1. FlatData' = FlatData
    BY <1>1 DEF FlatData, Resident
  <2> QED BY <2>1 DEF ReaderInv, Given, Asked, CellAt
<1>2. CASE reader.state = "none"
  BY <1>2 DEF ReaderInv
<1> QED BY <1>1, <1>2

LEMMA OpenStep ==
    ASSUME LoaderInv, NEW address \in ReadFrom, NEW count \in ReadCount, ReaderOpen(address, count)
    PROVE  ReaderInv'
<1>1. address \in Touched /\ address \in Address /\ count \in 0 .. (S - 1)
  BY LoaderAssumption, CallerAssumption DEF S
<1>2. S \in Nat \ {0} /\ Address = 0 .. (S - 1)
  BY Space
<1>3. reader' = [state |-> "reading", from |-> address, asked |-> count,
                 address |-> address, count |-> count, got |-> << >>]
  BY DEF ReaderOpen, NoReader
<1>4. /\ reader'.state = "reading" /\ reader'.from = address /\ reader'.asked = count
      /\ reader'.address = address /\ reader'.count = count /\ reader'.got = << >>
      /\ reader' \in ReaderType
  BY <1>1, <1>3 DEF ReaderType
<1>5. address = (address + (count - count)) % S
  <2> DEFINE x == address + (count - count)
  <2>1. x = address /\ x \in 0 .. (2 * S - 1) /\ x < S
    BY <1>1, <1>2
  <2> HIDE DEF x
  <2>2. x % S = x
    BY <2>1, Wrap
  <2> QED BY <2>1, <2>2 DEF x
<1>6. count - count = 0 /\ count <= count
  BY <1>1, <1>2
<1>7. Given(reader, reader.asked - reader.count)' = << >>
  BY <1>4, <1>6 DEF Given
<1> QED BY <1>1, <1>4, <1>5, <1>6, <1>7 DEF ReaderInv

LEMMA ReadStep ==
    ASSUME LoaderInv, ReaderRead
    PROVE  ReaderInv'
<1> DEFINE from == reader.from
           asked == reader.asked
           a == reader.address
           c == reader.count
           k == asked - c
           p == PageOf(a)
           o == OffsetOf(a)
           n == ReadEnd - o
<1>1. /\ reader \in ReaderType /\ reader.state = "reading" /\ reader.count # 0
      /\ c <= asked /\ a = (from + k) % S /\ reader.got = Given(reader, k)
  BY DEF LoaderInv, ReaderInv, ReaderRead, Reading
<1>2. /\ from \in Address /\ asked \in 0 .. (S - 1) /\ a \in Address /\ c \in 0 .. (S - 1)
      /\ reader.got \in Seq(Word)
  BY <1>1 DEF ReaderType
<1>3. S \in Nat \ {0} /\ L \in Nat \ {0} /\ Address = 0 .. (S - 1)
  BY Space
<1>4. ReadEnd = EndOf(a, c)
  BY DEF ReadEnd, EndOf, S, L
<1>5. pages' = pages
  BY DEF ReaderRead, ReadPage
<1>6. reader' = IF n < 0 THEN [reader EXCEPT !.state = "panic"]
                ELSE [reader EXCEPT !.address = (a + n) % SPACE, !.count = c - n,
                                    !.got = reader.got \o Cells(p, o, ReadEnd)]
  BY DEF ReaderRead
<1>7. o \in 0 .. (L - 1)
  BY <1>2, Parts
<1>8. c \in 1 .. (S - 1) /\ k \in 0 .. (S - 1) /\ k \in Nat /\ k + c = asked
  <2> HIDE DEF c, asked
  <2> QED BY <1>1, <1>2, <1>3 DEF c
<1> HIDE DEF from, asked, a, c, k, p, o, n
<1>9. /\ n \in Int
      /\ n < 0 => c > S - L
      /\ ~ (n < 0) => /\ n \in 1 .. c /\ OffsetOf(a) + n <= L
                      /\ n = c \/ \E q \in PageIndex : (a + n) % S = Begin(q)
  <2>1. n = EndOf(a, c) - OffsetOf(a)
    BY <1>4 DEF n, o
  <2> QED BY <1>2, <1>8, <2>1, OneRead
<1>10. CASE n < 0
  <2>1. /\ reader' \in ReaderType /\ reader'.state = "panic" /\ reader'.asked = asked
    BY <1>1, <1>6, <1>10 DEF ReaderType, asked
  <2>2. asked > S - L
    BY <1>3, <1>8, <1>9, <1>10
  <2> QED BY <2>1, <2>2 DEF ReaderInv
<1>11. CASE ~ (n < 0)
  <2>1. n \in Nat /\ n >= 1 /\ n <= c /\ o + n <= L
    BY <1>8, <1>9, <1>11 DEF o
  <2>2. ReadEnd = o + n
    <3>1. EndOf(a, c) \in Int
      <4>1. n \in Int /\ o \in Int
        BY <1>7, <1>9
      <4>2. (a + c) % S \in 0 .. (S - 1)
        BY <1>2, <1>3, <1>8
      <4>3. OffsetOf((a + c) % S) \in Int
        BY <1>3, <4>2, Parts
      <4> QED BY <1>3, <4>3 DEF EndOf
    <3> QED BY <1>4, <1>7, <3>1 DEF n
  <2> DEFINE C == Cells(p, o, ReadEnd)
             g == reader.got
  <2>3. /\ C \in Seq(Word) /\ Len(C) = n
        /\ \A j \in 1 .. n : C[j] = CellAt((from + (k + j) - 1) % S)
    <3>1. /\ Cells(PageOf(a), OffsetOf(a), OffsetOf(a) + n) \in Seq(Word)
          /\ Len(Cells(PageOf(a), OffsetOf(a), OffsetOf(a) + n)) = n
          /\ \A j \in 1 .. n : Cells(PageOf(a), OffsetOf(a), OffsetOf(a) + n)[j]
                                   = CellAt((from + (k + j) - 1) % S)
      <4>1. a = (from + k) % S
        BY <1>1 DEF a, from, k, asked, c
      <4>2. OffsetOf(a) + n <= L /\ IInv /\ n \in Nat
        BY <2>1 DEF o, LoaderInv
      <4> QED BY <1>2, <1>8, <4>1, <4>2, ReadCells
    <3> QED BY <2>2, <3>1 DEF p, o
  <2>4. g \in Seq(Word) /\ g = Given(reader, k)
    BY <1>1, <1>2 DEF k, asked, c
  <2> HIDE DEF C, g
  <2>5. g \o C \in Seq(Word) /\ g \o C = Given(reader, k + n)
    <3>1. k \in Nat /\ n \in Nat /\ g \in Seq(Word) /\ C \in Seq(Word)
      BY <1>8, <2>1, <2>3, <2>4
    <3>2. C = [j \in 1 .. n |-> Asked(reader, k + j)]
      <4>1. \A j \in 1 .. n : C[j] = Asked(reader, k + j)
        BY <2>3 DEF from, Asked, S
      <4>2. C = [j \in 1 .. n |-> C[j]]
        BY <2>3
      <4> QED BY <4>1, <4>2
    <3>3. \A k1 \in Nat, n1 \in Nat, g1 \in Seq(Word), c1 \in Seq(Word) :
             g1 = Given(reader, k1) /\ c1 = [j \in 1 .. n1 |-> Asked(reader, k1 + j)] =>
                g1 \o c1 \in Seq(Word) /\ g1 \o c1 = Given(reader, k1 + n1)
      BY GivenMore
    <3>4. g = Given(reader, k) /\ C = [j \in 1 .. n |-> Asked(reader, k + j)] =>
                g \o C \in Seq(Word) /\ g \o C = Given(reader, k + n)
      BY <3>1, <3>3
    <3> QED BY <2>4, <3>2, <3>4
  <2> DEFINE b == (a + n) % S
  <2>6. b = (from + (k + n)) % S /\ b \in Address
    <3> DEFINE x == from + k
               y == a + n
               z == from + (k + n)
    <3>1. from \in Nat /\ from < S /\ k \in Nat /\ k + n <= asked /\ asked < S /\ a \in Nat /\ a < S
             /\ n \in Nat /\ S \in Nat /\ n < S
      BY <1>2, <1>3, <1>8, <2>1
    <3>2. /\ x \in 0 .. (2 * S - 1) /\ y \in 0 .. (2 * S - 1) /\ z \in 0 .. (2 * S - 1)
          /\ z = x + n /\ x \in Nat /\ z < 2 * S
      BY <1>2, <3>1
    <3>3. y = a + n
      OBVIOUS
    <3>4. a = x % S
      BY <1>1 DEF a, from, k, asked, c
    <3> HIDE DEF x, y, z
    <3>5. /\ x % S = IF x < S THEN x ELSE x - S
          /\ y % S = IF y < S THEN y ELSE y - S
          /\ z % S = IF z < S THEN z ELSE z - S
      BY <3>2, Wrap
    <3>6. y % S = z % S /\ y % S \in 0 .. (S - 1)
      BY <3>1, <3>2, <3>3, <3>4, <3>5
    <3> QED BY <1>3, <3>6 DEF y, z
  <2>7. c - n = 0 \/ b \in Touched
    <3>1. n = c \/ \E q \in PageIndex : b = Begin(q)
      BY <1>9, <1>11
    <3>2. \A q \in PageIndex : Begin(q) \in Touched
      BY LoaderAssumption, Pages
    <3> HIDE DEF b
    <3> QED BY <1>8, <2>1, <3>1, <3>2
  <2>8. c - n \in 0 .. (S - 1) /\ c - n <= asked /\ asked - (c - n) = k + n
    BY <1>2, <1>3, <1>8, <2>1
  <2> HIDE DEF b
  <2>9. reader' = [reader EXCEPT !.address = b, !.count = c - n, !.got = g \o C]
    BY <1>6, <1>11 DEF b, g, C, S
  <2>10. /\ reader' \in ReaderType /\ reader'.state = "reading" /\ reader'.from = from
         /\ reader'.asked = asked /\ reader'.address = b /\ reader'.count = c - n
         /\ reader'.got = g \o C
    <3>1. /\ reader'.state = "reading" /\ reader'.from = from
          /\ reader'.asked = asked /\ reader'.address = b /\ reader'.count = c - n
          /\ reader'.got = g \o C
      BY <1>1, <2>9 DEF ReaderType, from, asked
    <3>2. reader' \in ReaderType
      BY <1>1, <2>5, <2>6, <2>8, <2>9 DEF ReaderType
    <3> QED BY <3>1, <3>2
  <2>11. Given(reader, reader.asked - reader.count)' = Given(reader, k + n)
    <3>1. FlatData' = FlatData
      BY <1>5 DEF FlatData, Resident
    <3>2. reader'.from = reader.from /\ reader'.asked - reader'.count = k + n
      BY <2>8, <2>10 DEF from
    <3> QED BY <3>1, <3>2 DEF Given, Asked, CellAt
  <2>12. reader'.address = (reader'.from + (reader'.asked - reader'.count)) % S
    BY <2>6, <2>8, <2>10
  <2>13. reader'.got = Given(reader, reader.asked - reader.count)'
    BY <2>5, <2>10, <2>11
  <2>14. reader'.count <= reader'.asked /\ (reader'.count # 0 => reader'.address \in Touched)
    BY <2>7, <2>8, <2>10
  <2> QED BY <2>10, <2>12, <2>13, <2>14 DEF ReaderInv
<1> QED BY <1>10, <1>11

LEMMA ReaderInvStep == LoaderInv /\ [LoaderNext]_allVars => ReaderInv'
<1> SUFFICES ASSUME LoaderInv, [LoaderNext]_allVars PROVE ReaderInv'
  OBVIOUS
<1>0. LoadInv /\ ReaderInv
  BY DEF LoaderInv
<1>1. CASE LoadStep
  <2>1. reader' = reader
    BY <1>1 DEF LoadStep, BeginRange, ReadChunk, EndRange, StoreWord, SetStackPointer, Refuse,
                Dump, StateHash
  <2>2. phase # "run" \/ range.busy
    BY <1>1 DEF LoadStep, BeginRange, ReadChunk, EndRange, StoreWord, SetStackPointer, Refuse,
                Dump, StateHash, Writing, After
  <2>3. reader.state = "none"
    BY <1>0, <2>2 DEF LoadInv
  <2> QED BY <1>0, <2>1, <2>3, ReaderStays
<1>2. CASE ReadDump
  <2>1. reader' = reader /\ reader.state = "none"
    BY <1>0, <1>2 DEF ReadDump, LoadInv
  <2> QED BY <1>0, <2>1, ReaderStays
<1>3. CASE GuestStore
  <2>1. reader' = reader /\ reader.state = "none"
    BY <1>3 DEF GuestStore
  <2> QED BY <1>0, <2>1, ReaderStays
<1>4. CASE GuestWrite
  BY <1>4, OpenStep DEF GuestWrite
<1>5. CASE ReaderRead
  BY <1>5, ReadStep
<1>6. CASE ReaderEnd
  <2>1. /\ reader.state = "reading" /\ reader.count = 0 /\ pages' = pages
        /\ reader' = [reader EXCEPT !.state = "done"]
    BY <1>6 DEF ReaderEnd, Reading, vars
  <2>2. /\ reader' \in ReaderType /\ reader'.state = "done" /\ reader'.from = reader.from
        /\ reader'.asked = reader.asked /\ reader'.address = reader.address
        /\ reader'.count = reader.count /\ reader'.got = reader.got
    <3>1. reader \in ReaderType
      BY <1>0 DEF ReaderInv
    <3> QED BY <2>1, <3>1 DEF ReaderType
  <2>3. Given(reader, reader.asked - reader.count)' = Given(reader, reader.asked - reader.count)
    <3>1. FlatData' = FlatData
      BY <2>1 DEF FlatData, Resident
    <3> QED BY <2>2, <3>1 DEF Given, Asked, CellAt
  <2> QED BY <1>0, <2>1, <2>2, <2>3 DEF ReaderInv
<1>7. CASE ReaderDrop
  <2>1. 0 \in Address /\ 0 \in 0 .. (S - 1) /\ << >> \in Seq(Word)
    BY Space
  <2>2. reader' = NoReader
    BY <1>7 DEF ReaderDrop
  <2>3. reader' \in ReaderType /\ reader'.state = "none"
    BY <2>1, <2>2 DEF ReaderType, NoReader
  <2> QED BY <2>3 DEF ReaderInv
<1>8. CASE UNCHANGED allVars
  <2>1. reader' = reader /\ pages' = pages
    BY <1>8 DEF allVars, vars
  <2> QED BY <1>0, <2>1, ReaderStays
<1> QED BY <1>1, <1>2, <1>3, <1>4, <1>5, <1>6, <1>7, <1>8 DEF LoaderNext, CopyStep

-----------------------------------------------------------------------------
LEMMA LoaderInvariance == LoaderSpec => []LoaderInv
<1>1. LoaderInit => LoaderInv
  BY LoaderInitInv
<1>2. LoaderInv /\ [LoaderNext]_allVars => LoaderInv'
  <2> SUFFICES ASSUME LoaderInv, [LoaderNext]_allVars PROVE LoaderInv'
    OBVIOUS
  <2>1. IInv'
    BY MemoryStep, NextIInv DEF LoaderInv
  <2>2. LoadInv' /\ ReaderInv'
    BY LoadInvStep, ReaderInvStep
  <2> QED BY <2>1, <2>2 DEF LoaderInv
<1> QED BY <1>1, <1>2, PTL DEF LoaderSpec

(* load-elf, run and witness use memory as Memory allows, in whichever     *)
(* order patches and segments come and wherever they overlap: every step   *)
(* of theirs is one of Memory's or leaves memory alone.                    *)
THEOREM UsesMemory == LoaderSpec => MemorySpec
<1>1. LoaderInit => Init
  BY DEF LoaderInit
<1>2. LoaderInv /\ [LoaderNext]_allVars => [Next]_vars
  BY MemoryStep
<1> QED BY <1>1, <1>2, LoaderInvariance, PTL DEF LoaderSpec, MemorySpec, Spec

(* What is proved of Memory is true of it in the loader: no state hash is  *)
(* computed from a stale cache.                                            *)
THEOREM LoaderHashes == LoaderSpec => []HashesFresh
BY UsesMemory, CachesNeverStale, PTL DEF MemorySpec

(* And so it is a flat array of words to them, from the first segment to   *)
(* the last store of the guest, over the dump and the process that reads   *)
(* it.                                                                     *)
THEOREM LoaderFlat == LoaderSpec => FlatMemorySpec
BY UsesMemory, ImplementsFlatMemory, PTL DEF MemorySpec

(* The write system calls see the cells the guest asked for, in order and  *)
(* over page boundaries and the end of the address space; the reader only  *)
(* panics on a range that comes around to the page it began in.            *)
THEOREM CopyExact == LoaderSpec => []ReaderExact
<1>1. LoaderInv => ReaderExact
  <2> SUFFICES ASSUME ReaderInv PROVE ReaderExact
    BY DEF LoaderInv
  <2>1. ASSUME reader.state = "done"
        PROVE  reader.got = [i \in 1 .. reader.asked |->
                                CellAt((reader.from + i - 1) % SPACE)]
    <3>1. reader.count = 0 /\ reader.asked \in 0 .. (S - 1) /\ S \in Nat
      BY <2>1, Space DEF ReaderInv, ReaderType
    <3>2. reader.got = Given(reader, reader.asked - reader.count)
      BY <2>1 DEF ReaderInv
    <3>3. reader.asked - reader.count = reader.asked
      BY <3>1
    <3> QED BY <3>2, <3>3 DEF Given, Asked
  <2>2. reader.state = "panic" => reader.asked > SPACE - PAGE_SIZE_WORDS
    BY DEF ReaderInv, S, L
  <2> QED BY <2>1, <2>2 DEF ReaderExact, CellAt
<1> QED BY <1>1, LoaderInvariance, PTL
-----------------------------------------------------------------------------
(* What a list of writes leaves in a place: a cell, by its address, or the *)
(* stack pointer.                                                          *)

Sp == -1

At(op, x)   == (x - op.address) % S
Hits(op, x) == IF x = Sp THEN op.kind = "pointer" ELSE At(op, x) < Len(op.data)
Puts(op, x) == IF x = Sp THEN STACK_PTR ELSE op.data[At(op, x) + 1]

(* The writes of s change the value of x from v to w.                      *)
Leaves(s, x, v, w) ==
    \/ w = v /\ \A i \in 1 .. Len(s) : ~ Hits(s[i], x)
    \/ \E i \in 1 .. Len(s) : /\ Hits(s[i], x) /\ w = Puts(s[i], x)
                              /\ \A j \in (i + 1) .. Len(s) : ~ Hits(s[j], x)

Clean(s) == \A i \in 1 .. Len(s) : s[i].kind # "fail"

LEMMA LeavesNone ==
    ASSUME NEW x, NEW v
    PROVE  Leaves(<< >>, x, v, v) /\ Clean(<< >>) /\ \A w : Leaves(<< >>, x, v, w) => w = v
<1>1. \A i : i \notin 1 .. Len(<< >>)
  OBVIOUS
<1> QED BY <1>1 DEF Leaves, Clean

LEMMA LeavesOne ==
    ASSUME NEW op, NEW x, NEW v
    PROVE  Leaves(<<op>>, x, v, IF Hits(op, x) THEN Puts(op, x) ELSE v)
<1> DEFINE s == <<op>>
<1>1. Len(s) = 1 /\ s[1] = op /\ 1 \in 1 .. Len(s) /\ (\A j : j \notin (1 + 1) .. Len(s))
      /\ \A i \in 1 .. Len(s) : i = 1
  OBVIOUS
<1> HIDE DEF s
<1>2. Leaves(s, x, v, IF Hits(op, x) THEN Puts(op, x) ELSE v)
  BY <1>1 DEF Leaves
<1> QED BY <1>2 DEF s

LEMMA LeavesConcat ==
    ASSUME NEW T, NEW s \in Seq(T), NEW t \in Seq(T), NEW x, NEW v, NEW u, NEW w,
           Leaves(s, x, v, u), Leaves(t, x, u, w)
    PROVE  Leaves(s \o t, x, v, w)
<1> DEFINE r == s \o t
           m == Len(s)
           n == Len(t)
<1>1. m \in Nat /\ n \in Nat /\ Len(r) = m + n
  BY ConcatProperties
<1>2. \A i \in 1 .. (m + n) : r[i] = IF i <= m THEN s[i] ELSE t[i - m]
  BY ConcatProperties
<1> HIDE DEF r
<1>3. \A i \in 1 .. n : m + i \in 1 .. (m + n) /\ r[m + i] = t[i]
  <2> TAKE i \in 1 .. n
  <2>1. m + i \in 1 .. (m + n) /\ ~ (m + i <= m) /\ (m + i) - m = i
    BY <1>1
  <2> QED BY <1>2, <2>1
<1>4. \A i \in 1 .. m : i \in 1 .. (m + n) /\ r[i] = s[i]
  BY <1>1, <1>2
<1>5. CASE u = w /\ \A i \in 1 .. n : ~ Hits(t[i], x)
  <2>1. ASSUME NEW i \in 1 .. (m + n), ~ (i <= m) PROVE ~ Hits(r[i], x)
    <3>1. i - m \in 1 .. n
      BY <1>1, <2>1
    <3> QED BY <1>2, <1>5, <2>1, <3>1
  <2>2. CASE u = v /\ \A i \in 1 .. m : ~ Hits(s[i], x)
    BY <1>1, <1>4, <1>5, <2>1, <2>2 DEF Leaves
  <2>3. ASSUME NEW i \in 1 .. m, Hits(s[i], x), u = Puts(s[i], x),
               \A j \in (i + 1) .. m : ~ Hits(s[j], x)
        PROVE  Leaves(r, x, v, w)
    <3>1. i \in 1 .. Len(r) /\ Hits(r[i], x) /\ w = Puts(r[i], x)
      BY <1>1, <1>4, <1>5, <2>3
    <3>2. \A j \in (i + 1) .. Len(r) : ~ Hits(r[j], x)
      BY <1>1, <1>4, <2>1, <2>3
    <3> QED BY <3>1, <3>2 DEF Leaves
  <2> QED BY <2>2, <2>3 DEF Leaves, r
<1>6. ASSUME NEW i \in 1 .. n, Hits(t[i], x), w = Puts(t[i], x),
             \A j \in (i + 1) .. n : ~ Hits(t[j], x)
      PROVE  Leaves(r, x, v, w)
  <2>1. m + i \in 1 .. Len(r) /\ Hits(r[m + i], x) /\ w = Puts(r[m + i], x)
    BY <1>1, <1>3, <1>6
  <2>2. ASSUME NEW j \in ((m + i) + 1) .. Len(r) PROVE ~ Hits(r[j], x)
    <3>1. j - m \in (i + 1) .. n /\ j \in 1 .. (m + n) /\ ~ (j <= m)
      BY <1>1
    <3> QED BY <1>2, <1>6, <3>1
  <2> QED BY <2>1, <2>2 DEF Leaves
<1> QED BY <1>5, <1>6 DEF Leaves, r

LEMMA LeavesTail ==
    ASSUME NEW T, NEW s \in Seq(T), s # << >>, NEW x, NEW v, NEW w, Leaves(s, x, v, w)
    PROVE  Leaves(Tail(s), x, IF Hits(Head(s), x) THEN Puts(Head(s), x) ELSE v, w)
<1> DEFINE t == Tail(s)
           n == Len(t)
           h == Head(s)
<1>1. n \in Nat /\ Len(s) = n + 1 /\ h = s[1] /\ \A i \in 1 .. n : t[i] = s[i + 1]
  BY HeadTailProperties, EmptySeq
<1> HIDE DEF t, n, h
<1>2. CASE w = v /\ \A i \in 1 .. Len(s) : ~ Hits(s[i], x)
  <2>1. ~ Hits(h, x) /\ \A i \in 1 .. n : ~ Hits(t[i], x)
    BY <1>1, <1>2
  <2> QED BY <1>2, <2>1 DEF Leaves, t, n, h
<1>3. ASSUME NEW i \in 1 .. Len(s), Hits(s[i], x), w = Puts(s[i], x),
             \A j \in (i + 1) .. Len(s) : ~ Hits(s[j], x)
      PROVE  Leaves(t, x, IF Hits(h, x) THEN Puts(h, x) ELSE v, w)
  <2>1. CASE i = 1
    <3>1. Hits(h, x) /\ w = Puts(h, x) /\ \A j \in 1 .. n : ~ Hits(t[j], x)
      BY <1>1, <1>3, <2>1
    <3> QED BY <3>1 DEF Leaves, n
  <2>2. CASE i # 1
    <3> DEFINE k == i - 1
    <3>1. k \in 1 .. n /\ t[k] = s[i]
      BY <1>1, <2>2
    <3>2. ASSUME NEW j \in (k + 1) .. n PROVE ~ Hits(t[j], x)
      <4>1. j + 1 \in (i + 1) .. Len(s) /\ j \in 1 .. n
        BY <1>1, <2>2
      <4> QED BY <1>1, <1>3, <4>1
    <3> HIDE DEF k
    <3> QED BY <1>3, <3>1, <3>2 DEF Leaves, n
  <2> QED BY <2>1, <2>2
<1> QED BY <1>2, <1>3 DEF Leaves, t, h

LEMMA CleanConcat ==
    ASSUME NEW T, NEW s \in Seq(T), NEW t \in Seq(T)
    PROVE  Clean(s \o t) <=> Clean(s) /\ Clean(t)
<1> DEFINE r == s \o t
           m == Len(s)
           n == Len(t)
<1>1. m \in Nat /\ n \in Nat /\ Len(r) = m + n
  BY ConcatProperties
<1>2. \A i \in 1 .. (m + n) : r[i] = IF i <= m THEN s[i] ELSE t[i - m]
  BY ConcatProperties
<1> HIDE DEF r
<1>3. ASSUME Clean(r) PROVE Clean(s) /\ Clean(t)
  <2>1. Clean(s)
    BY <1>1, <1>2, <1>3 DEF Clean
  <2>2. ASSUME NEW i \in 1 .. n PROVE t[i].kind # "fail"
    <3>1. m + i \in 1 .. (m + n) /\ ~ (m + i <= m) /\ (m + i) - m = i
      BY <1>1
    <3> QED BY <1>1, <1>2, <1>3, <3>1 DEF Clean
  <2> QED BY <2>1, <2>2 DEF Clean
<1>4. ASSUME Clean(s), Clean(t), NEW i \in 1 .. (m + n) PROVE r[i].kind # "fail"
  <2>1. CASE i <= m
    BY <1>1, <1>2, <1>4, <2>1 DEF Clean
  <2>2. CASE ~ (i <= m)
    <3>1. i - m \in 1 .. n
      BY <1>1, <2>2
    <3> QED BY <1>2, <1>4, <2>2, <3>1 DEF Clean
  <2> QED BY <2>1, <2>2
<1> QED BY <1>1, <1>3, <1>4 DEF Clean, r

LEMMA CleanTail ==
    ASSUME NEW T, NEW s \in Seq(T), s # << >>, Head(s).kind # "fail", Clean(Tail(s))
    PROVE  Clean(s)
<1> DEFINE t == Tail(s)
           n == Len(t)
<1>1. n \in Nat /\ Len(s) = n + 1 /\ Head(s) = s[1] /\ \A i \in 1 .. n : t[i] = s[i + 1]
  BY HeadTailProperties, EmptySeq
<1>2. \A i \in 1 .. n : t[i].kind # "fail"
  BY DEF Clean
<1> HIDE DEF t, n
<1>3. ASSUME NEW i \in 1 .. Len(s), i # 1 PROVE s[i].kind # "fail"
  <2>1. i - 1 \in 1 .. n /\ (i - 1) + 1 = i
    BY <1>1, <1>3
  <2> QED BY <1>1, <1>2, <2>1
<1> QED BY <1>1, <1>3 DEF Clean

(* The recursion of FlattenSeq.                                            *)
IsJoined(f, ss, m) == f = [i \in 1 .. m |-> IF i = 1 THEN ss[i] ELSE f[i - 1] \o ss[i]]

LEMMA JoinedExists == ASSUME NEW ss, NEW m \in Nat PROVE \E f : IsJoined(f, ss, m)
<1> DEFINE Bad == {k \in Nat : ~ \E f : IsJoined(f, ss, k)}
<1> SUFFICES ASSUME Bad # {} PROVE FALSE
  OBVIOUS
<1>1. PICK k \in Bad : \A j \in Bad : k <= j
  <2>1. Bad \subseteq Nat
    OBVIOUS
  <2> QED BY <2>1, LeastNat, Zenon
<1>2. k # 0
  <2>1. IsJoined([i \in 1 .. 0 |-> 0], ss, 0)
    BY DEF IsJoined
  <2> QED BY <2>1
<1>3. PICK f : IsJoined(f, ss, k - 1)
  BY <1>1, <1>2
<1> DEFINE E(g, i) == IF i = 1 THEN ss[i] ELSE g[i - 1] \o ss[i]
           h == [i \in 1 .. k |-> IF i < k THEN f[i] ELSE E(f, i)]
<1>4. ASSUME NEW i \in 1 .. k PROVE h[i] = E(h, i)
  <2>1. h[i] = E(f, i)
    <3>1. CASE i < k
      <4>1. i \in 1 .. (k - 1)
        BY <3>1
      <4>2. f[i] = E(f, i)
        BY <1>3, <4>1 DEF IsJoined
      <4> HIDE DEF E
      <4> QED BY <3>1, <4>2
    <3>2. CASE ~ (i < k)
      BY <3>2
    <3> QED BY <3>1, <3>2
  <2>2. i # 1 => h[i - 1] = f[i - 1]
    <3> HIDE DEF E
    <3> QED OBVIOUS
  <2> HIDE DEF h
  <2> QED BY <2>1, <2>2
<1>5. IsJoined(h, ss, k)
  <2>1. h = [i \in 1 .. k |-> h[i]]
    OBVIOUS
  <2> HIDE DEF h
  <2>2. [i \in 1 .. k |-> h[i]] = [i \in 1 .. k |-> E(h, i)]
    <3> HIDE DEF E
    <3> QED BY <1>4
  <2> QED BY <2>1, <2>2 DEF IsJoined
<1> HIDE DEF h
<1> QED BY <1>5

LEMMA FlattenJoined ==
    ASSUME NEW ss, NEW n \in Nat \ {0}, Len(ss) = n
    PROVE  \E f : IsJoined(f, ss, n) /\ FlattenSeq(ss) = f[n]
<1> DEFINE Eqn(f) == f = [i \in 1 .. Len(ss) |-> IF i = 1 THEN ss[i] ELSE f[i - 1] \o ss[i]]
<1>1. FlattenSeq(ss) = IF Len(ss) = 0 THEN ss ELSE (CHOOSE f : Eqn(f))[Len(ss)]
  BY Zenon DEF FlattenSeq
<1>2. \A f : Eqn(f) <=> IsJoined(f, ss, n)
  BY DEF IsJoined
<1> HIDE DEF Eqn
<1>3. \E f : Eqn(f)
  BY <1>2, JoinedExists
<1>4. Eqn(CHOOSE f : Eqn(f))
  BY <1>3
<1> QED BY <1>1, <1>2, <1>4

(* What a list of lists of writes leaves: one list after the other, the    *)
(* value going through c.                                                  *)
LEMMA FlattenLeaves ==
    ASSUME NEW T, NEW ss \in Seq(Seq(T)), NEW n, n = Len(ss)
    PROVE  /\ FlattenSeq(ss) \in Seq(T)
           /\ Clean(FlattenSeq(ss)) => \A i \in 1 .. n : Clean(ss[i])
           /\ \A x, c : (\A i \in 1 .. n : Leaves(ss[i], x, c[i - 1], c[i])) =>
                            Leaves(FlattenSeq(ss), x, c[0], c[n])
<1>1. n \in Nat /\ \A i \in 1 .. n : ss[i] \in Seq(T)
  BY LenProperties, ElementOfSeq
<1>2. CASE n = 0
  <2>1. ss = << >> /\ FlattenSeq(ss) = ss
    BY <1>2, EmptySeq, Zenon DEF FlattenSeq
  <2>2. FlattenSeq(ss) \in Seq(T)
    BY <2>1, EmptySeq
  <2>3. \A i \in 1 .. n : Clean(ss[i])
    BY <1>2
  <2>4. ASSUME NEW x, NEW c PROVE Leaves(FlattenSeq(ss), x, c[0], c[n])
    <3>1. Leaves(<< >>, x, c[0], c[0])
      BY LeavesNone
    <3> QED BY <1>2, <2>1, <3>1
  <2> QED BY <2>2, <2>3, <2>4
<1>3. CASE n # 0
  <2>1. PICK f : IsJoined(f, ss, n) /\ FlattenSeq(ss) = f[n]
    BY <1>1, <1>3, FlattenJoined
  <2>2. \A i \in 1 .. n : f[i] = IF i = 1 THEN ss[i] ELSE f[i - 1] \o ss[i]
    BY <2>1 DEF IsJoined
  <2> DEFINE Good(i) == /\ f[i] \in Seq(T)
                        /\ Clean(f[i]) => \A j \in 1 .. i : Clean(ss[j])
                        /\ \A x, c : (\A j \in 1 .. n : Leaves(ss[j], x, c[j - 1], c[j])) =>
                                         Leaves(f[i], x, c[0], c[i])
             Bad == {i \in 1 .. n : ~ Good(i)}
  <2>3. Good(1)
    <3>1. f[1] = ss[1] /\ 1 \in 1 .. n /\ \A j \in 1 .. 1 : j = 1
      BY <1>1, <1>3, <2>2
    <3>2. 1 - 1 = 0
      OBVIOUS
    <3> QED BY <1>1, <3>1, <3>2
  <2>4. ASSUME NEW k \in 2 .. n, Good(k - 1) PROVE Good(k)
    <3> DEFINE m == k - 1
    <3>1. k \in 1 .. n /\ m \in 1 .. n /\ k # 1 /\ k \in Nat /\ m = k - 1
      BY <1>1
    <3>2. f[k] = f[m] \o ss[k] /\ f[m] \in Seq(T) /\ ss[k] \in Seq(T)
      BY <1>1, <2>2, <2>4, <3>1
    <3>3. f[k] \in Seq(T)
      BY <3>2, ConcatProperties
    <3>4. ASSUME Clean(f[k]), NEW j \in 1 .. k PROVE Clean(ss[j])
      <4>1. Clean(f[m]) /\ Clean(ss[k])
        BY <3>2, <3>4, CleanConcat
      <4>2. j = k \/ j \in 1 .. m
        BY <3>1
      <4> QED BY <2>4, <4>1, <4>2
    <3>5. ASSUME NEW x, NEW c, \A j \in 1 .. n : Leaves(ss[j], x, c[j - 1], c[j])
          PROVE  Leaves(f[k], x, c[0], c[k])
      <4>1. Leaves(f[m], x, c[0], c[m])
        BY <2>4, <3>5
      <4>2. Leaves(ss[k], x, c[m], c[k])
        BY <3>1, <3>5
      <4> QED BY <3>2, <4>1, <4>2, LeavesConcat
    <3> QED BY <3>3, <3>4, <3>5
  <2> HIDE DEF Good
  <2>5. Bad = {}
    <3> SUFFICES ASSUME Bad # {} PROVE FALSE
      OBVIOUS
    <3>1. PICK k \in Bad : \A j \in Bad : k <= j
      <4>1. Bad \subseteq Nat
        BY <1>1
      <4> QED BY <4>1, LeastNat, Zenon
    <3>2. k \in 2 .. n /\ k - 1 \in 1 .. n /\ ~ (k <= k - 1)
      BY <1>1, <2>3
    <3>3. Good(k - 1)
      BY <3>1, <3>2
    <3> QED BY <2>4, <3>2, <3>3
  <2>6. Good(n)
    BY <1>1, <1>3, <2>5
  <2> QED BY <2>1, <2>6 DEF Good
<1> QED BY <1>2, <1>3

-----------------------------------------------------------------------------
(* What the commands write, place by place.                                *)

(* A write by its fields.                                                  *)
LEMMA OpFields ==
    /\ \A a, h, t : /\ RangeOp(a, h, t).kind = "range" /\ RangeOp(a, h, t).address = a
                    /\ RangeOp(a, h, t).data = h \o t
    /\ \A a, v : /\ SetOp(a, v).kind = "set" /\ SetOp(a, v).address = a
                 /\ SetOp(a, v).data = <<v>>
    /\ PointerOp.kind = "pointer" /\ PointerOp.data = << >>
    /\ FailOp.kind = "fail"
BY DEF RangeOp, SetOp, PointerOp, FailOp

(* In the space a place that is a cell is hit by its distance from the     *)
(* address of the write.                                                   *)
LEMMA HitsIs ==
    ASSUME NEW op
    PROVE  /\ Hits(op, Sp) <=> op.kind = "pointer"
           /\ Puts(op, Sp) = STACK_PTR
           /\ \A x \in Address : /\ Hits(op, x) <=> At(op, x) < Len(op.data)
                                 /\ Puts(op, x) = op.data[At(op, x) + 1]
<1>1. \A x \in Address : x # Sp
  BY Space DEF Sp
<1> QED BY <1>1 DEF Hits, Puts

LEMMA MaxIs ==
    ASSUME NEW T, T \subseteq Int, NEW i \in T, \A y \in T : y <= i
    PROVE  Max(T) = i
<1>1. \E z \in T : \A y \in T : z >= y
  OBVIOUS
<1>2. Max(T) \in T /\ \A y \in T : Max(T) >= y
  BY <1>1, Zenon DEF Max
<1> DEFINE m == Max(T)
<1> HIDE DEF m
<1>3. m \in T /\ m >= i /\ m \in Int /\ i \in Int
  BY <1>2 DEF m
<1>4. m <= i
  BY <1>3
<1>5. m = i
  BY <1>3, <1>4
<1> QED BY <1>5 DEF m

CellValue == Word \cup {RET}
AnyOp == [kind : {"range", "set", "pointer", "fail"}, address : Int, data : Seq(CellValue), first : Nat]

LEMMA OpTypes ==
    /\ \A a \in Int, h \in Seq(CellValue), t \in Seq(CellValue) : RangeOp(a, h, t) \in AnyOp
    /\ \A a \in Int, v \in CellValue : SetOp(a, v) \in AnyOp
    /\ PointerOp \in AnyOp /\ FailOp \in AnyOp
    /\ 0 \in CellValue /\ RET \in CellValue /\ Word \subseteq CellValue
    /\ \A op \in AnyOp : <<op>> \in Seq(AnyOp)
<1>1. 0 \in CellValue /\ RET \in CellValue /\ Word \subseteq CellValue
  BY WordAssumption DEF CellValue
<1>2. ASSUME NEW a \in Int, NEW h \in Seq(CellValue), NEW t \in Seq(CellValue)
      PROVE  RangeOp(a, h, t) \in AnyOp
  <2>1. h \o t \in Seq(CellValue) /\ Len(h) \in Nat
    BY ConcatProperties, LenProperties
  <2> QED BY <2>1 DEF RangeOp, AnyOp
<1>3. ASSUME NEW a \in Int, NEW v \in CellValue PROVE SetOp(a, v) \in AnyOp
  BY DEF SetOp, AnyOp
<1>4. PointerOp \in AnyOp /\ FailOp \in AnyOp
  <2>1. << >> \in Seq(CellValue) /\ STACK_PTR \in Int
    BY EmptySeq, LoaderAssumption
  <2> QED BY <2>1 DEF PointerOp, FailOp, AnyOp
<1>5. \A op \in AnyOp : <<op>> \in Seq(AnyOp)
  OBVIOUS
<1> QED BY <1>1, <1>2, <1>3, <1>4, <1>5

LEMMA ZerosIs ==
    ASSUME NEW n \in Nat
    PROVE  Zeros(n) \in Seq(CellValue) /\ Len(Zeros(n)) = n /\ \A i \in 1 .. n : Zeros(n)[i] = 0
<1>1. 0 \in CellValue
  BY OpTypes
<1> QED BY <1>1 DEF Zeros

(* One range, from two parts.                                              *)
LEMMA RangeLeaves ==
    ASSUME NEW a, NEW h \in Seq(CellValue), NEW t \in Seq(CellValue), NEW x \in Address, NEW v,
           NEW k, k = (x - a) % S, k \in Nat
    PROVE  Leaves(<<RangeOp(a, h, t)>>, x, v,
                  IF k < Len(h) THEN h[k + 1]
                  ELSE IF k < Len(h) + Len(t) THEN t[k + 1 - Len(h)] ELSE v)
<1> DEFINE op == RangeOp(a, h, t)
           m == Len(h)
           n == Len(t)
<1>1. op.data = h \o t /\ At(op, x) = k
  BY OpFields DEF At
<1> HIDE DEF op
<1>2. m \in Nat /\ n \in Nat /\ Len(op.data) = m + n
      /\ \A i \in 1 .. (m + n) : op.data[i] = IF i <= m THEN h[i] ELSE t[i - m]
  BY <1>1, ConcatProperties
<1>3. Hits(op, x) <=> k < m + n
  BY <1>1, <1>2, HitsIs
<1>4. k < m + n => Puts(op, x) = IF k < m THEN h[k + 1] ELSE t[k + 1 - m]
  <2> SUFFICES ASSUME k < m + n PROVE Puts(op, x) = IF k < m THEN h[k + 1] ELSE t[k + 1 - m]
    OBVIOUS
  <2>1. Puts(op, x) = op.data[k + 1]
    BY <1>1, HitsIs
  <2>2. k + 1 \in 1 .. (m + n) /\ (k + 1 <= m <=> k < m)
    BY <1>2
  <2> QED BY <1>2, <2>1, <2>2
<1>5. Leaves(<<op>>, x, v, IF Hits(op, x) THEN Puts(op, x) ELSE v)
  BY LeavesOne
<1>6. (k < m => k < m + n)
  BY <1>2
<1> QED BY <1>3, <1>4, <1>5, <1>6 DEF op

LEMMA LeavesSp ==
    ASSUME NEW op, op.kind # "pointer", NEW v
    PROVE  Leaves(<<op>>, Sp, v, v)
BY HitsIs, LeavesOne

(* load_elf: one segment.                                                  *)
SegHit(h, x) == h.type # "PT_MIPS_ABIFLAGS" /\ x - h.vaddr \in 0 .. (h.memsz - 1)
SegVal(h, x) == IF x - h.vaddr < Len(h.file) THEN h.file[x - h.vaddr + 1] ELSE 0

LEMMA SegmentLeaves ==
    ASSUME NEW h \in ProgramHeader
    PROVE  /\ load_elf(h) \in Seq(AnyOp)
           /\ Clean(load_elf(h)) =>
                 /\ \A v : Leaves(load_elf(h), Sp, v, v)
                 /\ \A x \in Address : \A v :
                       Leaves(load_elf(h), x, v, IF SegHit(h, x) THEN SegVal(h, x) ELSE v)
<1>1. h.vaddr \in Nat /\ h.file \in Seq(Word) /\ h.memsz \in Nat
  BY DEF ProgramHeader
<1> DEFINE n == Len(h.file)
           z == Zeros(h.memsz - n)
           op == RangeOp(h.vaddr, h.file, z)
<1>2. h.file \in Seq(CellValue) /\ n \in Nat
  BY <1>1, OpTypes, LenProperties
<1>3. CASE h.type = "PT_MIPS_ABIFLAGS"
  <2>1. load_elf(h) = << >>
    BY <1>3 DEF load_elf
  <2>2. \A x : ~ SegHit(h, x)
    BY <1>3 DEF SegHit
  <2>3. \A x, v : Leaves(<< >>, x, v, v)
    BY LeavesNone
  <2> QED BY <2>1, <2>2, <2>3, EmptySeq
<1>4. CASE h.type # "PT_MIPS_ABIFLAGS" /\ Refused(h)
  <2>1. load_elf(h) = <<FailOp>>
    BY <1>4 DEF load_elf
  <2>2. ~ Clean(<<FailOp>>)
    BY OpFields DEF Clean
  <2> QED BY <2>1, <2>2, OpTypes
<1>5. CASE h.type # "PT_MIPS_ABIFLAGS" /\ ~ Refused(h)
  <2>1. load_elf(h) = <<op>>
    BY <1>5 DEF load_elf
  <2>2. n <= h.memsz /\ h.vaddr + h.memsz < S
    BY <1>1, <1>2, <1>5, Space DEF Refused, S
  <2>3. z \in Seq(CellValue) /\ Len(z) = h.memsz - n /\ \A i \in 1 .. (h.memsz - n) : z[i] = 0
    <3> DEFINE d == h.memsz - n
    <3>1. d \in Nat
      BY <1>1, <1>2, <2>2
    <3> HIDE DEF d
    <3>2. Zeros(d) \in Seq(CellValue) /\ Len(Zeros(d)) = d /\ \A i \in 1 .. d : Zeros(d)[i] = 0
      BY <3>1, ZerosIs
    <3> QED BY <3>2 DEF d
  <2>4. <<op>> \in Seq(AnyOp)
    BY <1>1, <1>2, <2>3, OpTypes
  <2>5. ASSUME NEW v PROVE Leaves(<<op>>, Sp, v, v)
    BY OpFields, LeavesSp
  <2>6. ASSUME NEW x \in Address, NEW v
        PROVE  Leaves(<<op>>, x, v, IF SegHit(h, x) THEN SegVal(h, x) ELSE v)
    <3> DEFINE k == (x - h.vaddr) % S
               m == h.memsz
               d == x - h.vaddr
    <3>1. S \in Nat \ {0} /\ x \in 0 .. (S - 1) /\ h.vaddr \in Address
      BY <1>1, <2>2, Space
    <3>2. k \in 0 .. (S - 1) /\ (x >= h.vaddr => k = d) /\ (x < h.vaddr => k = d + S)
      BY <3>1, Distance
    <3> HIDE DEF k, z
    <3>3. k \in Nat /\ (k < m <=> d \in 0 .. (m - 1)) /\ (k < m => k = d) /\ n + Len(z) = m
      BY <1>1, <1>2, <2>2, <2>3, <3>1, <3>2
    <3>4. SegHit(h, x) <=> k < m
      BY <1>5, <3>3 DEF SegHit
    <3>5. Leaves(<<op>>, x, v,
                 IF k < n THEN h.file[k + 1]
                 ELSE IF k < n + Len(z) THEN z[k + 1 - n] ELSE v)
      BY <1>2, <2>3, <3>3, RangeLeaves DEF k
    <3>6. ASSUME k < m
          PROVE  SegVal(h, x) = IF k < n THEN h.file[k + 1] ELSE z[k + 1 - n]
      <4>1. k = d
        BY <3>3, <3>6
      <4>2. ~ (k < n) => k + 1 - n \in 1 .. (m - n)
        <5>1. k \in Nat /\ m \in Nat /\ n \in Nat /\ k < m
          BY <1>1, <1>2, <3>3, <3>6
        <5> HIDE DEF m, n
        <5> QED BY <5>1
      <4>3. ~ (k < n) => z[k + 1 - n] = 0
        BY <2>3, <4>2
      <4> QED BY <4>1, <4>3 DEF SegVal
    <3>7. k < n => k < m
      BY <1>1, <1>2, <2>2, <3>3
    <3> QED BY <3>3, <3>4, <3>5, <3>6, <3>7
  <2> HIDE DEF op
  <2> QED BY <2>1, <2>4, <2>5, <2>6
<1> QED BY <1>3, <1>4, <1>5

(* A list of lists of which those of P put something into x: the last of   *)
(* them counts.                                                            *)
LEMMA LastHit ==
    ASSUME NEW n \in Nat, NEW P \in SUBSET (1 .. n), NEW i \in 1 .. n
    PROVE  /\ i \in P => P \cap (1 .. i) # {} /\ Max(P \cap (1 .. i)) = i
           /\ i \notin P => P \cap (1 .. i) = P \cap (1 .. (i - 1))
<1>1. ASSUME i \in P PROVE P \cap (1 .. i) # {} /\ Max(P \cap (1 .. i)) = i
  <2> DEFINE Q == P \cap (1 .. i)
  <2>1. Q \subseteq Int /\ i \in Q /\ \A y \in Q : y <= i
    BY <1>1
  <2> HIDE DEF Q
  <2>2. Q # {} /\ Max(Q) = i
    BY <2>1, MaxIs
  <2> QED BY <2>2 DEF Q
<1>2. ASSUME i \notin P PROVE P \cap (1 .. i) = P \cap (1 .. (i - 1))
  <2>1. \A j \in P : j \in 1 .. i <=> j \in 1 .. (i - 1)
    BY <1>2
  <2> QED BY <2>1
<1> QED BY <1>1, <1>2

LEMMA MaxIn ==
    ASSUME NEW n \in Nat, NEW P \in SUBSET (1 .. n), P # {}
    PROVE  Max(P) \in P
<1>1. P \subseteq 0 .. n
  OBVIOUS
<1>2. PICK i \in P : \A y \in P : y <= i
  BY <1>1, GreatestNat, Zenon
<1>3. P \subseteq Int
  OBVIOUS
<1> QED BY <1>2, <1>3, MaxIs

LEMMA FlattenLast ==
    ASSUME NEW T, NEW ss \in Seq(Seq(T)), NEW n, n = Len(ss), NEW x, NEW v,
           NEW P \in SUBSET (1 .. n), NEW e,
           \A i \in 1 .. n : \A u : Leaves(ss[i], x, u, IF i \in P THEN e[i] ELSE u)
    PROVE  Leaves(FlattenSeq(ss), x, v, IF P = {} THEN v ELSE e[Max(P)])
<1> DEFINE F(Q) == IF Q = {} THEN v ELSE e[Max(Q)]
           c == [i \in 0 .. n |-> F(P \cap (1 .. i))]
<1>1. n \in Nat
  BY LenProperties
<1>2. \A i \in 0 .. n : c[i] = F(P \cap (1 .. i))
  OBVIOUS
<1>3. c[0] = v /\ c[n] = F(P)
  <2>1. c[0] = F(P \cap (1 .. 0)) /\ c[n] = F(P \cap (1 .. n))
    BY <1>1, <1>2
  <2>2. P \cap (1 .. 0) = {}
    <3>1. \A i : i \notin 1 .. 0
      OBVIOUS
    <3> QED BY <3>1, Zenon
  <2>3. P \cap (1 .. n) = P
    BY Zenon
  <2> QED BY <2>1, <2>2, <2>3
<1> HIDE DEF c
<1>4. ASSUME NEW i \in 1 .. n PROVE Leaves(ss[i], x, c[i - 1], c[i])
  <2>1. i \in 0 .. n /\ i - 1 \in 0 .. n
    BY <1>1
  <2>2. c[i] = F(P \cap (1 .. i)) /\ c[i - 1] = F(P \cap (1 .. (i - 1)))
    BY <1>2, <2>1
  <2>3. i \in P => P \cap (1 .. i) # {} /\ Max(P \cap (1 .. i)) = i
    BY <1>1, LastHit
  <2>4. i \notin P => P \cap (1 .. i) = P \cap (1 .. (i - 1))
    BY <1>1, LastHit
  <2>5. c[i] = IF i \in P THEN e[i] ELSE c[i - 1]
    <3>1. CASE i \in P
      BY <2>2, <2>3, <3>1
    <3>2. CASE i \notin P
      <4> HIDE DEF F
      <4> QED BY <2>2, <2>4, <3>2
    <3> QED BY <3>1, <3>2
  <2>6. Leaves(ss[i], x, c[i - 1], IF i \in P THEN e[i] ELSE c[i - 1])
    OBVIOUS
  <2> QED BY <2>5, <2>6
<1>5. Leaves(FlattenSeq(ss), x, c[0], c[n])
  BY <1>4, FlattenLeaves
<1> QED BY <1>3, <1>5

(* All the segments.                                                       *)
LEMMA SegmentsLeave ==
    ASSUME elf \in Elf, NEW s,
           s = FlattenSeq([i \in 1 .. Len(elf.segments) |-> load_elf(elf.segments[i])])
    PROVE  /\ s \in Seq(AnyOp)
           /\ Clean(s) => /\ Leaves(s, Sp, 0, 0)
                          /\ \A x \in Address : Leaves(s, x, 0, SegmentCell(x))
<1> DEFINE n == Len(elf.segments)
           ss == [i \in 1 .. n |-> load_elf(elf.segments[i])]
<1>1. elf.segments \in Seq(ProgramHeader)
  BY LoaderAssumption
<1>2. n \in Nat /\ DOMAIN elf.segments = 1 .. n /\ \A i \in 1 .. n : elf.segments[i] \in ProgramHeader
  BY <1>1, LenProperties, ElementOfSeq
<1> HIDE DEF n
<1>3. \A i \in 1 .. n : ss[i] = load_elf(elf.segments[i]) /\ ss[i] \in Seq(AnyOp)
  BY <1>2, SegmentLeaves
<1>4. ss \in Seq(Seq(AnyOp)) /\ Len(ss) = n
  BY <1>2, <1>3
<1>5. s = FlattenSeq(ss)
  BY DEF n
<1> HIDE DEF ss
<1>6. s \in Seq(AnyOp) /\ (Clean(s) => \A i \in 1 .. n : Clean(ss[i]))
  BY <1>4, <1>5, FlattenLeaves
<1>7. ASSUME Clean(s) PROVE Leaves(s, Sp, 0, 0)
  <2>1. \A i \in 1 .. n : \A u : Leaves(ss[i], Sp, u, u)
    BY <1>2, <1>3, <1>6, <1>7, SegmentLeaves
  <2> DEFINE c == [i \in 0 .. n |-> 0]
  <2>2. c[0] = 0 /\ c[n] = 0 /\ \A i \in 1 .. n : c[i - 1] = 0 /\ c[i] = 0
    BY <1>2
  <2> HIDE DEF c
  <2>3. \A i \in 1 .. n : Leaves(ss[i], Sp, c[i - 1], c[i])
    BY <2>1, <2>2
  <2>4. Leaves(FlattenSeq(ss), Sp, c[0], c[n])
    BY <1>4, <2>3, FlattenLeaves
  <2> QED BY <1>5, <2>2, <2>4
<1>8. ASSUME Clean(s), NEW x \in Address PROVE Leaves(s, x, 0, SegmentCell(x))
  <2> DEFINE P == {i \in 1 .. n : SegHit(elf.segments[i], x)}
             e == [i \in 1 .. n |-> SegVal(elf.segments[i], x)]
  <2>1. ASSUME NEW i \in 1 .. n, NEW u
        PROVE  Leaves(ss[i], x, u, IF i \in P THEN e[i] ELSE u)
    <3>1. Leaves(load_elf(elf.segments[i]), x, u,
                 IF SegHit(elf.segments[i], x) THEN SegVal(elf.segments[i], x) ELSE u)
      BY <1>2, <1>3, <1>6, <1>8, SegmentLeaves
    <3> QED BY <1>3, <3>1
  <2>2. P \in SUBSET (1 .. n)
    OBVIOUS
  <2>3. P # {} => Max(P) \in P
    BY <1>2, <2>2, MaxIn
  <2>4. SegmentCell(x) = IF P = {} THEN 0 ELSE e[Max(P)]
    <3>1. SegmentCell(x) = IF P = {} THEN 0 ELSE SegVal(elf.segments[Max(P)], x)
      BY <1>2, Zenon DEF SegmentCell, SegHit, SegVal
    <3>2. P # {} => e[Max(P)] = SegVal(elf.segments[Max(P)], x)
      <4> DEFINE q == Max(P)
      <4> HIDE DEF q
      <4>1. P # {} => q \in 1 .. n
        BY <2>3 DEF q
      <4> QED BY <4>1 DEF q
    <3> QED BY <3>1, <3>2
  <2> HIDE DEF P, e
  <2>5. Leaves(FlattenSeq(ss), x, 0, IF P = {} THEN 0 ELSE e[Max(P)])
    BY <1>4, <2>1, <2>2, FlattenLast
  <2> QED BY <1>5, <2>4, <2>5
<1> QED BY <1>6, <1>7, <1>8

(* patch_go: one symbol.                                                   *)
GoAt(y, x)  == (x - y.value) % S
GoHit(y, x) == \/ y.name = "GO_SYMBOL" /\ GoAt(y, x) < 2
               \/ y.name = "MemProfileRate" /\ GoAt(y, x) = 0
GoVal(y, x) == IF y.name = "GO_SYMBOL" /\ GoAt(y, x) = 0 THEN RET ELSE 0

LEMMA PatchGoIs ==
    ASSUME NEW y
    PROVE  /\ y.name = "GO_SYMBOL" => patch_go(y) = <<RangeOp(y.value, <<RET, 0>>, << >>)>>
           /\ y.name = "MemProfileRate" =>
                  patch_go(y) = <<IF y.aligned THEN SetOp(y.value, 0) ELSE FailOp>>
           /\ y.name = "unreadable" => patch_go(y) = <<FailOp>>
           /\ (y.name # "GO_SYMBOL" /\ y.name # "MemProfileRate" /\ y.name # "unreadable") =>
                  patch_go(y) = << >>
<1>1. "GO_SYMBOL" # "MemProfileRate" /\ "GO_SYMBOL" # "unreadable" /\ "MemProfileRate" # "unreadable"
  OBVIOUS
<1>2. CASE y.name = "GO_SYMBOL"
  BY <1>1, <1>2, Zenon DEF patch_go
<1>3. CASE y.name = "MemProfileRate"
  BY <1>1, <1>3, Zenon DEF patch_go
<1>4. CASE y.name = "unreadable"
  BY <1>1, <1>4, Zenon DEF patch_go
<1>5. CASE y.name # "GO_SYMBOL" /\ y.name # "MemProfileRate" /\ y.name # "unreadable"
  BY <1>5, Zenon DEF patch_go
<1> QED BY <1>1, <1>2, <1>3, <1>4, <1>5

LEMMA SymbolLeaves ==
    ASSUME NEW y \in ElfSymbol
    PROVE  /\ patch_go(y) \in Seq(AnyOp)
           /\ Clean(patch_go(y)) =>
                 /\ \A v : Leaves(patch_go(y), Sp, v, v)
                 /\ \A x \in Address : \A v :
                       Leaves(patch_go(y), x, v, IF GoHit(y, x) THEN GoVal(y, x) ELSE v)
<1>1. y.value \in Int /\ y.aligned \in BOOLEAN
  BY DEF ElfSymbol
<1>2. ASSUME NEW x \in Address PROVE GoAt(y, x) \in Nat
  BY <1>1, Space DEF GoAt
<1>3. ~ Clean(<<FailOp>>) /\ <<FailOp>> \in Seq(AnyOp)
  BY OpFields, OpTypes DEF Clean
<1>4. CASE y.name = "GO_SYMBOL"
  <2> DEFINE h == <<RET, 0>>
             t == << >>
             op == RangeOp(y.value, h, t)
  <2>1. patch_go(y) = <<op>>
    BY <1>4, PatchGoIs
  <2>2. h \in Seq(CellValue) /\ t \in Seq(CellValue) /\ Len(h) = 2 /\ Len(t) = 0 /\ h[1] = RET /\ h[2] = 0
    BY OpTypes
  <2> HIDE DEF h, t
  <2>3. <<op>> \in Seq(AnyOp) /\ op.kind = "range"
    <3>1. op \in AnyOp
      BY <1>1, <2>2, OpTypes
    <3>2. op.kind = "range"
      BY OpFields
    <3> QED BY <3>1, <3>2, OpTypes
  <2>4. ASSUME NEW v PROVE Leaves(<<op>>, Sp, v, v)
    BY <2>3, LeavesSp
  <2>5. ASSUME NEW x \in Address, NEW v
        PROVE  Leaves(<<op>>, x, v, IF GoHit(y, x) THEN GoVal(y, x) ELSE v)
    <3> DEFINE k == GoAt(y, x)
    <3>1. k = (x - y.value) % S /\ k \in Nat
      BY <1>2 DEF GoAt
    <3> HIDE DEF k
    <3>2. Leaves(<<op>>, x, v, IF k < Len(h) THEN h[k + 1]
                               ELSE IF k < Len(h) + Len(t) THEN t[k + 1 - Len(h)] ELSE v)
      BY <2>2, <3>1, RangeLeaves
    <3>3. GoHit(y, x) <=> k < 2
      BY <1>4 DEF GoHit, k
    <3>4. GoVal(y, x) = IF k = 0 THEN RET ELSE 0
      BY <1>4 DEF GoVal, k
    <3>5. CASE k < 2
      <4>1. h[k + 1] = IF k = 0 THEN RET ELSE 0
        BY <2>2, <3>1, <3>5
      <4> QED BY <2>2, <3>2, <3>3, <3>4, <3>5, <4>1
    <3>6. CASE ~ (k < 2)
      <4>1. ~ (k < Len(h)) /\ ~ (k < Len(h) + Len(t))
        BY <2>2, <3>1, <3>6
      <4> QED BY <3>2, <3>3, <3>6, <4>1
    <3> QED BY <3>5, <3>6
  <2> HIDE DEF op
  <2> QED BY <2>1, <2>3, <2>4, <2>5
<1>5. CASE y.name = "MemProfileRate" /\ y.aligned
  <2> DEFINE op == SetOp(y.value, 0)
  <2>1. patch_go(y) = <<op>>
    BY <1>5, PatchGoIs
  <2>2. <<op>> \in Seq(AnyOp) /\ op.kind = "set" /\ op.address = y.value /\ op.data = <<0>>
    BY <1>1, OpTypes, OpFields
  <2> HIDE DEF op
  <2>3. ASSUME NEW v PROVE Leaves(<<op>>, Sp, v, v)
    BY <2>2, LeavesSp
  <2>4. ASSUME NEW x \in Address, NEW v
        PROVE  Leaves(<<op>>, x, v, IF GoHit(y, x) THEN GoVal(y, x) ELSE v)
    <3> DEFINE k == GoAt(y, x)
    <3>1. At(op, x) = k /\ k \in Nat
      BY <1>2, <2>2 DEF GoAt, At
    <3> HIDE DEF k
    <3>2. Len(op.data) = 1 /\ op.data[1] = 0
      BY <2>2
    <3>3. Hits(op, x) <=> k = 0
      BY <3>1, <3>2, HitsIs
    <3>4. k = 0 => Puts(op, x) = 0
      BY <3>1, <3>2, HitsIs
    <3>5. GoHit(y, x) <=> k = 0
      BY <1>5 DEF GoHit, k
    <3>6. GoVal(y, x) = 0
      BY <1>5 DEF GoVal
    <3>7. Leaves(<<op>>, x, v, IF Hits(op, x) THEN Puts(op, x) ELSE v)
      BY LeavesOne
    <3> QED BY <3>3, <3>4, <3>5, <3>6, <3>7
  <2> QED BY <2>1, <2>2, <2>3, <2>4
<1>6. CASE (y.name = "MemProfileRate" /\ ~ y.aligned) \/ y.name = "unreadable"
  <2>1. patch_go(y) = <<FailOp>>
    BY <1>6, PatchGoIs
  <2> QED BY <1>3, <2>1
<1>7. CASE y.name # "GO_SYMBOL" /\ y.name # "MemProfileRate" /\ y.name # "unreadable"
  <2>1. patch_go(y) = << >>
    BY <1>7, PatchGoIs
  <2>2. \A x : ~ GoHit(y, x)
    BY <1>7 DEF GoHit
  <2>3. \A x, v : Leaves(<< >>, x, v, v)
    BY LeavesNone
  <2> QED BY <2>1, <2>2, <2>3, EmptySeq
<1> QED BY <1>1, <1>4, <1>5, <1>6, <1>7

(* All the symbols.                                                        *)
LEMMA SymbolsLeave ==
    ASSUME elf \in Elf, NEW s,
           s = FlattenSeq([i \in 1 .. Len(elf.symbols) |-> patch_go(elf.symbols[i])])
    PROVE  /\ s \in Seq(AnyOp)
           /\ Clean(s) => /\ \A v : Leaves(s, Sp, v, v)
                          /\ \A x \in Address : \A v : Leaves(s, x, v, GoCell(x, v))
<1> DEFINE n == Len(elf.symbols)
           ss == [i \in 1 .. n |-> patch_go(elf.symbols[i])]
<1>1. elf.symbols \in Seq(ElfSymbol)
  BY LoaderAssumption
<1>2. n \in Nat /\ DOMAIN elf.symbols = 1 .. n /\ \A i \in 1 .. n : elf.symbols[i] \in ElfSymbol
  BY <1>1, LenProperties, ElementOfSeq
<1> HIDE DEF n
<1>3. \A i \in 1 .. n : ss[i] = patch_go(elf.symbols[i]) /\ ss[i] \in Seq(AnyOp)
  BY <1>2, SymbolLeaves
<1>4. ss \in Seq(Seq(AnyOp)) /\ Len(ss) = n
  BY <1>2, <1>3
<1>5. s = FlattenSeq(ss)
  BY DEF n
<1> HIDE DEF ss
<1>6. s \in Seq(AnyOp) /\ (Clean(s) => \A i \in 1 .. n : Clean(ss[i]))
  BY <1>4, <1>5, FlattenLeaves
<1>7. ASSUME Clean(s), NEW v PROVE Leaves(s, Sp, v, v)
  <2>1. \A i \in 1 .. n : \A u : Leaves(ss[i], Sp, u, u)
    BY <1>2, <1>3, <1>6, <1>7, SymbolLeaves
  <2> DEFINE c == [i \in 0 .. n |-> v]
  <2>2. c[0] = v /\ c[n] = v /\ \A i \in 1 .. n : c[i - 1] = v /\ c[i] = v
    BY <1>2
  <2> HIDE DEF c
  <2>3. \A i \in 1 .. n : Leaves(ss[i], Sp, c[i - 1], c[i])
    BY <2>1, <2>2
  <2>4. Leaves(FlattenSeq(ss), Sp, c[0], c[n])
    BY <1>4, <2>3, FlattenLeaves
  <2> QED BY <1>5, <2>2, <2>4
<1>8. ASSUME Clean(s), NEW x \in Address, NEW v PROVE Leaves(s, x, v, GoCell(x, v))
  <2> DEFINE P == {i \in 1 .. n : GoHit(elf.symbols[i], x)}
             e == [i \in 1 .. n |-> GoVal(elf.symbols[i], x)]
  <2>1. ASSUME NEW i \in 1 .. n, NEW u
        PROVE  Leaves(ss[i], x, u, IF i \in P THEN e[i] ELSE u)
    <3>1. Leaves(patch_go(elf.symbols[i]), x, u,
                 IF GoHit(elf.symbols[i], x) THEN GoVal(elf.symbols[i], x) ELSE u)
      BY <1>2, <1>3, <1>6, <1>8, SymbolLeaves
    <3> QED BY <1>3, <3>1
  <2>2. P \in SUBSET (1 .. n)
    OBVIOUS
  <2>3. P # {} => Max(P) \in P
    BY <1>2, <2>2, MaxIn
  <2>4. GoCell(x, v) = IF P = {} THEN v ELSE e[Max(P)]
    <3>1. GoCell(x, v) = IF P = {} THEN v ELSE GoVal(elf.symbols[Max(P)], x)
      BY <1>2, Zenon DEF GoCell, GoHit, GoVal, GoAt, S
    <3>2. P # {} => e[Max(P)] = GoVal(elf.symbols[Max(P)], x)
      <4> DEFINE q == Max(P)
      <4> HIDE DEF q
      <4>1. P # {} => q \in 1 .. n
        BY <2>3 DEF q
      <4> QED BY <4>1 DEF q
    <3> QED BY <3>1, <3>2
  <2> HIDE DEF P, e
  <2>5. Leaves(FlattenSeq(ss), x, v, IF P = {} THEN v ELSE e[Max(P)])
    BY <1>4, <2>1, <2>2, FlattenLast
  <2> QED BY <1>5, <2>4, <2>5
<1> QED BY <1>6, <1>7, <1>8

(* One range that does not wrap, in one part.                              *)
LEMMA PlainRange ==
    ASSUME NEW a \in Nat, NEW h \in Seq(CellValue), NEW n, n = Len(h), a + n <= S,
           NEW x \in Address, NEW v
    PROVE  Leaves(<<RangeOp(a, h, << >>)>>, x, v,
                  IF x - a \in 0 .. (n - 1) THEN h[x - a + 1] ELSE v)
<1> DEFINE k == (x - a) % S
           t == << >>
<1>1. S \in Nat \ {0} /\ x \in 0 .. (S - 1) /\ n \in Nat
  BY Space, LenProperties
<1>2. k \in Nat
  BY <1>1
<1>3. t \in Seq(CellValue) /\ Len(t) = 0
  BY EmptySeq
<1>4. (k < n <=> x - a \in 0 .. (n - 1)) /\ (k < n => k = x - a)
  <2>1. CASE n = 0
    BY <1>1, <1>2, <2>1
  <2>2. CASE n # 0
    <3>1. a \in Address
      BY <1>1, <2>2, Space
    <3>2. k \in 0 .. (S - 1) /\ (x >= a => k = x - a) /\ (x < a => k = (x - a) + S)
      BY <3>1, Distance
    <3> HIDE DEF k
    <3> QED BY <1>1, <3>2
  <2> QED BY <2>1, <2>2
<1> HIDE DEF t
<1>5. Leaves(<<RangeOp(a, h, t)>>, x, v,
             IF k < Len(h) THEN h[k + 1]
             ELSE IF k < Len(h) + Len(t) THEN t[k + 1 - Len(h)] ELSE v)
  BY <1>2, <1>3, RangeLeaves
<1> HIDE DEF k
<1>6. ~ (k < n) => ~ (k < n + Len(t))
  BY <1>1, <1>3
<1> QED BY <1>4, <1>5, <1>6 DEF t

(* The words of argc, argv, envp and auxv, one by one.                     *)
ArgOps == [i \in 1 .. Len(StackArgs) |-> SetOp(STACK_PTR + i, StackArgs[i])]

LEMMA ArgsLeave ==
    ASSUME NEW n, n = Len(StackArgs)
    PROVE  /\ ArgOps \in Seq(AnyOp)
           /\ \A v : Leaves(ArgOps, Sp, v, v)
           /\ \A x \in Address : \A v :
                 Leaves(ArgOps, x, v,
                        IF x - STACK_PTR \in 1 .. n THEN StackArgs[x - STACK_PTR] ELSE v)
<1> DEFINE s == ArgOps
           p == STACK_PTR
<1>1. n \in Nat /\ p \in Nat /\ p + n < S /\ \A i \in 1 .. n : StackArgs[i] \in CellValue
  <2>1. /\ StackArgs \in Seq(Word) /\ Random \in Seq(Word) /\ p \in Nat
        /\ p + Len(StackArgs) + Len(Random) < S
    BY LoaderAssumption DEF S
  <2>2. n \in Nat /\ Len(Random) \in Nat /\ \A i \in 1 .. n : StackArgs[i] \in Word
    BY <2>1, LenProperties, ElementOfSeq
  <2>3. Word \subseteq CellValue
    BY OpTypes
  <2> HIDE DEF p
  <2> QED BY <2>1, <2>2, <2>3, Space
<1>2. s = [i \in 1 .. n |-> SetOp(p + i, StackArgs[i])]
  BY DEF ArgOps
<1> HIDE DEF s, p
<1>3. \A i \in 1 .. n : s[i] = SetOp(p + i, StackArgs[i]) /\ SetOp(p + i, StackArgs[i]) \in AnyOp
  BY <1>1, <1>2, OpTypes
<1>4. s \in Seq(AnyOp) /\ Len(s) = n
  BY <1>1, <1>2, <1>3
<1>5. ASSUME NEW v PROVE Leaves(s, Sp, v, v)
  <2>1. \A i \in 1 .. n : ~ Hits(s[i], Sp)
    BY <1>3, OpFields, HitsIs
  <2> QED BY <1>4, <2>1 DEF Leaves
<1>6. ASSUME NEW x \in Address, NEW v
      PROVE  Leaves(s, x, v, IF x - p \in 1 .. n THEN StackArgs[x - p] ELSE v)
  <2>1. S \in Nat \ {0} /\ x \in 0 .. (S - 1) /\ Address = 0 .. (S - 1)
    BY Space
  <2>2. ASSUME NEW i \in 1 .. n
        PROVE  (Hits(s[i], x) <=> x - p = i) /\ (x - p = i => Puts(s[i], x) = StackArgs[i])
    <3> DEFINE op == s[i]
               a == p + i
               k == (x - a) % S
    <3>1. op.address = a /\ op.data = <<StackArgs[i]>>
      BY <1>3, OpFields
    <3>2. At(op, x) = k /\ Len(op.data) = 1 /\ op.data[1] = StackArgs[i]
      BY <3>1 DEF At
    <3>3. a \in Address
      BY <1>1, <2>1
    <3>4. k \in 0 .. (S - 1) /\ (x >= a => k = x - a) /\ (x < a => k = (x - a) + S)
      <4> HIDE DEF a
      <4> QED BY <3>3, Distance
    <3> HIDE DEF k, op
    <3>5. k < 1 <=> x - p = i
      BY <1>1, <2>1, <3>3, <3>4
    <3>6. x - p = i => k + 1 = 1
      BY <1>1, <2>1, <3>4, <3>5
    <3> QED BY <3>2, <3>5, <3>6, HitsIs DEF op
  <2>3. CASE x - p \in 1 .. n
    <3> DEFINE j == x - p
    <3>1. Hits(s[j], x) /\ Puts(s[j], x) = StackArgs[j]
      BY <2>2, <2>3
    <3>2. ASSUME NEW i \in (j + 1) .. n PROVE ~ Hits(s[i], x)
      <4>1. i \in 1 .. n /\ x - p # i
        BY <1>1, <2>1, <2>3
      <4> QED BY <2>2, <4>1
    <3> HIDE DEF j
    <3>3. Leaves(s, x, v, StackArgs[j])
      <4>1. j \in 1 .. Len(s)
        BY <1>4, <2>3 DEF j
      <4> QED BY <1>4, <3>1, <3>2, <4>1 DEF Leaves
    <3> QED BY <2>3, <3>3 DEF j
  <2>4. CASE ~ (x - p \in 1 .. n)
    <3>1. \A i \in 1 .. n : ~ Hits(s[i], x)
      BY <2>2, <2>4
    <3>2. Leaves(s, x, v, v)
      BY <1>4, <3>1 DEF Leaves
    <3> QED BY <2>4, <3>2
  <2> QED BY <2>3, <2>4
<1> QED BY <1>4, <1>5, <1>6 DEF s, p

(* patch_stack: zeros, the stack pointer, the arguments and what the       *)
(* auxiliary vector points to.                                             *)
LEMMA StackLeaves ==
    /\ patch_stack \in Seq(AnyOp)
    /\ \A v : Leaves(patch_stack, Sp, v, STACK_PTR)
    /\ \A x \in Address : \A v : Leaves(patch_stack, x, v, StackCell(x, v))
<1> DEFINE p == STACK_PTR
           n == Len(StackArgs)
           r == Len(Random)
           a == p - 4 * L
           z == Zeros(5 * L)
           b == p + 1 + n
           opA == RangeOp(a, z, << >>)
           opC == RangeOp(b, Random, << >>)
<1>1. /\ StackArgs \in Seq(Word) /\ Random \in Seq(Word) /\ p \in Nat
      /\ 4 * L <= p /\ p + L <= S /\ p + n + r < S
  BY LoaderAssumption DEF S, L
<1>2. n \in Nat /\ r \in Nat /\ L \in Nat \ {0} /\ S \in Nat
  BY <1>1, LenProperties, Space
<1>3. Random \in Seq(CellValue) /\ << >> \in Seq(CellValue)
  BY <1>1, OpTypes, EmptySeq
<1>4. z \in Seq(CellValue) /\ Len(z) = 5 * L /\ \A i \in 1 .. (5 * L) : z[i] = 0
  <2> DEFINE d == 5 * L
  <2>1. d \in Nat
    BY <1>2
  <2> HIDE DEF d
  <2>2. Zeros(d) \in Seq(CellValue) /\ Len(Zeros(d)) = d /\ \A i \in 1 .. d : Zeros(d)[i] = 0
    BY <2>1, ZerosIs
  <2> QED BY <2>2 DEF d
<1> HIDE DEF p, n, r, z
<1>5. a \in Nat /\ a + 5 * L <= S /\ b \in Nat /\ b + r <= S
  BY <1>1, <1>2
<1> DEFINE A == <<opA>>
           B == <<PointerOp>>
           C == <<opC>>
<1>6. patch_stack = ((A \o B) \o ArgOps) \o C
  <2>1. <<opA, PointerOp>> = A \o B
    OBVIOUS
  <2>2. patch_stack = (<<opA, PointerOp>> \o ArgOps) \o C
    BY DEF patch_stack, ArgOps, p, n, z, L
  <2> QED BY <2>1, <2>2
<1>7. A \in Seq(AnyOp) /\ opA.kind = "range"
  <2> HIDE DEF a
  <2> DEFINE e == << >>
  <2>1. e \in Seq(CellValue)
    BY <1>3
  <2> HIDE DEF e
  <2>2. RangeOp(a, z, e) \in AnyOp
    BY <1>3, <1>4, <1>5, <2>1, OpTypes
  <2>3. opA \in AnyOp
    BY <2>2 DEF e
  <2> QED BY <2>3, OpTypes, OpFields
<1>8. B \in Seq(AnyOp)
  BY OpTypes
<1>9. C \in Seq(AnyOp) /\ opC.kind = "range"
  <2> HIDE DEF b
  <2> DEFINE e == << >>
  <2>1. e \in Seq(CellValue)
    BY <1>3
  <2> HIDE DEF e
  <2>2. RangeOp(b, Random, e) \in AnyOp
    BY <1>3, <1>5, <2>1, OpTypes
  <2>3. opC \in AnyOp
    BY <2>2 DEF e
  <2> QED BY <2>3, OpTypes, OpFields
<1>10. ArgOps \in Seq(AnyOp) /\ A \o B \in Seq(AnyOp) /\ (A \o B) \o ArgOps \in Seq(AnyOp)
       /\ patch_stack \in Seq(AnyOp)
  <2>1. ArgOps \in Seq(AnyOp)
    BY ArgsLeave
  <2> HIDE DEF A, B, C
  <2> QED BY <1>6, <1>7, <1>8, <1>9, <2>1, ConcatProperties
<1> HIDE DEF opA, opC
<1>11. ASSUME NEW x, NEW v0, NEW v1, NEW v2, NEW v3, NEW v4,
              Leaves(A, x, v0, v1), Leaves(B, x, v1, v2), Leaves(ArgOps, x, v2, v3),
              Leaves(C, x, v3, v4)
       PROVE  Leaves(patch_stack, x, v0, v4)
  <2> HIDE DEF A, B, C
  <2>1. Leaves(A \o B, x, v0, v2)
    BY <1>7, <1>8, <1>11, LeavesConcat
  <2>2. Leaves((A \o B) \o ArgOps, x, v0, v3)
    BY <1>10, <1>11, <2>1, LeavesConcat
  <2>3. Leaves(((A \o B) \o ArgOps) \o C, x, v0, v4)
    BY <1>9, <1>10, <1>11, <2>2, LeavesConcat
  <2> QED BY <1>6, <2>3
<1>12. ASSUME NEW v PROVE Leaves(patch_stack, Sp, v, STACK_PTR)
  <2>1. Leaves(A, Sp, v, v)
    BY <1>7, LeavesSp
  <2>2. Leaves(B, Sp, v, STACK_PTR)
    <3>1. Hits(PointerOp, Sp) /\ Puts(PointerOp, Sp) = STACK_PTR
      BY OpFields, HitsIs
    <3>2. Leaves(B, Sp, v, IF Hits(PointerOp, Sp) THEN Puts(PointerOp, Sp) ELSE v)
      BY LeavesOne
    <3> QED BY <3>1, <3>2
  <2>3. Leaves(ArgOps, Sp, STACK_PTR, STACK_PTR)
    BY ArgsLeave
  <2>4. Leaves(C, Sp, STACK_PTR, STACK_PTR)
    BY <1>9, LeavesSp
  <2> HIDE DEF A, B, C
  <2> QED BY <1>11, <2>1, <2>2, <2>3, <2>4
<1>13. ASSUME NEW x \in Address, NEW v PROVE Leaves(patch_stack, x, v, StackCell(x, v))
  <2> DEFINE i == x - p
             v1 == IF i \in (- 4 * L) .. (L - 1) THEN 0 ELSE v
             v3 == IF i \in 1 .. n THEN StackArgs[i] ELSE v1
             v4 == IF i \in (n + 1) .. (n + r) THEN Random[i - n] ELSE v3
  <2>1. x \in Int
    BY Space
  <2>2. Leaves(A, x, v, v1)
    <3>1. Leaves(<<RangeOp(a, z, << >>)>>, x, v,
                 IF x - a \in 0 .. (5 * L - 1) THEN z[x - a + 1] ELSE v)
      <4> HIDE DEF a
      <4> DEFINE m == 5 * L
      <4>1. m = Len(z) /\ a + m <= S
        BY <1>4, <1>5
      <4> HIDE DEF m
      <4>2. Leaves(<<RangeOp(a, z, << >>)>>, x, v,
                   IF x - a \in 0 .. (m - 1) THEN z[x - a + 1] ELSE v)
        BY <1>4, <1>5, <4>1, PlainRange
      <4> QED BY <4>2 DEF m
    <3>2. x - a \in 0 .. (5 * L - 1) <=> i \in (- 4 * L) .. (L - 1)
      BY <1>1, <1>2, <2>1
    <3>3. x - a \in 0 .. (5 * L - 1) => z[x - a + 1] = 0
      <4> SUFFICES ASSUME x - a \in 0 .. (5 * L - 1) PROVE z[x - a + 1] = 0
        OBVIOUS
      <4>1. x - a + 1 \in 1 .. (5 * L)
        BY <1>2, <1>5, <2>1
      <4> HIDE DEF a
      <4> QED BY <1>4, <4>1
    <3> HIDE DEF a, i
    <3> QED BY <3>1, <3>2, <3>3 DEF opA
  <2>3. Leaves(B, x, v1, v1)
    <3>1. ~ Hits(PointerOp, x)
      <4>1. At(PointerOp, x) \in Nat
        BY <1>1, <2>1, Space DEF At, PointerOp, p
      <4>2. Len(PointerOp.data) = 0
        BY OpFields
      <4> QED BY <4>1, <4>2, HitsIs
    <3>2. Leaves(B, x, v1, IF Hits(PointerOp, x) THEN Puts(PointerOp, x) ELSE v1)
      <4> HIDE DEF v1
      <4> QED BY LeavesOne
    <3> HIDE DEF v1
    <3> QED BY <3>1, <3>2
  <2>4. Leaves(ArgOps, x, v1, v3)
    <3> HIDE DEF v1
    <3> QED BY ArgsLeave DEF n, p
  <2>5. Leaves(C, x, v3, v4)
    <3> HIDE DEF v3
    <3>1. Leaves(<<RangeOp(b, Random, << >>)>>, x, v3,
                 IF x - b \in 0 .. (r - 1) THEN Random[x - b + 1] ELSE v3)
      <4> HIDE DEF b
      <4> QED BY <1>3, <1>5, PlainRange DEF r
    <3>2. x - b \in 0 .. (r - 1) <=> i \in (n + 1) .. (n + r)
      BY <1>1, <1>2, <2>1
    <3>3. x - b + 1 = i - n
      BY <1>1, <1>2, <2>1
    <3> HIDE DEF b, i
    <3> QED BY <3>1, <3>2, <3>3 DEF opC
  <2>6. Leaves(patch_stack, x, v, v4)
    <3> HIDE DEF A, B, C, v1, v3, v4
    <3> QED BY <1>11, <2>2, <2>3, <2>4, <2>5
  <2>7. StackCell(x, v) = v4
    <3> DEFINE t == StackArgs \o Random
    <3>1. Len(t) = n + r /\ \A j \in 1 .. (n + r) : t[j] = IF j <= n THEN StackArgs[j] ELSE Random[j - n]
      BY <1>1, ConcatProperties DEF n, r
    <3>2. StackCell(x, v) = IF i \in 1 .. Len(t) THEN t[i] ELSE v1
      BY DEF StackCell, p, L
    <3> HIDE DEF t, v1
    <3>3. i \in Int
      BY <1>1, <2>1
    <3> HIDE DEF i
    <3>4. CASE i \in (n + 1) .. (n + r)
      <4>1. i \in 1 .. (n + r) /\ ~ (i <= n)
        BY <1>2, <3>4
      <4> QED BY <3>1, <3>2, <3>4, <4>1
    <3>5. CASE i \in 1 .. n
      <4>1. i \in 1 .. (n + r) /\ i <= n /\ i \notin (n + 1) .. (n + r)
        BY <1>2, <3>5
      <4> QED BY <3>1, <3>2, <3>5, <4>1
    <3>6. CASE i \notin 1 .. n /\ i \notin (n + 1) .. (n + r)
      <4>1. i \notin 1 .. (n + r)
        BY <1>2, <3>3, <3>6
      <4> QED BY <3>1, <3>2, <3>6, <4>1
    <3> QED BY <3>4, <3>5, <3>6
  <2> QED BY <2>6, <2>7
<1> QED BY <1>10, <1>12, <1>13

(* One patch.                                                              *)
LEMMA PatchLeaves ==
    ASSUME elf \in Elf, NEW kind \in {"go", "stack"}, NEW s, s = PatchOps(elf, kind)
    PROVE  /\ s \in Seq(AnyOp)
           /\ Clean(s) =>
                 /\ \A v : Leaves(s, Sp, v, IF kind = "stack" THEN STACK_PTR ELSE v)
                 /\ \A x \in Address : \A v :
                       Leaves(s, x, v, IF kind = "go" THEN GoCell(x, v) ELSE StackCell(x, v))
<1>1. CASE kind = "stack"
  <2>1. s = patch_stack
    BY <1>1 DEF PatchOps
  <2> QED BY <1>1, <2>1, StackLeaves
<1>2. CASE kind = "go" /\ elf.stripped
  <2>1. s = <<FailOp>>
    BY <1>2 DEF PatchOps
  <2>2. ~ Clean(<<FailOp>>)
    BY OpFields DEF Clean
  <2> QED BY <2>1, <2>2, OpTypes
<1>3. CASE kind = "go" /\ ~ elf.stripped
  <2>1. s = FlattenSeq([i \in 1 .. Len(elf.symbols) |-> patch_go(elf.symbols[i])])
    BY <1>3 DEF PatchOps
  <2>2. s \in Seq(AnyOp) /\ (Clean(s) =>
           (\A v : Leaves(s, Sp, v, v)) /\ (\A x \in Address : \A v : Leaves(s, x, v, GoCell(x, v))))
    BY <2>1, SymbolsLeave
  <2> QED BY <1>3, <2>2
<1> QED BY <1>1, <1>2, <1>3

(* The recursion of ImageCell.                                             *)
PatchCell(a, i, v) == IF kinds[i] = "go" THEN GoCell(a, v) ELSE StackCell(a, v)
IsPatched(f, a, m) ==
    f = [i \in 0 .. m |-> IF i = 0 THEN SegmentCell(a) ELSE PatchCell(a, i, f[i - 1])]

LEMMA PatchedExists == ASSUME NEW a, NEW m \in Nat PROVE \E f : IsPatched(f, a, m)
<1> DEFINE Bad == {k \in Nat : ~ \E f : IsPatched(f, a, k)}
<1> SUFFICES ASSUME Bad # {} PROVE FALSE
  OBVIOUS
<1>1. PICK k \in Bad : \A j \in Bad : k <= j
  <2>1. Bad \subseteq Nat
    OBVIOUS
  <2> QED BY <2>1, LeastNat, Zenon
<1>2. k # 0
  <2> DEFINE g == [i \in 0 .. 0 |-> SegmentCell(a)]
  <2>1. \A i \in 0 .. 0 : i = 0
    OBVIOUS
  <2>2. g = [i \in 0 .. 0 |-> IF i = 0 THEN SegmentCell(a) ELSE PatchCell(a, i, g[i - 1])]
    BY <2>1
  <2> HIDE DEF g
  <2> QED BY <2>2 DEF IsPatched
<1>3. PICK f : IsPatched(f, a, k - 1)
  BY <1>1, <1>2
<1> DEFINE E(g, i) == IF i = 0 THEN SegmentCell(a) ELSE PatchCell(a, i, g[i - 1])
           h == [i \in 0 .. k |-> IF i < k THEN f[i] ELSE E(f, i)]
<1>4. ASSUME NEW i \in 0 .. k PROVE h[i] = E(h, i)
  <2>1. h[i] = E(f, i)
    <3>1. CASE i < k
      <4>1. i \in 0 .. (k - 1)
        BY <3>1
      <4>2. f[i] = E(f, i)
        BY <1>3, <4>1 DEF IsPatched
      <4> HIDE DEF E
      <4> QED BY <3>1, <4>2
    <3>2. CASE ~ (i < k)
      BY <3>2
    <3> QED BY <3>1, <3>2
  <2>2. i # 0 => h[i - 1] = f[i - 1]
    <3> HIDE DEF E
    <3> QED OBVIOUS
  <2> HIDE DEF h
  <2> QED BY <2>1, <2>2
<1>5. IsPatched(h, a, k)
  <2>1. h = [i \in 0 .. k |-> h[i]]
    OBVIOUS
  <2> HIDE DEF h
  <2>2. [i \in 0 .. k |-> h[i]] = [i \in 0 .. k |-> E(h, i)]
    <3> HIDE DEF E
    <3> QED BY <1>4
  <2> QED BY <2>1, <2>2 DEF IsPatched
<1> HIDE DEF h
<1> QED BY <1>5

LEMMA ImageCellIs ==
    ASSUME NEW a, NEW n \in Nat, n = Len(kinds)
    PROVE  \E f : /\ f[0] = SegmentCell(a) /\ f[n] = ImageCell(a)
                  /\ \A i \in 1 .. n : f[i] = PatchCell(a, i, f[i - 1])
<1> DEFINE Eqn(f) == f = [i \in 0 .. Len(kinds) |->
                             IF i = 0 THEN SegmentCell(a)
                             ELSE IF kinds[i] = "go" THEN GoCell(a, f[i - 1])
                             ELSE StackCell(a, f[i - 1])]
<1>1. ImageCell(a) = (CHOOSE f : Eqn(f))[Len(kinds)]
  BY Zenon DEF ImageCell
<1>2. \A f : Eqn(f) <=> IsPatched(f, a, n)
  BY DEF IsPatched, PatchCell
<1> HIDE DEF Eqn
<1>3. \E f : Eqn(f)
  BY <1>2, PatchedExists
<1>4. PICK f : IsPatched(f, a, n) /\ ImageCell(a) = f[n]
  BY <1>1, <1>2, <1>3
<1>5. \A i \in 0 .. n : f[i] = IF i = 0 THEN SegmentCell(a) ELSE PatchCell(a, i, f[i - 1])
  BY <1>4 DEF IsPatched
<1>6. 0 \in 0 .. n /\ \A i \in 1 .. n : i \in 0 .. n /\ i # 0
  OBVIOUS
<1> QED BY <1>4, <1>5, <1>6

(* Everything load-elf writes, if nothing is refused, makes the image.     *)
LEMMA LoadLeaves ==
    ASSUME elf \in Elf, kinds \in PatchKinds, Clean(LoadOps(elf, kinds))
    PROVE  /\ Leaves(LoadOps(elf, kinds), Sp, 0, ImageCpu.sp)
           /\ \A x \in Address : Leaves(LoadOps(elf, kinds), x, 0, ImageCell(x))
<1> DEFINE s == FlattenSeq([i \in 1 .. Len(elf.segments) |-> load_elf(elf.segments[i])])
           n == Len(kinds)
           tt == [i \in 1 .. n |-> PatchOps(elf, kinds[i])]
           t == FlattenSeq(tt)
<1>1. LoadOps(elf, kinds) = s \o t
  BY DEF LoadOps
<1>2. s \in Seq(AnyOp) /\ (Clean(s) => Leaves(s, Sp, 0, 0)
      /\ \A x \in Address : Leaves(s, x, 0, SegmentCell(x)))
  <2> DEFINE r == s
  <2>1. r = FlattenSeq([i \in 1 .. Len(elf.segments) |-> load_elf(elf.segments[i])])
    OBVIOUS
  <2> HIDE DEF r
  <2>2. r \in Seq(AnyOp) /\ (Clean(r) => Leaves(r, Sp, 0, 0)
        /\ \A x \in Address : Leaves(r, x, 0, SegmentCell(x)))
    BY <2>1, SegmentsLeave
  <2> QED BY <2>2 DEF r
<1>3. kinds \in Seq({"go", "stack"})
  BY LoaderAssumption
<1>4. n \in Nat /\ DOMAIN kinds = 1 .. n /\ \A i \in 1 .. n : kinds[i] \in {"go", "stack"}
  BY <1>3, LenProperties, ElementOfSeq
<1> HIDE DEF s, n
<1>5. \A i \in 1 .. n : tt[i] = PatchOps(elf, kinds[i]) /\ tt[i] \in Seq(AnyOp)
  BY <1>4, PatchLeaves
<1>6. tt \in Seq(Seq(AnyOp)) /\ Len(tt) = n
  BY <1>4, <1>5
<1> HIDE DEF tt
<1>7. t \in Seq(AnyOp) /\ (Clean(t) => \A i \in 1 .. n : Clean(tt[i]))
  BY <1>6, FlattenLeaves
<1>8. Clean(s) /\ Clean(t)
  <2> HIDE DEF t
  <2> QED BY <1>1, <1>2, <1>7, CleanConcat
<1>9. ASSUME NEW i \in 1 .. n
      PROVE  /\ \A v : Leaves(tt[i], Sp, v, IF kinds[i] = "stack" THEN STACK_PTR ELSE v)
             /\ \A x \in Address : \A v : Leaves(tt[i], x, v, PatchCell(x, i, v))
  BY <1>4, <1>5, <1>7, <1>8, PatchLeaves DEF PatchCell
<1>10. Leaves(t, Sp, 0, ImageCpu.sp)
  <2> DEFINE P == {i \in 1 .. n : kinds[i] = "stack"}
             e == [i \in 1 .. n |-> STACK_PTR]
  <2>1. ASSUME NEW i \in 1 .. n, NEW u PROVE Leaves(tt[i], Sp, u, IF i \in P THEN e[i] ELSE u)
    BY <1>9
  <2>2. P \in SUBSET (1 .. n)
    OBVIOUS
  <2>3. P # {} => e[Max(P)] = STACK_PTR
    <3> DEFINE q == Max(P)
    <3>1. P # {} => q \in 1 .. n
      BY <1>4, <2>2, MaxIn
    <3> HIDE DEF q
    <3> QED BY <3>1 DEF q
  <2>4. ImageCpu.sp = IF P = {} THEN 0 ELSE STACK_PTR
    <3>1. "stack" \in ToSet(kinds) <=> P # {}
      BY <1>4 DEF ToSet
    <3>2. ImageCpu.sp = IF "stack" \in ToSet(kinds) THEN STACK_PTR ELSE 0
      BY DEF ImageCpu
    <3> QED BY <3>1, <3>2
  <2> HIDE DEF P, e
  <2>5. Leaves(t, Sp, 0, IF P = {} THEN 0 ELSE e[Max(P)])
    BY <1>6, <2>1, <2>2, FlattenLast
  <2> QED BY <2>3, <2>4, <2>5
<1>11. ASSUME NEW x \in Address PROVE Leaves(t, x, SegmentCell(x), ImageCell(x))
  <2>1. PICK f : /\ f[0] = SegmentCell(x) /\ f[n] = ImageCell(x)
                 /\ \A i \in 1 .. n : f[i] = PatchCell(x, i, f[i - 1])
    BY <1>4, ImageCellIs DEF n
  <2>2. \A i \in 1 .. n : Leaves(tt[i], x, f[i - 1], f[i])
    BY <1>9, <2>1
  <2>3. Leaves(t, x, f[0], f[n])
    BY <1>6, <2>2, FlattenLeaves
  <2> QED BY <2>1, <2>3
<1> HIDE DEF t
<1>12. Leaves(s \o t, Sp, 0, ImageCpu.sp)
  BY <1>2, <1>7, <1>8, <1>10, LeavesConcat
<1>13. ASSUME NEW x \in Address PROVE Leaves(s \o t, x, 0, ImageCell(x))
  BY <1>2, <1>7, <1>8, <1>11, LeavesConcat
<1> QED BY <1>1, <1>12, <1>13

-----------------------------------------------------------------------------
(* The cell at x once the range in progress is written.                    *)
Pending(x) ==
    IF range.busy /\ At(range, x) < Len(range.data) THEN range.data[At(range, x) + 1]
    ELSE CellAt(x)

DumpedData ==
    [p \in PageIndex |-> IF p \in DOMAIN dumped.pages THEN dumped.pages[p] ELSE ZeroData]

Entry == [pc |-> elf.entry, next_pc |-> (elf.entry + 1) % SPACE, sp |-> cpu.sp]

(* Until the dump the writes that are left make the image of what is       *)
(* there; then memory is the image, and so is what every hash was taken    *)
(* of.                                                                     *)
ImageInv ==
    /\ elf \in Elf /\ kinds \in PatchKinds
    /\ range.busy => Len(range.data) <= S
    /\ phase = "writing" => cpu = Entry
    /\ phase = "writing" /\ Clean(ops) =>
           /\ Leaves(ops, Sp, cpu.sp, ImageCpu.sp)
           /\ \A x \in Address : Leaves(ops, x, Pending(x), ImageCell(x))
    /\ phase \in {"dumped", "ended", "witness"} => FlatData = Image /\ cpu = ImageCpu
    /\ dumped.written => DumpedData = Image /\ dumped.cpu = ImageCpu
    /\ phase = "failed" => ~ dumped.written
    /\ logged \in Seq({<<MemoryTree(Image)[1], ImageCpu>>})

(* The image depends on the file and the patches alone.                    *)
LEMMA ImageSame ==
    ASSUME elf' = elf, kinds' = kinds
    PROVE  /\ \A a : ImageCell(a)' = ImageCell(a)
           /\ Image' = Image /\ ImageCpu' = ImageCpu
<1>1. \A a : SegmentCell(a)' = SegmentCell(a)
  BY DEF SegmentCell
<1>2. \A a, v : GoCell(a, v)' = GoCell(a, v)
  BY DEF GoCell
<1>3. \A a, v : StackCell(a, v)' = StackCell(a, v)
  BY DEF StackCell
<1>4. ASSUME NEW a PROVE ImageCell(a)' = ImageCell(a)
  BY <1>1, <1>2, <1>3 DEF ImageCell
<1>5. Image' = Image
  BY <1>4 DEF Image
<1>6. ImageCpu' = ImageCpu
  BY DEF ImageCpu
<1> QED BY <1>4, <1>5, <1>6

(* Memory cell by cell.                                                    *)
LEMMA SameParts ==
    ASSUME NEW x \in Address, NEW y \in Address
    PROVE  x = y <=> PageOf(x) = PageOf(y) /\ OffsetOf(x) = OffsetOf(y)
BY Parts

LEMMA CellStored ==
    ASSUME IInv, NEW address \in Touched, NEW value \in Word, SetMemory(address, value),
           NEW x \in Address
    PROVE  CellAt(x)' = IF x = address THEN value ELSE CellAt(x)
<1> DEFINE p == PageOf(address)
           o == OffsetOf(address)
           page == IF p \in Resident THEN pages[p] ELSE DefaultPage
           q == WithData(PageInvalidate(page, o), [page.data EXCEPT ![o] = value])
<1>1. address \in Address /\ p \in PageIndex /\ o \in PageOffset
  BY CallerAssumption, AddressParts
<1>2. StorePage(p, q)
  BY DEF SetMemory
<1>3. q.data = [page.data EXCEPT ![o] = value]
  BY DEF WithData
<1>4. FlatData[p] = page.data
  BY <1>1, FlatOfPage
<1>5. x = address <=> PageOf(x) = p /\ OffsetOf(x) = o
  BY <1>1, SameParts
<1>6. PageOf(x) \in PageIndex /\ OffsetOf(x) \in PageOffset
  BY AddressParts
<1> HIDE DEF q, page, p, o
<1>7. FlatData' = [FlatData EXCEPT ![p] = q.data]
  BY <1>1, <1>2, FlatReplace DEF IInv
<1>8. FlatData' = [FlatData EXCEPT ![p] = [FlatData[p] EXCEPT ![o] = value]]
  BY <1>3, <1>4, <1>7
<1>9. CellAt(x)' = FlatData'[PageOf(x)][OffsetOf(x)] /\ CellAt(x) = FlatData[PageOf(x)][OffsetOf(x)]
  BY DEF CellAt
<1>10. FlatData \in [PageIndex -> [PageOffset -> Word]]
  BY FlatType
<1> QED BY <1>1, <1>5, <1>6, <1>8, <1>9, <1>10

LEMMA CellTouched ==
    ASSUME IInv, NEW n \in Nat, RangeTouch(n), OffsetOf(range.address) + n <= L,
           NEW x \in Address, NEW k, k = At(range, x)
    PROVE  CellAt(x)' = IF k < n THEN range.data[k + 1] ELSE CellAt(x)
<1> DEFINE a == range.address
           p == PageOf(a)
           o == OffsetOf(a)
           page == IF p \in Resident THEN pages[p] ELSE DefaultPage
           data == [i \in PageOffset |-> IF i \in o .. (o + n - 1) THEN range.data[i - o + 1]
                                         ELSE page.data[i]]
           q == WithData(PageInvalidateFull(page), data)
<1>1. a \in Address
  BY DEF IInv, TypeOK
<1>2. p \in PageIndex /\ o \in PageOffset
  BY <1>1, AddressParts
<1>3. StorePage(p, q)
  BY DEF RangeTouch
<1>4. q.data = data
  BY DEF WithData
<1>5. FlatData[p] = page.data
  BY <1>2, FlatOfPage
<1>6. /\ k < n <=> PageOf(x) = p /\ OffsetOf(x) \in o .. (o + n - 1)
      /\ k < n => OffsetOf(x) - o + 1 = k + 1
  <2>1. k = (x - a) % S
    BY DEF At
  <2> HIDE DEF a
  <2> QED BY <1>1, <2>1, ChunkCells DEF a
<1>7. PageOf(x) \in PageIndex /\ OffsetOf(x) \in PageOffset
  BY AddressParts
<1> HIDE DEF q, page, p, o
<1>8. FlatData' = [FlatData EXCEPT ![p] = q.data]
  BY <1>2, <1>3, FlatReplace DEF IInv
<1>9. CellAt(x)' = FlatData'[PageOf(x)][OffsetOf(x)] /\ CellAt(x) = FlatData[PageOf(x)][OffsetOf(x)]
  BY DEF CellAt
<1>10. FlatData \in [PageIndex -> [PageOffset -> Word]]
  BY FlatType
<1> DEFINE y == PageOf(x)
           i == OffsetOf(x)
<1>11. data[i] = IF i \in o .. (o + n - 1) THEN range.data[i - o + 1] ELSE FlatData[p][i]
  BY <1>5, <1>7
<1> HIDE DEF data, y, i
<1>12. CellAt(x)' = IF y = p THEN data[i] ELSE CellAt(x)
  BY <1>2, <1>4, <1>7, <1>8, <1>9, <1>10 DEF y, i
<1> QED BY <1>6, <1>9, <1>11, <1>12 DEF y, i

(* A chunk makes pending cells of the range cells of memory, and leaves    *)
(* the rest pending.                                                       *)
LEMMA Advance ==
    ASSUME NEW a \in Address, NEW n \in Nat, n < S, NEW b, b = (a + n) % S, NEW x \in Address,
           NEW k, k = (x - a) % S, NEW j, j = (x - b) % S
    PROVE  /\ b \in Address /\ k \in 0 .. (S - 1)
           /\ j = IF k < n THEN (k - n) + S ELSE k - n
<1>1. S \in Nat \ {0} /\ x \in 0 .. (S - 1) /\ a \in 0 .. (S - 1) /\ Address = 0 .. (S - 1)
  BY Space
<1>2. b = IF a + n < S THEN a + n ELSE (a + n) - S
  <2> DEFINE y == a + n
  <2>1. y \in 0 .. (2 * S - 1)
    BY <1>1
  <2> HIDE DEF y
  <2>2. y % S = IF y < S THEN y ELSE y - S
    BY <2>1, Wrap
  <2> QED BY <2>2 DEF y
<1>3. b \in Address
  BY <1>1, <1>2
<1>4. k \in 0 .. (S - 1) /\ (x >= a => k = x - a) /\ (x < a => k = (x - a) + S)
  BY Distance
<1>5. j \in 0 .. (S - 1) /\ (x >= b => j = x - b) /\ (x < b => j = (x - b) + S)
  BY <1>3, Distance
<1>6. b \in Int
  BY <1>1, <1>3
<1>7. j = IF k < n THEN (k - n) + S ELSE k - n
  BY <1>1, <1>2, <1>4, <1>5, <1>6
<1> QED BY <1>3, <1>4, <1>7

LEMMA ChunkPending ==
    ASSUME LoaderInv, ImageInv, ReadChunk, NEW x \in Address
    PROVE  Pending(x)' = Pending(x) /\ range'.busy /\ Len(range'.data) <= S
<1> DEFINE n == ReadSize
           a == range.address
           d == range.data
           m == Len(d)
           b == (a + n) % S
           t == SubSeq(d, n + 1, m)
           k == At(range, x)
           j == (x - b) % S
<1>1. /\ a \in Address /\ d \in Seq(Word) /\ m <= S /\ range.busy /\ IInv
      /\ range \in [busy : BOOLEAN, address : Address, data : Seq(Word)]
  BY DEF LoaderInv, IInv, TypeOK, ImageInv, ReadChunk
<1>2. RangeChunk(n)
  BY DEF ReadChunk
<1>3. n \in 1 .. m /\ OffsetOf(a) + n <= L /\ RangeTouch(n)
  BY <1>2 DEF RangeChunk, L
<1>4. range' = [range EXCEPT !.address = b, !.data = t]
  BY <1>2 DEF RangeChunk, S, SPACE
<1>5. m \in Nat /\ n \in Nat /\ n >= 1 /\ n <= m /\ S \in Nat /\ L \in Nat /\ n <= L /\ L < S
      /\ OffsetOf(a) \in Nat
  <2>1. m \in Nat /\ S \in Nat /\ L \in Nat \ {0} /\ S = L * M /\ M \in Nat \ {0, 1}
    BY <1>1, LenProperties, Space, MemoryNodes
  <2>2. L * M >= L * 2 /\ L * 2 = L + L
    BY <2>1
  <2>3. OffsetOf(a) \in 0 .. (L - 1)
    BY <1>1, Parts
  <2> HIDE DEF n, m, a
  <2> QED BY <1>3, <2>1, <2>2, <2>3
<1>6. Len(t) = m - n /\ \A i \in 1 .. (m - n) : t[i] = d[n + i]
  <2> HIDE DEF n
  <2>1. Len(t) = m - n
    BY <1>1, <1>5, SubSeqProperties
  <2>2. ASSUME NEW i \in 1 .. (m - n) PROVE t[i] = d[n + i]
    <3>1. i \in 1 .. m - (n + 1) + 1 /\ n + 1 + i - 1 = n + i
      BY <1>5
    <3>2. t[i] = d[n + 1 + i - 1]
      BY <1>1, <1>5, <3>1, SubSeqProperties
    <3> QED BY <3>1, <3>2
  <2> QED BY <2>1, <2>2
<1>7. range'.busy /\ range'.address = b /\ range'.data = t
  BY <1>1, <1>4
<1>8. k = (x - a) % S /\ At(range, x)' = j
  BY <1>7 DEF At
<1>9. k \in 0 .. (S - 1) /\ j = IF k < n THEN (k - n) + S ELSE k - n
  <2> HIDE DEF n, a
  <2>1. n < S /\ b = (a + n) % S /\ j = (x - b) % S
    BY <1>5
  <2>2. a \in Address /\ n \in Nat /\ x \in Address /\ k = (x - a) % S
    BY <1>1, <1>5, <1>8
  <2> HIDE DEF b, j, k
  <2> QED BY ONLY <2>1, <2>2, Advance
<1>10. CellAt(x)' = IF k < n THEN d[k + 1] ELSE CellAt(x)
  BY <1>1, <1>3, <1>5, CellTouched
<1>11. Pending(x)' = IF j < Len(t) THEN t[j + 1] ELSE CellAt(x)'
  BY <1>7, <1>8 DEF Pending
<1>12. Pending(x) = IF k < m THEN d[k + 1] ELSE CellAt(x)
  BY <1>1 DEF Pending
<1> HIDE DEF n, a, d, m, t, k, j
<1>13. CASE k < n
  <2>1. ~ (j < Len(t)) /\ k < m
    BY <1>1, <1>5, <1>6, <1>9, <1>13
  <2> QED BY <1>1, <1>5, <1>6, <1>7, <1>10, <1>11, <1>12, <1>13, <2>1
<1>14. CASE ~ (k < n)
  <2>1. j = k - n /\ (j < Len(t) <=> k < m) /\ k \in Nat
    BY <1>5, <1>6, <1>9, <1>14
  <2>2. k < m => t[j + 1] = d[k + 1]
    <3> SUFFICES ASSUME k < m PROVE t[j + 1] = d[k + 1]
      OBVIOUS
    <3>1. j + 1 \in 1 .. (m - n) /\ n + (j + 1) = k + 1
      BY <1>5, <1>14, <2>1
    <3> QED BY <1>6, <3>1
  <2>3. Pending(x)' = Pending(x)
    BY <1>10, <1>11, <1>12, <1>14, <2>1, <2>2
  <2>4. Len(t) <= S
    BY <1>1, <1>5, <1>6
  <2> QED BY <1>7, <2>3, <2>4
<1> QED BY <1>13, <1>14

(* A step of load-elf that goes on writing.                                *)
LEMMA StaysWriting ==
    ASSUME LoaderInv, ImageInv, phase = "writing", phase' = "writing",
           UNCHANGED <<elf, kinds, dumped, logged>>,
           range'.busy => Len(range'.data) <= S,
           cpu' = [Entry EXCEPT !.sp = cpu'.sp],
           Clean(ops') => /\ Leaves(ops', Sp, cpu'.sp, ImageCpu.sp)
                          /\ \A x \in Address : Leaves(ops', x, Pending(x)', ImageCell(x))
    PROVE  ImageInv'
<1>1. ~ dumped.written
  BY DEF LoaderInv, LoadInv
<1>2. Image' = Image /\ ImageCpu' = ImageCpu /\ \A a : ImageCell(a)' = ImageCell(a)
  BY ImageSame
<1>3. (elf \in Elf /\ kinds \in PatchKinds)'
  BY DEF ImageInv
<1>4. cpu' = Entry'
  BY DEF Entry
<1>5. (logged \in Seq({<<MemoryTree(Image)[1], ImageCpu>>}))'
  BY <1>2 DEF ImageInv
<1>6. (Clean(ops) => /\ Leaves(ops, Sp, cpu.sp, ImageCpu.sp)
                     /\ \A x \in Address : Leaves(ops, x, Pending(x), ImageCell(x)))'
  BY <1>2
<1> QED BY <1>1, <1>3, <1>4, <1>5, <1>6 DEF ImageInv

(* The write at the head is done.                                          *)
LEMMA WriteStep ==
    ASSUME LoaderInv, ImageInv, NEW kind, Writing(kind), kind # "fail", Clean(ops')
    PROVE  /\ Leaves(ops', Sp, IF kind = "pointer" THEN STACK_PTR ELSE cpu.sp, ImageCpu.sp)
           /\ \A x \in Address :
                 Leaves(ops', x, IF Hits(Head(ops), x) THEN Puts(Head(ops), x) ELSE CellAt(x),
                        ImageCell(x))
<1> DEFINE op == Head(ops)
<1>1. /\ ops \in Seq(LoaderOp) /\ ops # << >> /\ op.kind = kind /\ ops' = Tail(ops)
      /\ phase = "writing" /\ ~ range.busy
  BY DEF LoaderInv, LoadInv, Writing
<1>2. Clean(ops)
  BY <1>1, CleanTail
<1>3. Leaves(ops, Sp, cpu.sp, ImageCpu.sp) /\ \A x \in Address : Leaves(ops, x, Pending(x), ImageCell(x))
  BY <1>1, <1>2 DEF ImageInv
<1>4. \A x : Pending(x) = CellAt(x)
  BY <1>1 DEF Pending
<1>5. \A x \in Address : Leaves(ops, x, CellAt(x), ImageCell(x))
  BY <1>3, <1>4
<1> HIDE DEF op
<1>6. Leaves(Tail(ops), Sp, IF Hits(op, Sp) THEN Puts(op, Sp) ELSE cpu.sp, ImageCpu.sp)
  BY <1>1, <1>3, LeavesTail DEF op
<1>7. ASSUME NEW x \in Address
      PROVE  Leaves(Tail(ops), x, IF Hits(op, x) THEN Puts(op, x) ELSE CellAt(x), ImageCell(x))
  BY <1>1, <1>5, LeavesTail DEF op
<1>8. (Hits(op, Sp) <=> kind = "pointer") /\ Puts(op, Sp) = STACK_PTR
  BY <1>1, HitsIs
<1> QED BY <1>1, <1>6, <1>7, <1>8 DEF op

LEMMA WritingSteps ==
    ASSUME LoaderInv, ImageInv, BeginRange \/ ReadChunk \/ EndRange \/ StoreWord \/ SetStackPointer
    PROVE  ImageInv'
<1>0. LoadInv /\ IInv /\ S \in Nat \ {0}
  BY Space DEF LoaderInv
<1>1. CASE BeginRange
  <2> DEFINE op == Head(ops)
  <2>1. /\ Writing("range") /\ UNCHANGED <<elf, kinds, cpu, phase, dumped, logged, pages>>
        /\ range' = [busy |-> TRUE, address |-> op.address, data |-> op.data]
    BY <1>1 DEF BeginRange, RangeCall
  <2>2. phase = "writing" /\ op.data \in RangeData
    BY <1>0, <2>1, HeadOp
  <2>3. Len(op.data) <= S
    BY <2>2, LoaderAssumption DEF S
  <2>4. range'.busy /\ range'.address = op.address /\ range'.data = op.data
    BY <2>1
  <2>5. FlatData' = FlatData
    BY <2>1 DEF FlatData, Resident
  <2> HIDE DEF op
  <2>6. ASSUME NEW x \in Address
        PROVE  Pending(x)' = IF Hits(op, x) THEN Puts(op, x) ELSE CellAt(x)
    <3>1. At(range, x)' = At(op, x)
      BY <2>4 DEF At
    <3>2. CellAt(x)' = CellAt(x)
      BY <2>5 DEF CellAt
    <3>3. Pending(x)' = IF At(op, x) < Len(op.data) THEN op.data[At(op, x) + 1] ELSE CellAt(x)
      BY <2>4, <3>1, <3>2 DEF Pending
    <3> QED BY <3>3, HitsIs
  <2>7. ASSUME Clean(ops')
        PROVE  /\ Leaves(ops', Sp, cpu'.sp, ImageCpu.sp)
               /\ \A x \in Address : Leaves(ops', x, Pending(x)', ImageCell(x))
    <3> DEFINE kind == "range"
    <3>1. Writing(kind) /\ kind # "fail" /\ kind # "pointer"
      BY <2>1
    <3> HIDE DEF kind
    <3>2. /\ Leaves(ops', Sp, cpu.sp, ImageCpu.sp)
          /\ \A x \in Address :
                Leaves(ops', x, IF Hits(op, x) THEN Puts(op, x) ELSE CellAt(x), ImageCell(x))
      BY <2>7, <3>1, WriteStep DEF op
    <3> QED BY <2>1, <2>6, <3>2
  <2>8. cpu' = [Entry EXCEPT !.sp = cpu'.sp]
    BY <2>1, <2>2 DEF ImageInv, Entry
  <2> QED BY <2>1, <2>2, <2>3, <2>4, <2>7, <2>8, StaysWriting
<1>2. CASE ReadChunk
  <2>1. range.busy /\ UNCHANGED <<elf, kinds, ops, cpu, phase, dumped, logged>>
    BY <1>2 DEF ReadChunk
  <2>2. phase = "writing"
    BY <1>0, <2>1 DEF LoadInv
  <2>3. \A x \in Address : Pending(x)' = Pending(x) /\ Len(range'.data) <= S
    BY <1>2, ChunkPending
  <2>4. Len(range'.data) <= S
    BY <2>3, ZeroAddress
  <2>5. ASSUME Clean(ops')
        PROVE  /\ Leaves(ops', Sp, cpu'.sp, ImageCpu.sp)
               /\ \A x \in Address : Leaves(ops', x, Pending(x)', ImageCell(x))
    BY <2>1, <2>2, <2>3, <2>5 DEF ImageInv
  <2>6. cpu' = [Entry EXCEPT !.sp = cpu'.sp]
    BY <2>1, <2>2 DEF ImageInv, Entry
  <2> QED BY <2>1, <2>2, <2>4, <2>5, <2>6, StaysWriting
<1>3. CASE EndRange
  <2>1. /\ range.busy /\ ReadSize = 0 /\ RangeTouch(0) /\ range' = NoCall
        /\ UNCHANGED <<elf, kinds, ops, cpu, phase, dumped, logged>>
    BY <1>3 DEF EndRange, loadVars
  <2>2. phase = "writing"
    BY <1>0, <2>1 DEF LoadInv
  <2>3. range.data = << >> /\ range.address \in Address
    BY <1>0, <2>1, ReadFits DEF IInv, TypeOK
  <2>4. ~ range'.busy
    BY <2>1 DEF NoCall
  <2>5. ASSUME NEW x \in Address PROVE Pending(x)' = Pending(x)
    <3> DEFINE k == At(range, x)
               n == 0
    <3>1. k \in Nat
      BY <1>0, <2>3, Space DEF At
    <3>2. OffsetOf(range.address) + n <= L
      BY <2>3, Parts, Space
    <3>3. n \in Nat /\ RangeTouch(n) /\ ~ (k < n)
      BY <2>1, <3>1
    <3> HIDE DEF n, k
    <3>4. CellAt(x)' = IF k < n THEN range.data[k + 1] ELSE CellAt(x)
      BY <1>0, <3>2, <3>3, CellTouched DEF k
    <3>5. ~ (k < Len(range.data))
      BY <2>3, <3>1
    <3>6. Pending(x) = CellAt(x)
      BY <3>5 DEF Pending, k
    <3>7. Pending(x)' = CellAt(x)'
      BY <2>4 DEF Pending
    <3> QED BY <3>3, <3>4, <3>6, <3>7
  <2>6. ASSUME Clean(ops')
        PROVE  /\ Leaves(ops', Sp, cpu'.sp, ImageCpu.sp)
               /\ \A x \in Address : Leaves(ops', x, Pending(x)', ImageCell(x))
    BY <2>1, <2>2, <2>5, <2>6 DEF ImageInv
  <2>7. cpu' = [Entry EXCEPT !.sp = cpu'.sp]
    BY <2>1, <2>2 DEF ImageInv, Entry
  <2> QED BY <2>1, <2>2, <2>4, <2>6, <2>7, StaysWriting
<1>4. CASE StoreWord
  <2> DEFINE op == Head(ops)
             a == op.address
             v == op.data[1]
  <2>1. /\ Writing("set") /\ SetMemory(a, v) /\ range' = range
        /\ UNCHANGED <<elf, kinds, cpu, phase, dumped, logged>>
    BY <1>4 DEF StoreWord, SetMemory
  <2>2. phase = "writing" /\ a \in Touched /\ v \in Word /\ ~ range.busy
    BY <1>0, <2>1, HeadOp
  <2>3. a \in Address /\ Len(op.data) = 1
    <3>1. ops \in Seq(LoaderOp) /\ ops # << >> /\ op.kind = "set"
      BY <1>0, <2>1 DEF LoadInv, Writing
    <3>2. op \in LoaderOp
      BY <3>1, HeadTailProperties
    <3> HIDE DEF op
    <3>3. op \in [kind : {"set"}, address : Touched, data : {<<w>> : w \in Word}, first : {0}]
      BY <3>1, <3>2 DEF LoaderOp, PointerOp, FailOp
    <3>4. op.data \in {<<w>> : w \in Word}
      BY <3>3
    <3> QED BY <2>2, <3>4, CallerAssumption
  <2> HIDE DEF op
  <2>4. ASSUME NEW x \in Address
        PROVE  Pending(x)' = IF Hits(op, x) THEN Puts(op, x) ELSE CellAt(x)
    <3> DEFINE k == At(op, x)
    <3>1. k \in 0 .. (S - 1) /\ (x >= a => k = x - a) /\ (x < a => k = (x - a) + S)
      <4>1. k = (x - a) % S
        BY DEF At
      <4> HIDE DEF k, a
      <4> QED BY <2>3, <4>1, Distance
    <3>2. S \in Nat /\ x \in 0 .. (S - 1) /\ a \in 0 .. (S - 1)
      BY <2>3, Space
    <3> HIDE DEF a, v, k
    <3>3. (k < 1 <=> x = a) /\ (k < 1 => k + 1 = 1)
      BY <3>1, <3>2
    <3>4. (Hits(op, x) <=> x = a) /\ (x = a => Puts(op, x) = v)
      <4>1. (Hits(op, x) <=> k < 1) /\ Puts(op, x) = op.data[k + 1]
        BY <2>3, HitsIs DEF k
      <4> QED BY <3>3, <4>1 DEF v
    <3>5. CellAt(x)' = IF x = a THEN v ELSE CellAt(x)
      BY <1>0, <2>1, <2>2, CellStored
    <3>6. Pending(x)' = CellAt(x)'
      BY <2>1, <2>2 DEF Pending
    <3> QED BY <3>4, <3>5, <3>6
  <2>5. ASSUME Clean(ops')
        PROVE  /\ Leaves(ops', Sp, cpu'.sp, ImageCpu.sp)
               /\ \A x \in Address : Leaves(ops', x, Pending(x)', ImageCell(x))
    <3> DEFINE kind == "set"
    <3>1. Writing(kind) /\ kind # "fail" /\ kind # "pointer"
      BY <2>1
    <3> HIDE DEF kind
    <3>2. /\ Leaves(ops', Sp, cpu.sp, ImageCpu.sp)
          /\ \A x \in Address :
                Leaves(ops', x, IF Hits(op, x) THEN Puts(op, x) ELSE CellAt(x), ImageCell(x))
      BY <2>5, <3>1, WriteStep DEF op
    <3> QED BY <2>1, <2>4, <3>2
  <2>6. cpu' = [Entry EXCEPT !.sp = cpu'.sp]
    BY <2>1, <2>2 DEF ImageInv, Entry
  <2>7. range'.busy => Len(range'.data) <= S
    BY <2>1, <2>2
  <2> QED BY <2>1, <2>2, <2>5, <2>6, <2>7, StaysWriting
<1>5. CASE SetStackPointer
  <2> DEFINE op == Head(ops)
  <2>1. /\ Writing("pointer") /\ cpu' = [cpu EXCEPT !.sp = STACK_PTR]
        /\ UNCHANGED <<pages, range, elf, kinds, phase, dumped, logged>>
    BY <1>5 DEF SetStackPointer, vars
  <2>2. phase = "writing" /\ ~ range.busy /\ ops \in Seq(LoaderOp) /\ ops # << >> /\ op.kind = "pointer"
    BY <1>0, <2>1 DEF LoadInv, Writing
  <2>3. op.data = << >> /\ op.address \in Int
    <3>1. op \in LoaderOp
      BY <2>2, HeadTailProperties
    <3> HIDE DEF op
    <3>2. op = PointerOp
      BY <2>2, <3>1 DEF LoaderOp, FailOp
    <3> QED BY <3>2, LoaderAssumption DEF PointerOp
  <2> HIDE DEF op
  <2>4. cpu' = [Entry EXCEPT !.sp = STACK_PTR] /\ cpu'.sp = STACK_PTR
    BY <2>1, <2>2 DEF ImageInv, Entry
  <2>5. FlatData' = FlatData
    BY <2>1 DEF FlatData, Resident
  <2>6. ASSUME NEW x \in Address
        PROVE  Pending(x)' = IF Hits(op, x) THEN Puts(op, x) ELSE CellAt(x)
    <3>1. At(op, x) \in Nat
      BY <2>3, Space DEF At
    <3>2. ~ Hits(op, x)
      BY <2>3, <3>1, HitsIs
    <3>3. Pending(x)' = CellAt(x)
      BY <2>1, <2>2, <2>5 DEF Pending, CellAt
    <3> QED BY <3>2, <3>3
  <2>7. ASSUME Clean(ops')
        PROVE  /\ Leaves(ops', Sp, cpu'.sp, ImageCpu.sp)
               /\ \A x \in Address : Leaves(ops', x, Pending(x)', ImageCell(x))
    <3> DEFINE kind == "pointer"
    <3>1. Writing(kind) /\ kind # "fail" /\ kind = "pointer"
      BY <2>1
    <3> HIDE DEF kind
    <3>2. /\ Leaves(ops', Sp, STACK_PTR, ImageCpu.sp)
          /\ \A x \in Address :
                Leaves(ops', x, IF Hits(op, x) THEN Puts(op, x) ELSE CellAt(x), ImageCell(x))
      BY <2>7, <3>1, WriteStep DEF op
    <3> QED BY <2>4, <2>6, <3>2
  <2>8. range'.busy => Len(range'.data) <= S
    BY <2>1, <2>2
  <2>9. cpu' = [Entry EXCEPT !.sp = cpu'.sp]
    BY <2>4
  <2> QED BY <2>1, <2>2, <2>7, <2>8, <2>9, StaysWriting
<1> QED BY <1>1, <1>2, <1>3, <1>4, <1>5

(* A step that is not one of the writing of load-elf.                      *)
LEMMA StaysLoaded ==
    ASSUME LoaderInv, ImageInv, phase' # "writing", UNCHANGED <<elf, kinds>>, ~ range'.busy,
           phase' \in {"dumped", "ended", "witness"} => FlatData' = Image /\ cpu' = ImageCpu,
           dumped'.written => DumpedData' = Image /\ dumped'.cpu = ImageCpu,
           phase' = "failed" => ~ dumped'.written,
           logged' \in Seq({<<MemoryTree(Image)[1], ImageCpu>>})
    PROVE  ImageInv'
<1>1. Image' = Image /\ ImageCpu' = ImageCpu
  BY ImageSame
<1>2. (logged \in Seq({<<MemoryTree(Image)[1], ImageCpu>>}))'
  BY <1>1
<1>3. (elf \in Elf /\ kinds \in PatchKinds)'
  BY DEF ImageInv
<1> QED BY <1>1, <1>2, <1>3 DEF ImageInv

(* With nothing left to write, memory is the image.                        *)
LEMMA WrittenAll ==
    ASSUME LoaderInv, ImageInv, phase = "writing", ops = << >>, ~ range.busy
    PROVE  FlatData = Image /\ cpu = ImageCpu
<1>1. Clean(ops)
  BY LeavesNone
<1>2. Leaves(ops, Sp, cpu.sp, ImageCpu.sp) /\ \A x \in Address : Leaves(ops, x, Pending(x), ImageCell(x))
  BY <1>1 DEF ImageInv
<1>3. \A x \in Address : Pending(x) = CellAt(x)
  BY DEF Pending
<1>4. ImageCpu.sp = cpu.sp /\ \A x \in Address : ImageCell(x) = CellAt(x)
  BY <1>2, <1>3, LeavesNone
<1>5. cpu = ImageCpu
  <2>1. cpu = Entry
    BY DEF ImageInv
  <2>2. ImageCpu = [pc |-> elf.entry, next_pc |-> (elf.entry + 1) % SPACE, sp |-> ImageCpu.sp]
    BY DEF ImageCpu
  <2> QED BY <1>4, <2>1, <2>2 DEF Entry
<1>6. ASSUME NEW p \in PageIndex, NEW o \in PageOffset
      PROVE  ImageCell(p * PAGE_SIZE_WORDS + o) = FlatData[p][o]
  <2> DEFINE x == p * PAGE_SIZE_WORDS + o
  <2>1. x \in Address /\ PageOf(x) = p /\ OffsetOf(x) = o
    BY PartsOf
  <2> HIDE DEF x
  <2>2. ImageCell(x) = FlatData[p][o]
    BY <1>4, <2>1 DEF CellAt
  <2> QED BY <2>2 DEF x
<1>7. FlatData \in [PageIndex -> [PageOffset -> Word]]
  BY FlatType DEF LoaderInv
<1>8. Image = [p \in PageIndex |-> [o \in PageOffset |-> FlatData[p][o]]]
  BY <1>6 DEF Image
<1>9. FlatData = [p \in PageIndex |-> [o \in PageOffset |-> FlatData[p][o]]]
  <2> DEFINE d == FlatData
  <2>1. d \in [PageIndex -> [PageOffset -> Word]]
    BY <1>7
  <2> HIDE DEF d
  <2>2. d = [p \in PageIndex |-> d[p]]
    BY <2>1
  <2>3. \A p \in PageIndex : d[p] = [o \in PageOffset |-> d[p][o]]
    BY <2>1
  <2>4. d = [p \in PageIndex |-> [o \in PageOffset |-> d[p][o]]]
    BY <2>2, <2>3
  <2> QED BY <2>4 DEF d
<1> QED BY <1>5, <1>8, <1>9

LEMMA ImageInitInv == LoaderInit => ImageInv
<1> SUFFICES ASSUME LoaderInit PROVE ImageInv
  OBVIOUS
<1>1. /\ elf \in Elf /\ kinds \in PatchKinds /\ ops = LoadOps(elf, kinds) /\ phase = "writing"
      /\ cpu = [pc |-> elf.entry, next_pc |-> (elf.entry + 1) % SPACE, sp |-> 0]
      /\ dumped = NoDump /\ logged = << >> /\ range = NoCall /\ Resident = {}
  BY DEF LoaderInit, Init, Resident
<1>2. ~ range.busy /\ ~ dumped.written
  BY <1>1 DEF NoCall, NoDump
<1>3. cpu.sp = 0 /\ cpu = Entry
  BY <1>1 DEF Entry
<1>4. ASSUME NEW x \in Address PROVE Pending(x) = 0
  <2>1. PageOf(x) \in PageIndex /\ OffsetOf(x) \in PageOffset
    BY AddressParts
  <2>2. CellAt(x) = 0
    BY <1>1, <2>1 DEF CellAt, FlatData, ZeroData
  <2> QED BY <1>2, <2>2 DEF Pending
<1>5. ASSUME Clean(ops)
      PROVE  /\ Leaves(ops, Sp, cpu.sp, ImageCpu.sp)
             /\ \A x \in Address : Leaves(ops, x, Pending(x), ImageCell(x))
  <2>1. /\ Leaves(LoadOps(elf, kinds), Sp, 0, ImageCpu.sp)
        /\ \A x \in Address : Leaves(LoadOps(elf, kinds), x, 0, ImageCell(x))
    BY <1>1, <1>5, LoadLeaves
  <2> QED BY <1>1, <1>3, <1>4, <2>1
<1>6. logged \in Seq({<<MemoryTree(Image)[1], ImageCpu>>})
  BY <1>1, EmptySeq
<1> QED BY <1>1, <1>2, <1>3, <1>5, <1>6 DEF ImageInv

LEMMA ImageInvStep == LoaderInv /\ ImageInv /\ [LoaderNext]_allVars => ImageInv'
<1> SUFFICES ASSUME LoaderInv, ImageInv, [LoaderNext]_allVars PROVE ImageInv'
  OBVIOUS
<1>0. LoadInv /\ IInv
  BY DEF LoaderInv
<1>1. CASE BeginRange \/ ReadChunk \/ EndRange \/ StoreWord \/ SetStackPointer
  BY <1>1, WritingSteps
<1>2. CASE Refuse
  <2>1. /\ phase = "writing" /\ ~ range.busy /\ phase' = "failed"
        /\ UNCHANGED <<range, elf, kinds, dumped, logged>>
    BY <1>2 DEF Refuse, Writing, vars
  <2>2. ~ dumped.written
    BY <1>0, <2>1 DEF LoadInv
  <2> QED BY <2>1, <2>2, StaysLoaded DEF ImageInv
<1>3. CASE Dump
  <2>1. /\ phase = "writing" /\ ops = << >> /\ ~ range.busy
        /\ UNCHANGED <<pages, range, elf, kinds, cpu, logged>>
    BY <1>3 DEF Dump
  <2>2. ~ dumped.written
    BY <1>0, <2>1 DEF LoadInv
  <2>3. FlatData = Image /\ cpu = ImageCpu
    BY <2>1, WrittenAll
  <2>4. FlatData' = FlatData
    BY <2>1 DEF FlatData, Resident
  <2>5. \/ /\ phase' = "dumped"
           /\ \/ dumped' = [written |-> TRUE, pages |-> [p \in Resident |-> pages[p].data], cpu |-> cpu]
              \/ dumped' = dumped
        \/ phase' = "failed" /\ dumped' = dumped
    BY <1>3 DEF Dump
  <2>6. ASSUME dumped'.written PROVE DumpedData' = Image /\ dumped'.cpu = ImageCpu
    <3>1. dumped' = [written |-> TRUE, pages |-> [p \in Resident |-> pages[p].data], cpu |-> cpu]
      BY <2>2, <2>5, <2>6
    <3>2. dumped'.cpu = cpu /\ dumped'.pages = [p \in Resident |-> pages[p].data]
      BY <3>1
    <3>3. DumpedData' = FlatData
      BY <3>2 DEF DumpedData, FlatData
    <3> QED BY <2>3, <3>2, <3>3
  <2>7. phase' = "failed" => ~ dumped'.written
    BY <2>2, <2>5
  <2>8. phase' # "writing"
    BY <2>5
  <2> QED BY <2>1, <2>3, <2>4, <2>6, <2>7, <2>8, StaysLoaded DEF ImageInv
<1>4. CASE StateHash
  <2>1. /\ phase \in {"dumped", "witness"} /\ phase' = After[phase] /\ Merkleize({1}, NoPage, {})
        /\ logged' = Append(logged, <<MemoryValues[1], cpu>>)
        /\ UNCHANGED <<range, elf, kinds, cpu, dumped>>
    BY <1>4 DEF StateHash, After
  <2>2. phase' \in {"ended", "done"}
    BY <2>1 DEF After
  <2>3. FlatData = Image /\ cpu = ImageCpu
    BY <2>1 DEF ImageInv
  <2>4. FlatData' = FlatData
    BY <1>0, <2>1, MerkleizeOK, FlatSame DEF IInv
  <2>5. MemoryValues = MemoryTree(FlatData)
    BY <1>0, IInvFresh DEF HashesFresh
  <2>6. logged' \in Seq({<<MemoryTree(Image)[1], ImageCpu>>})
    <3> DEFINE e == <<MemoryTree(Image)[1], ImageCpu>>
    <3>1. logged \in Seq({e}) /\ logged' = Append(logged, e)
      BY <2>1, <2>3, <2>5 DEF ImageInv
    <3> HIDE DEF e
    <3>2. logged' \in Seq({e})
      BY <3>1, AppendProperties
    <3> QED BY <3>2 DEF e
  <2>7. ~ range'.busy
    BY <1>0, <2>1 DEF LoadInv
  <2>8. dumped'.written => DumpedData' = Image /\ dumped'.cpu = ImageCpu
    BY <2>1 DEF ImageInv, DumpedData
  <2> QED BY <2>1, <2>2, <2>3, <2>4, <2>6, <2>7, <2>8, StaysLoaded
<1>5. CASE ReadDump
  <2>1. /\ phase = "ended" /\ dumped.written /\ phase' \in {"witness", "run"} /\ cpu' = dumped.cpu
        /\ pages' = [p \in DOMAIN dumped.pages |->
                        PageInvalidateFull(WithData(DefaultPage, dumped.pages[p]))]
        /\ UNCHANGED <<range, elf, kinds, dumped, logged>>
    BY <1>5 DEF ReadDump
  <2>2. FlatData' = DumpedData
    <3>1. \A d : PageInvalidateFull(WithData(DefaultPage, d)).data = d
      BY DEF PageInvalidateFull, WithData
    <3>2. DOMAIN pages' = DOMAIN dumped.pages
          /\ \A p \in DOMAIN dumped.pages : pages'[p].data = dumped.pages[p]
      BY <2>1, <3>1
    <3> QED BY <3>2 DEF FlatData, DumpedData, Resident
  <2>3. DumpedData = Image /\ dumped.cpu = ImageCpu
    BY <2>1 DEF ImageInv
  <2>4. ~ range'.busy
    BY <1>0, <2>1 DEF LoadInv
  <2>5. DumpedData' = DumpedData
    BY <2>1 DEF DumpedData
  <2> QED BY <2>1, <2>2, <2>3, <2>4, <2>5, StaysLoaded DEF ImageInv
<1>6. CASE phase = "run" /\ UNCHANGED loadVars /\ range' = range
  <2>1. UNCHANGED <<elf, kinds, cpu, phase, dumped, logged>>
    BY <1>6 DEF loadVars
  <2>2. ~ range'.busy
    BY <1>0, <1>6 DEF LoadInv
  <2>3. dumped'.written => DumpedData' = Image /\ dumped'.cpu = ImageCpu
    BY <2>1 DEF ImageInv, DumpedData
  <2> QED BY <1>6, <2>1, <2>2, <2>3, StaysLoaded DEF ImageInv
<1>7. CASE GuestStore
  <2>1. range' = range
    BY <1>7 DEF GuestStore, SetMemory
  <2> QED BY <1>6, <1>7, <2>1 DEF GuestStore
<1>8. CASE GuestWrite
  <2>1. range' = range
    BY <1>8 DEF GuestWrite, ReaderOpen, vars
  <2> QED BY <1>6, <1>8, <2>1 DEF GuestWrite
<1>9. CASE CopyStep
  <2>1. reader.state # "none" /\ range' = range
    BY <1>9 DEF CopyStep, ReaderRead, ReaderEnd, ReaderDrop, Reading, ReadPage, vars
  <2>2. phase = "run"
    BY <1>0, <2>1 DEF LoadInv
  <2> QED BY <1>6, <1>9, <2>1, <2>2 DEF CopyStep
<1>10. CASE UNCHANGED allVars
  <2>1. UNCHANGED <<pages, range, elf, kinds, ops, cpu, phase, dumped, logged>>
    BY <1>10 DEF allVars, vars, loadVars
  <2>2. FlatData' = FlatData /\ DumpedData' = DumpedData
    BY <2>1 DEF FlatData, DumpedData, Resident
  <2>3. CASE phase = "writing"
    <3>1. \A x : Pending(x)' = Pending(x)
      BY <2>1, <2>2 DEF Pending, CellAt, At
    <3>2. cpu' = [Entry EXCEPT !.sp = cpu'.sp]
      BY <2>1, <2>3 DEF ImageInv, Entry
    <3>3. range'.busy => Len(range'.data) <= S
      BY <2>1 DEF ImageInv
    <3>4. ASSUME Clean(ops')
          PROVE  /\ Leaves(ops', Sp, cpu'.sp, ImageCpu.sp)
                 /\ \A x \in Address : Leaves(ops', x, Pending(x)', ImageCell(x))
      BY <2>1, <2>3, <3>1, <3>4 DEF ImageInv
    <3> QED BY <2>1, <2>3, <3>2, <3>3, <3>4, StaysWriting
  <2>4. CASE phase # "writing"
    <3>1. ~ range'.busy
      BY <1>0, <2>1, <2>4 DEF LoadInv
    <3> QED BY <2>1, <2>2, <2>4, <3>1, StaysLoaded DEF ImageInv
  <2> QED BY <2>3, <2>4
<1> QED BY <1>1, <1>2, <1>3, <1>4, <1>5, <1>7, <1>8, <1>9, <1>10 DEF LoaderNext, LoadStep

LEMMA ImageInvariance == LoaderSpec => []ImageInv
<1>1. LoaderInit => ImageInv
  BY ImageInitInv
<1>2. LoaderInv /\ ImageInv /\ [LoaderNext]_allVars => ImageInv'
  BY ImageInvStep
<1> QED BY <1>1, <1>2, LoaderInvariance, PTL DEF LoaderSpec

(* What load-elf dumps is the image of the file and the patches: every     *)
(* cell holds what the last segment or patch that covers it put there, and *)
(* a command that ends with an error has dumped nothing.                   *)
THEOREM DumpsImage == LoaderSpec => []ImageLoaded
<1>1. ImageInv => ImageLoaded
  BY DEF ImageInv, ImageLoaded, DumpedData
<1> QED BY <1>1, ImageInvariance, PTL

(* Every state hash that load-elf and witness report is that of the image, *)
(* whichever process computes it.                                          *)
THEOREM HashesImage == LoaderSpec => []HashesAgree
<1>1. ImageInv => HashesAgree
  <2> SUFFICES ASSUME ImageInv, NEW i \in DOMAIN logged
               PROVE  logged[i] = <<MemoryTree(Image)[1], ImageCpu>>
    BY DEF HashesAgree
  <2> DEFINE e == <<MemoryTree(Image)[1], ImageCpu>>
  <2>1. logged \in Seq({e})
    BY DEF ImageInv
  <2> HIDE DEF e
  <2>2. logged[i] \in {e}
    BY <2>1
  <2> QED BY <2>2 DEF e
<1> QED BY <1>1, ImageInvariance, PTL
=============================================================================
