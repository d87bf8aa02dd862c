-------------------------- MODULE InstrumentedState --------------------------
(***************************************************************************)
(* crates/mipsevm/src/mips: InstrumentedState::step around one instruction *)
(* of the guest, with the system calls, the tracking of the memory word an *)
(* instruction touches, the cached preimage and the witness of the step.   *)
(*                                                                         *)
(* `st` is the State, which snapshots keep, and `ins` what an              *)
(* InstrumentedState adds to it, which they do not.  What instructions do  *)
(* to registers is in MipsVm and how memory is hashed in Memory: here the  *)
(* guest may run any instruction with any operands, memory is an array of  *)
(* bytes, and a Merkle proof is the memory and the address it is about.    *)
(* Writes to the hint descriptor are in HintBuffer.                        *)
(***************************************************************************)
EXTENDS Integers, Sequences, FiniteSets, FiniteSetsExt

CONSTANTS
    WORD,        \* bytes of a word: 4 in the code
    KEY,         \* bytes of a preimage key: 32
    LOCAL_SIZE,  \* bytes a local preimage may have: 32
    PAGE_SIZE,   \* bytes of a page: 4096
    MEM_SIZE,    \* bytes of the address space: 2^32
    HEAP_START,  \* where load_elf puts the heap: 0x20000000
    U8,          \* values of a byte register cast: 256
    Byte,        \* 0 .. n, a length prefix among them
    Preimage,    \* key -> sequence of bytes, for the keys the oracle knows
    PCs,         \* program counters
    DataWords,   \* addresses of the words the guest uses as data
    StoreWords,  \* the words the guest stores
    Descriptors, \* what it passes as a descriptor to read, write and fcntl, or to exit
    Lengths,     \* the lengths it passes to read and write
    MapSizes,    \* the sizes the guest passes to mmap
    GuestOps,    \* the parts of the instruction set the guest uses
    MaxStep      \* bound on the number of steps

Key  == [1 .. KEY -> Byte]
ZeroKey == [k \in 1 .. KEY |-> 0]

ASSUME InstrumentedAssumption ==
    /\ WORD \in Nat \ {0} /\ KEY \in Nat \ {0} /\ WORD <= KEY
    /\ LOCAL_SIZE \in Nat
    /\ PAGE_SIZE \in Nat \ {0} /\ MEM_SIZE \in Nat \ {0} /\ MEM_SIZE % PAGE_SIZE = 0
    /\ HEAP_START \in 0 .. (MEM_SIZE - 1) /\ HEAP_START % PAGE_SIZE = 0
    /\ U8 \in Nat /\ U8 > 6    \* every descriptor of Fds fits a byte
    /\ Byte \subseteq Nat /\ 0 \in Byte
    /\ DOMAIN Preimage \subseteq Key \ {ZeroKey}
    /\ \A k \in DOMAIN Preimage : Preimage[k] \in Seq(Byte) /\ Len(Preimage[k]) \in Byte
    /\ DataWords \subseteq Nat /\ \A a \in DataWords : a % WORD = 0
    /\ StoreWords \subseteq [1 .. WORD -> Byte]
    /\ Descriptors \subseteq Nat /\ Lengths \subseteq Nat
    /\ MapSizes \subseteq 0 .. (MEM_SIZE - 1)
    /\ MaxStep \in Nat

VARIABLES
    st,        \* memory, preimage_key, preimage_offset, pc, heap, exited, exit_code, step, ret
    ins,       \* last_mem_access, mem_proof, last_preimage_key, last_preimage, ...
    witness,   \* what the last step returned
    status,    \* "running", "err" or "panic"
    touched,   \* history: the word the last instruction loaded or stored
    guestKey,  \* history: the last KEY bytes the guest wrote to the preimage descriptor
    readout,   \* history: the bytes it has read from it since
    mapped,    \* history: the regions mmap has chosen, and whether the heap has wrapped
    learnt     \* history: what the last step told the guest about a descriptor

vars == <<st, ins, witness, status, touched, guestKey, readout, mapped, learnt>>

DataAddress == UNION {a .. (a + WORD - 1) : a \in DataWords}

NoAccess   == MEM_SIZE - 1      \* !0u32, never the address of a word
NoOffset   == -1                \* !0u32, larger than any offset
NoPreimage == [key |-> ZeroKey, value |-> << >>, offset |-> NoOffset]
NoProof    == [mem |-> << >>, address |-> NoAccess]
Nothing    == <<-1, "nothing">>
NoWitness  == [state |-> << >>, instruction |-> NoProof, mem |-> NoProof, preimage |-> NoPreimage]

merkle_proof(memory, address) == [mem |-> memory, address |-> address]

(* InstrumentedState::new                                                  *)
NewInstrumented ==
    [last_mem_access |-> 0, mem_proof_enabled |-> FALSE, mem_proof |-> NoProof,
     last_preimage |-> << >>, last_preimage_key |-> ZeroKey, last_preimage_offset |-> 0]

Init ==
    /\ st \in [memory : {[a \in DataAddress |-> 0]}, preimage_key : {ZeroKey},
               preimage_offset : {0}, pc : PCs, heap : {HEAP_START}, exited : {FALSE},
               exit_code : {0}, step : {0}, ret : {<<0, "ok">>}]
    /\ ins = NewInstrumented
    /\ witness = NoWitness
    /\ status = "running"
    /\ touched = NoAccess
    /\ guestKey = ZeroKey /\ readout = << >>
    /\ mapped = [regions |-> {}, wrapped |-> FALSE]
    /\ learnt = Nothing

-----------------------------------------------------------------------------
(* What step does before and after the instruction.                        *)

(* Fault: the address tracked in the step before is kept.                  *)
StepStartKept(proof) ==
    [ins EXCEPT !.mem_proof_enabled = proof, !.last_preimage_offset = NoOffset]

StepStart(proof) ==
    [ins EXCEPT !.mem_proof_enabled    = proof,
                !.last_mem_access      = NoAccess,
                !.last_preimage_offset = NoOffset]

(* track_mem_access: at most one word per step, proved in memory as it is  *)
(* at that point.                                                          *)
Conflict(i, address) ==
    i.mem_proof_enabled /\ i.last_mem_access \notin {address, NoAccess}

(* Fault: a proof is made only once.                                       *)
track_mem_access_once(i, address, memory) ==
    IF i.mem_proof_enabled /\ i.mem_proof = NoProof
    THEN [i EXCEPT !.last_mem_access = address, !.mem_proof = merkle_proof(memory, address)]
    ELSE i

track_mem_access(i, address, memory) ==
    IF i.mem_proof_enabled /\ i.last_mem_access # address
    THEN [i EXCEPT !.last_mem_access = address, !.mem_proof = merkle_proof(memory, address)]
    ELSE i

StepWitness(i) ==
    [state       |-> st,
     instruction |-> merkle_proof(st.memory, st.pc),
     mem         |-> i.mem_proof,
     preimage    |-> IF i.last_preimage_offset = NoOffset
                     THEN NoPreimage
                     ELSE [key    |-> i.last_preimage_key,
                           value  |-> i.last_preimage,
                           offset |-> i.last_preimage_offset]]

(* The instruction succeeds with the state s and the caches i.             *)
Return(proof, s, i) ==
    /\ st' = [s EXCEPT !.step = @ + 1]
    /\ ins' = i
    /\ witness' = IF proof THEN StepWitness(i) ELSE NoWitness
    /\ UNCHANGED status

(* It fails; the caller gives up.                                          *)
Abort(outcome, i) ==
    /\ st' = [st EXCEPT !.step = @ + 1]
    /\ ins' = i
    /\ witness' = NoWitness
    /\ status' = outcome

Stepping == status = "running" /\ ~ st.exited /\ st.step < MaxStep

(* The state after an instruction or a system call with results v0 and v1. *)
Continue(s, v0, v1, next) == [s EXCEPT !.pc = next, !.ret = <<v0, v1>>]

NoHistory == UNCHANGED <<guestKey, readout, mapped>> /\ learnt' = Nothing

-----------------------------------------------------------------------------
(* Instructions.  Where control goes next is any of PCs.                   *)

(* No data word is touched: arithmetic, jumps and branches.                *)
Plain(proof, next) ==
    /\ Stepping
    /\ Return(proof, [st EXCEPT !.pc = next], StepStart(proof))
    /\ touched' = NoAccess
    /\ NoHistory

Load(proof, address, next) ==
    LET i0 == StepStart(proof)
    IN  /\ Stepping
        /\ IF Conflict(i0, address)
           THEN Abort("err", i0)
           ELSE Return(proof, [st EXCEPT !.pc = next],
                       track_mem_access(i0, address, st.memory))
        /\ touched' = address
        /\ NoHistory

(* Memory with the bytes of a sequence written at address a.               *)
WithBytes(memory, a, bytes) ==
    [b \in DOMAIN memory |->
        IF b \in a .. (a + Len(bytes) - 1) THEN bytes[b - a + 1] ELSE memory[b]]

(* Tracked as the load that comes first, and again before the write.       *)
Store(proof, address, w, next) ==
    LET i0 == StepStart(proof)
        i1 == track_mem_access(i0, address, st.memory)
        i2 == track_mem_access(i1, address, st.memory)
    IN  /\ Stepping
        /\ IF Conflict(i0, address) \/ Conflict(i1, address)
           THEN Abort("err", i0)
           ELSE Return(proof, [st EXCEPT !.pc = next,
                                         !.memory = WithBytes(@, address, w)], i2)
        /\ touched' = address
        /\ NoHistory

(* An unknown instruction, an unaligned fetch, a transfer in a delay slot. *)
Refused(proof) ==
    /\ Stepping
    /\ Abort("err", StepStart(proof))
    /\ touched' = NoAccess
    /\ NoHistory

(* Fault: the step is counted before the guest is looked at.               *)
StepExitedCounted(proof) ==
    /\ status = "running" /\ st.exited /\ st.step < MaxStep
    /\ st' = [st EXCEPT !.step = @ + 1]
    /\ ins' = StepStart(proof)
    /\ witness' = IF proof THEN StepWitness(ins') ELSE NoWitness
    /\ touched' = NoAccess
    /\ UNCHANGED status /\ NoHistory

(* step on a state that has exited changes nothing but the caches.         *)
StepExited(proof) ==
    /\ status = "running" /\ st.exited
    /\ ins' = StepStart(proof)
    /\ witness' = IF proof THEN StepWitness(ins') ELSE NoWitness
    /\ touched' = NoAccess
    /\ UNCHANGED <<st, status>> /\ NoHistory

-----------------------------------------------------------------------------
(* handle_syscall                                                          *)

(* mmap: sizes are rounded up to pages; without a hint the heap grows.     *)
(* Fault: sizes are taken as they are.                                     *)
RoundUpNot(sz) == sz

RoundUp(sz) == IF sz % PAGE_SIZE = 0 THEN sz ELSE (sz + PAGE_SIZE - (sz % PAGE_SIZE)) % MEM_SIZE

Mmap(proof, a0, a1, next) ==
    LET sz == RoundUp(a1)
    IN  /\ Stepping
        /\ IF a0 = 0
           THEN /\ Return(proof, Continue([st EXCEPT !.heap = (@ + sz) % MEM_SIZE],
                                          st.heap, "ok", next), StepStart(proof))
                /\ mapped' = [regions |-> mapped.regions \cup {<<st.heap, a1>>},
                              wrapped |-> mapped.wrapped \/ a1 > sz \/ st.heap + sz >= MEM_SIZE]
           ELSE /\ Return(proof, Continue(st, a0, "ok", next), StepStart(proof))
                /\ UNCHANGED mapped
        /\ touched' = NoAccess
        /\ learnt' = Nothing
        /\ UNCHANGED <<guestKey, readout>>

(* The calls that leave the state alone and only return v0 and v1: brk,    *)
(* clone, fcntl, unknown calls, read of the standard input or of a hint,   *)
(* write to the standard output or error, and any other descriptor.        *)
BRK   == MEM_SIZE \div 4      \* 0x40000000
ERROR == MEM_SIZE - 1         \* 0xFFFFFFFF

Fds == [StdIn |-> 0, Stdout |-> 1, StdErr |-> 2, HintRead |-> 3, HintWrite |-> 4,
        PreimageRead |-> 5, PreimageWrite |-> 6]

(* Fault: the ends of the hint descriptor are mixed up in fcntl.           *)
SyscallResultSwapped(call, fd, cmd, n) ==
    CASE call = "read"  -> IF fd = Fds.HintRead THEN <<n, "ok">> ELSE <<ERROR, "EBADF">>
      [] call = "write" -> IF fd \in {Fds.Stdout, Fds.StdErr} THEN <<n, "ok">>
                                                              ELSE <<ERROR, "EBADF">>
      [] call = "fcntl" ->
             IF cmd # 3 THEN <<ERROR, "EINVAL">>
             ELSE IF fd \in {Fds.StdIn, Fds.PreimageRead, Fds.HintWrite} THEN <<0, "ok">>
             ELSE IF fd \in {Fds.Stdout, Fds.StdErr, Fds.PreimageWrite, Fds.HintRead}
             THEN <<1, "ok">> ELSE <<ERROR, "EBADF">>
      [] OTHER -> <<0, "ok">>

SyscallResult(call, fd, cmd, n) ==
    CASE call = "brk"     -> <<BRK, "ok">>
      [] call = "clone"   -> <<1, "ok">>
      [] call = "read"    -> IF fd = Fds.StdIn THEN <<0, "ok">>
                             ELSE IF fd = Fds.HintRead THEN <<n, "ok">> ELSE <<ERROR, "EBADF">>
      [] call = "write"   -> IF fd \in {Fds.Stdout, Fds.StdErr} THEN <<n, "ok">>
                                                                ELSE <<ERROR, "EBADF">>
      [] call = "fcntl"   ->
             IF cmd # 3 THEN <<ERROR, "EINVAL">>
             ELSE IF fd \in {Fds.StdIn, Fds.PreimageRead, Fds.HintRead} THEN <<0, "ok">>
             ELSE IF fd \in {Fds.Stdout, Fds.StdErr, Fds.PreimageWrite, Fds.HintWrite}
             THEN <<1, "ok">> ELSE <<ERROR, "EBADF">>
      [] call = "unknown" -> <<0, "ok">>

(* What an answer means: read and write work on the descriptor or do not,  *)
(* fcntl says which of the two it is for, if any.                          *)
Meaning(call, r) ==
    CASE call = "read"  -> IF r[2] = "ok" THEN "readable" ELSE "not readable"
      [] call = "write" -> IF r[2] = "ok" THEN "writable" ELSE "not writable"
      [] call = "fcntl" /\ r[2] = "ok"    -> IF r[1] = 0 THEN "readable" ELSE "writable"
      [] call = "fcntl" /\ r[2] = "EBADF" -> "neither"
      [] OTHER -> "nothing"

PureSyscall(proof, call, a0, a1, n, next) ==
    LET fd == a0 % U8
        r  == SyscallResult(call, fd, a1, n)
    IN  /\ Stepping
        /\ ~ (call = "read" /\ fd = Fds.PreimageRead)
        /\ ~ (call = "write" /\ fd \in {Fds.HintWrite, Fds.PreimageWrite})
        /\ Return(proof, Continue(st, r[1], r[2], next), StepStart(proof))
        /\ touched' = NoAccess
        /\ learnt' = <<a0, Meaning(call, r)>>
        /\ UNCHANGED <<guestKey, readout, mapped>>

ExitGroup(proof, a0) ==
    /\ Stepping
    /\ Return(proof, [st EXCEPT !.exited = TRUE, !.exit_code = a0 % U8], StepStart(proof))
    /\ touched' = NoAccess
    /\ NoHistory

(* Bytes a1 .. a1 + n - 1 of memory.                                       *)
BytesAt(memory, a1, n) == [k \in 1 .. n |-> memory[a1 + k - 1]]

(* The key moves to the left to make room for the bytes.                   *)
ShiftedIn(key, bytes) == SubSeq(key, Len(bytes) + 1, KEY) \o bytes

(* A write to the preimage descriptor: at most up to the end of the word   *)
(* that holds a1, shifted into the key from the right.                     *)
PreimageWrite(proof, a1, a2, next) ==
    LET address == a1 - (a1 % WORD)
        n       == Min({a2, WORD - (a1 % WORD)})
        i0      == StepStart(proof)
    IN  /\ Stepping
        /\ IF Conflict(i0, address)
           THEN Abort("err", i0) /\ NoHistory
           ELSE /\ Return(proof,
                          Continue([st EXCEPT
                              !.preimage_key = ShiftedIn(@, BytesAt(st.memory, a1, n)),
                              !.preimage_offset = 0], n, "ok", next),
                          track_mem_access(i0, address, st.memory))
                /\ LET all == guestKey \o BytesAt(st.memory, a1, n)
                   IN  guestKey' = SubSeq(all, Len(all) - KEY + 1, Len(all))
                /\ readout' = << >>
                /\ learnt' = <<Fds.PreimageWrite, "writable">>
                /\ UNCHANGED mapped
        /\ touched' = address

(* The data of a preimage with its length in front.                        *)
Prefixed(k) == <<Len(Preimage[k])>> \o Preimage[k]

(* read_preimage: the oracle is asked when the key is not the cached one.  *)
FetchFails(i) ==
    st.preimage_key # i.last_preimage_key /\ st.preimage_key \notin DOMAIN Preimage

(* Fault: a cached preimage is used for every key.                         *)
FetchedOnce(i) ==
    [i EXCEPT !.last_preimage_key    = st.preimage_key,
              !.last_preimage        = IF @ = << >> /\ st.preimage_key \in DOMAIN Preimage
                                       THEN Prefixed(st.preimage_key) ELSE @,
              !.last_preimage_offset = st.preimage_offset]

Fetched(i) ==
    LET cached == IF st.preimage_key = i.last_preimage_key
                  THEN i.last_preimage
                  ELSE Prefixed(st.preimage_key)
    IN  [i EXCEPT !.last_preimage_key    = st.preimage_key,
                  !.last_preimage        = cached,
                  !.last_preimage_offset = st.preimage_offset]

(* A read of the preimage descriptor: what is left of the preimage, but    *)
(* not past the end of the word that holds a1 and not more than a2 bytes.  *)
PreimageRead(proof, a1, a2, next) ==
    LET address == a1 - (a1 % WORD)
        i0      == StepStart(proof)
        i1      == track_mem_access(i0, address, st.memory)
        i2      == Fetched(i1)
        rest    == Len(i2.last_preimage) - st.preimage_offset
        n       == Min({rest, KEY, WORD - (a1 % WORD), a2})
        data    == SubSeq(i2.last_preimage, st.preimage_offset + 1, st.preimage_offset + n)
    IN  /\ Stepping
        /\ touched' = address
        /\ UNCHANGED <<guestKey, mapped>>
        /\ IF Conflict(i0, address)
           THEN Abort("err", i0) /\ UNCHANGED readout
           ELSE \/ FetchFails(i1) /\ Abort("err", i1) /\ UNCHANGED readout
                \/ /\ ~ FetchFails(i1)
                   /\ IF rest < 0
                      THEN Abort("panic", i2) /\ UNCHANGED readout
                      ELSE /\ Return(proof,
                                     Continue([st EXCEPT
                                         !.memory = WithBytes(@, a1, data),
                                         !.preimage_offset = @ + n], n, "ok", next), i2)
                           /\ readout' = readout \o data
        /\ learnt' = IF status' = "running" THEN <<Fds.PreimageRead, "readable">> ELSE Nothing

-----------------------------------------------------------------------------
(* What a state claims: its hash, with the status in place of one byte.    *)
vm_status(exited, exit_code) ==
    IF ~ exited THEN "Unfinished"
    ELSE CASE exit_code = 0 -> "Valid" [] exit_code = 1 -> "Invalid" [] OTHER -> "Panic"

state_hash(s) == [status |-> vm_status(s.exited, s.exit_code), digest |-> s]

(* What a proof holds for the contract that replays a step that consumed a *)
(* preimage.                                                               *)

(* KeyType::from: the first byte of a key.                                 *)
KeyType(n) == CASE n = 1 -> "Local" [] n = 2 -> "GlobalKeccak" [] OTHER -> "_Illegal"

NoInput   == [call |-> "none"]
Unprefixed(value) == SubSeq(value, 2, Len(value))

(* Fault: the length prefix is sent with the data.                         *)
oracle_input_prefixed(w) ==
    IF w.preimage = NoPreimage \/ KeyType(w.preimage.key[1]) = "_Illegal" THEN NoInput
    ELSE [call |-> "loadKeccak256PreimagePart", offset |-> w.preimage.offset,
          data |-> w.preimage.value]

(* A local preimage is sent as one word, filled up with zeros, and its     *)
(* size; the contract computes the key of a global one from its data.      *)
encode_preimage_oracle_input(w) ==
    LET part == Unprefixed(w.preimage.value)
        kind == KeyType(w.preimage.key[1])
    IN  IF w.preimage = NoPreimage \/ kind = "_Illegal" THEN NoInput
        ELSE IF kind = "GlobalKeccak"
        THEN [call |-> "loadKeccak256PreimagePart", offset |-> w.preimage.offset, data |-> part]
        ELSE IF Len(part) > LOCAL_SIZE THEN NoInput
        ELSE [call   |-> "loadLocalData", ident |-> w.preimage.key, size |-> Len(part),
              offset |-> w.preimage.offset,
              word   |-> [i \in 1 .. LOCAL_SIZE |-> IF i <= Len(part) THEN part[i] ELSE 0]]

(* The bytes the contract has to offer after such a call: the length of    *)
(* the data and the data, from the offset on.                              *)
LoadedPart(input) ==
    LET data == IF input.call = "loadLocalData" THEN SubSeq(input.word, 1, input.size)
                                                ELSE input.data
    IN  SubSeq(<<Len(data)>> \o data, input.offset + 1, Len(data) + 1)

-----------------------------------------------------------------------------
(* A snapshot is written, and the run resumed from it later: the state is  *)
(* kept and the caches start anew.                                         *)
Restart ==
    /\ status = "running"
    /\ ins' = NewInstrumented
    /\ witness' = NoWitness
    /\ touched' = NoAccess
    /\ UNCHANGED <<st, status>> /\ NoHistory

MemoryOp(proof, next) ==
    \E a \in DataWords : \/ Load(proof, a, next)
                         \/ \E w \in StoreWords : Store(proof, a, w, next)

PreimageOp(proof, next) ==
    \E a1 \in DataAddress, a2 \in Lengths :
        PreimageWrite(proof, a1, a2, next) \/ PreimageRead(proof, a1, a2, next)

OtherOp(proof, next) ==
    \/ Plain(proof, next)
    \/ Refused(proof)
    \/ \E a0 \in Descriptors : ExitGroup(proof, a0)
    \/ \E call \in {"brk", "clone", "read", "write", "fcntl", "unknown"},
          a0 \in Descriptors, a1 \in {0, 3}, n \in Lengths :
             PureSyscall(proof, call, a0, a1, n, next)

Next ==
    \/ Restart
    \/ \E proof \in BOOLEAN :
          \/ StepExited(proof)
          \/ \E next \in PCs :
                \/ "memory" \in GuestOps /\ MemoryOp(proof, next)
                \/ "preimage" \in GuestOps /\ PreimageOp(proof, next)
                \/ "other" \in GuestOps /\ OtherOp(proof, next)
                \/ "mmap" \in GuestOps /\ \E a0 \in {0, PAGE_SIZE}, a1 \in MapSizes :
                                              Mmap(proof, a0, a1, next)

Spec == Init /\ [][Next]_vars

-----------------------------------------------------------------------------
(* The witness of a step is what is needed to check the step: the state    *)
(* before it, a proof of the instruction and, if a data word was touched,  *)
(* of that word, both in memory as it was before the step, and, if the     *)
(* step consumed a preimage, its key, its bytes and the offset read from.  *)
(* No other word changes.                                                  *)
WitnessedStep ==
    witness' # NoWitness =>
        /\ witness'.state = st
        /\ witness'.instruction = merkle_proof(st.memory, st.pc)
        /\ touched' # NoAccess => witness'.mem = merkle_proof(st.memory, touched')
        /\ \A a \in DataAddress : st'.memory[a] # st.memory[a] => a - (a % WORD) = touched'
        /\ IF witness'.preimage = NoPreimage
           THEN st'.preimage_offset \in {0, st.preimage_offset}
           ELSE /\ witness'.preimage.key = st.preimage_key
                /\ witness'.preimage.offset = st.preimage_offset
                /\ st.preimage_key # ZeroKey =>
                       witness'.preimage.value = Prefixed(st.preimage_key)

(* Every witness that step() returns holds what checking the step needs.   *)
StepWitnessed == [][WitnessedStep]_vars

(* A step that read bytes of a preimage can be replayed by the contract:   *)
(* what the input of the proof makes it load begins with those bytes,      *)
(* whichever steps and restarts were between the fetch of the preimage and *)
(* this read of it.  Only keys of no type, and local values too long for a *)
(* word, have no input.                                                    *)
SufficientInput ==
    witness' # NoWitness /\ readout' # << >> /\ Len(readout') > Len(readout) =>
        LET input   == encode_preimage_oracle_input(witness')
            read    == SubSeq(readout', Len(readout) + 1, Len(readout'))
            refused == \/ KeyType(guestKey[1]) = "_Illegal"
                       \/ KeyType(guestKey[1]) = "Local" /\ Len(Preimage[guestKey]) > LOCAL_SIZE
        IN  IF refused THEN input = NoInput
            ELSE /\ input # NoInput
                 /\ read = SubSeq(LoadedPart(input), 1, Len(read))
                 /\ input.call = "loadLocalData" => input.ident = guestKey
                 /\ input.call # "loadLocalData" => input.data = Preimage[guestKey]

(* Every input made from a witness suffices to replay the step's read.     *)
OracleInputSuffices == [][SufficientInput]_vars

(* Over any sequence of unaligned and partial reads and writes of the      *)
(* preimage descriptor, of switches between keys and of restarts, the      *)
(* guest reads the length and then the bytes of the preimage of the last   *)
(* key it wrote, each once and in order, and read_preimage never slices    *)
(* past the end of the cached preimage.                                    *)
PreimageStream ==
    /\ st.preimage_key = guestKey
    /\ readout # << >> => readout = SubSeq(Prefixed(guestKey), 1, Len(readout))
    /\ st.preimage_offset = Len(readout)
    /\ status # "panic"

(* The claim about a run is settled once: no two states of it have the     *)
(* same hash, the status stays Unfinished up to the exit, and from then on *)
(* steps and restarts keep the hash, so that proofs past the end agree.    *)
FinalExit ==
    LET before == state_hash(st)
        after  == state_hash(st')
    IN  /\ before.status # "Unfinished" => after = before
        /\ before.status = "Unfinished" /\ st' # st =>
               after # before /\ st'.step > st.step

(* No step and no restart changes the hash of a state that has exited.     *)
ExitIsFinal == [][FinalExit]_vars

(* The system calls agree about every value the guest passes as a          *)
(* descriptor, those beyond a byte too: what fcntl calls readable can be   *)
(* read, what it calls writable can be written, and never both.            *)
ModesAgree ==
    learnt[1] = learnt'[1] =>
        {learnt[2], learnt'[2]} \notin
            {{"readable", "writable"}, {"readable", "not readable"}, {"writable", "not writable"},
             {"neither", "readable"}, {"neither", "writable"}}

(* What two steps in a row tell the guest of one descriptor agrees.        *)
DescriptorModes == [][ModesAgree]_vars

(* As long as the heap has not wrapped around, the regions mmap chooses    *)
(* start on a page, do not overlap, and lie below the heap pointer.        *)
MmapDisjoint ==
    ~ mapped.wrapped =>
        \A r \in mapped.regions :
            /\ r[1] % PAGE_SIZE = 0 /\ r[1] + r[2] <= st.heap
            /\ \A s \in mapped.regions \ {r} :
                   r[1] + r[2] <= s[1] \/ s[1] + s[2] <= r[1]
=============================================================================
