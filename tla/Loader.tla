------------------------------- MODULE Loader -------------------------------
(***************************************************************************)
(* crates/mipsevm/src/patch.rs and the load-elf and witness subcommands:   *)
(* an ELF file is loaded segment by segment, patched in the order the user *)
(* asks for, dumped, and hashed; another process reads the dump, hashes it *)
(* or runs it.  All writes go through Memory, those of segments through    *)
(* set_memory_range and a reader that may return less than a page.         *)
(*                                                                         *)
(* A file is its program headers and its symbols (none if it has no symbol *)
(* table); one that does not parse ends the command before it writes       *)
(* anything.  A cell of memory stands for a word.                          *)
(***************************************************************************)
EXTENDS MemoryReader, SequencesExt

CONSTANTS
    Elf,         \* the files
    PatchKinds,  \* the --patch-kind lists of the user
    RET,         \* jr $ra
    STACK_PTR,   \* 0x7fffd000
    StackArgs,   \* argc, argv, envp and auxv: the words from STACK_PTR + 1 on
    Random,      \* the words the auxiliary vector points to
    Stored,      \* the words the guest stores, by address
    ReadFrom,    \* the addresses the guest writes from
    ReadCount    \* the counts of its writes

VARIABLES
    elf,      \* the file
    kinds,    \* the patches asked for
    ops,      \* the writes that are left to do
    first,    \* the words left in the first part of a MultiReader
    cpu,      \* the registers the loader sets
    phase,    \* which part of which command runs
    dumped,   \* the state in the output file: the data of its pages, and registers
    logged    \* the state hashes reported so far

loadVars == <<elf, kinds, ops, first, cpu, phase, dumped, logged>>
allVars  == <<vars, reader, loadVars>>

NoDump == [written |-> FALSE, pages |-> [p \in {} |-> ZeroData], cpu |-> << >>]

-----------------------------------------------------------------------------
(* What the commands write: a range from two parts, one word, or the stack *)
(* pointer; or an error.                                                   *)
RangeOp(address, head, tail) ==
    [kind |-> "range", address |-> address, data |-> head \o tail, first |-> Len(head)]
SetOp(address, value) ==
    [kind |-> "set", address |-> address, data |-> <<value>>, first |-> 0]
PointerOp == [kind |-> "pointer", address |-> STACK_PTR, data |-> << >>, first |-> 0]
FailOp    == [kind |-> "fail", address |-> 0, data |-> << >>, first |-> 0]

Zeros(n) == [i \in 1 .. n |-> 0]

(* The headers load_elf refuses: data that is not in the file, a size in   *)
(* memory that is smaller, or that differs in a segment that is not        *)
(* PT_LOAD, and an end beyond the address space.                           *)
Refused(header) ==
    \/ ~ header.whole
    \/ Len(header.file) # header.memsz /\ header.type # "PT_LOAD"
    \/ Len(header.file) > header.memsz
    \/ header.vaddr + header.memsz >= SPACE

(* Fault: zeros are added for the whole size of the segment.               *)
load_elf_overfilled(header) ==
    IF header.type = "PT_MIPS_ABIFLAGS" THEN << >>
    ELSE IF Refused(header) THEN <<FailOp>>
    ELSE <<RangeOp(header.vaddr, header.file,
                   Zeros(IF Len(header.file) < header.memsz THEN header.memsz ELSE 0))>>

load_elf(header) ==
    IF header.type = "PT_MIPS_ABIFLAGS" THEN << >>
    ELSE IF Refused(header) THEN <<FailOp>>
    ELSE <<RangeOp(header.vaddr, header.file, Zeros(header.memsz - Len(header.file)))>>

patch_go(symbol) ==
    CASE symbol.name = "GO_SYMBOL"    -> <<RangeOp(symbol.value, <<RET, 0>>, << >>)>>
      [] symbol.name = "MemProfileRate" ->
             <<IF symbol.aligned THEN SetOp(symbol.value, 0) ELSE FailOp>>
      [] symbol.name = "unreadable"     -> <<FailOp>>
      [] OTHER                          -> << >>

patch_stack ==
    <<RangeOp(STACK_PTR - 4 * PAGE_SIZE_WORDS, Zeros(5 * PAGE_SIZE_WORDS), << >>), PointerOp>>
        \o [i \in 1 .. Len(StackArgs) |-> SetOp(STACK_PTR + i, StackArgs[i])]
        \o <<RangeOp(STACK_PTR + 1 + Len(StackArgs), Random, << >>)>>

PatchOps(file, kind) ==
    IF kind = "stack" THEN patch_stack
    ELSE IF file.stripped THEN <<FailOp>>
    ELSE FlattenSeq([i \in 1 .. Len(file.symbols) |-> patch_go(file.symbols[i])])

(* Everything load-elf writes, in order.                                   *)
LoadOps(file, patches) ==
    FlattenSeq([i \in 1 .. Len(file.segments) |-> load_elf(file.segments[i])])
        \o FlattenSeq([i \in 1 .. Len(patches) |-> PatchOps(file, patches[i])])

(* The addresses and the data that Memory has as parameters are those that *)
(* load-elf writes and the guest uses; a reader starts a page anew.  The   *)
(* count of a write system call is a register.                             *)
LoaderOp ==
    [kind : {"range"}, address : Touched, data : RangeData, first : Nat]
        \cup [kind : {"set"}, address : Touched, data : {<<v>> : v \in Word}, first : {0}]
        \cup {PointerOp, FailOp}

(* The fields of a program header and of a symbol.                         *)
ProgramHeader == [type : STRING, vaddr : Nat, file : Seq(Word), memsz : Nat, whole : BOOLEAN]
ElfSymbol     == [name : STRING, value : Nat, aligned : BOOLEAN]

(* No range is longer than memory, and the stack and what is put on it are *)
(* within it, as those of the code are.                                    *)
ASSUME LoaderAssumption ==
    /\ \A file \in Elf : file.segments \in Seq(ProgramHeader) /\ file.symbols \in Seq(ElfSymbol)
    /\ PatchKinds \subseteq Seq({"go", "stack"})
    /\ \A data \in RangeData : Len(data) <= SPACE
    /\ STACK_PTR \in Nat /\ 4 * PAGE_SIZE_WORDS <= STACK_PTR
    /\ STACK_PTR + PAGE_SIZE_WORDS <= SPACE
    /\ StackArgs \in Seq(Word) /\ Random \in Seq(Word)
    /\ STACK_PTR + Len(StackArgs) + Len(Random) < SPACE
    /\ \A file \in Elf, patches \in PatchKinds : LoadOps(file, patches) \in Seq(LoaderOp)
    /\ DOMAIN Stored \subseteq Touched /\ \A a \in DOMAIN Stored : Stored[a] \in Word
    /\ ReadFrom \subseteq Touched /\ ReadCount \subseteq 0 .. (SPACE - 1)
    /\ \A p \in PageIndex : p * PAGE_SIZE_WORDS \in Touched

-----------------------------------------------------------------------------
LoaderInit ==
    /\ Init
    /\ reader = NoReader
    /\ elf \in Elf
    /\ kinds \in PatchKinds
    /\ ops = LoadOps(elf, kinds)
    /\ first = 0
    /\ cpu = [pc |-> elf.entry, next_pc |-> (elf.entry + 1) % SPACE, sp |-> 0]
    /\ phase = "writing"
    /\ dumped = NoDump
    /\ logged = << >>

Writing(kind) ==
    /\ phase = "writing" /\ ~ range.busy
    /\ ops # << >> /\ Head(ops).kind = kind
    /\ ops' = Tail(ops)

BeginRange ==
    /\ Writing("range")
    /\ RangeCall(Head(ops).address, Head(ops).data)
    /\ first' = Head(ops).first
    /\ UNCHANGED <<reader, elf, kinds, cpu, phase, dumped, logged>>

(* MultiReader: a read returns what is left of the first part, as much as  *)
(* there is room for in the page, and then the second part.                *)
ReadSize ==
    LET room == PAGE_SIZE_WORDS - OffsetOf(range.address)
        left == IF first > 0 THEN first ELSE Len(range.data)
    IN  IF left < room THEN left ELSE room

ReadChunk ==
    /\ range.busy /\ ReadSize > 0
    /\ RangeChunk(ReadSize)
    /\ first' = IF first > 0 THEN first - ReadSize ELSE 0
    /\ UNCHANGED <<reader, elf, kinds, ops, cpu, phase, dumped, logged>>

(* A slice that is read to its end returns nothing, and never an error.    *)
EndRange ==
    /\ range.busy /\ ReadSize = 0
    /\ RangeTouch(0)
    /\ range' = NoCall
    /\ result' = <<"range", range.address, range.data, TRUE>>
    /\ UNCHANGED <<loading, reader, loadVars>>

StoreWord ==
    /\ Writing("set")
    /\ SetMemory(Head(ops).address, Head(ops).data[1])
    /\ UNCHANGED <<reader, elf, kinds, first, cpu, phase, dumped, logged>>

SetStackPointer ==
    /\ Writing("pointer")
    /\ cpu' = [cpu EXCEPT !.sp = STACK_PTR]
    /\ UNCHANGED <<vars, reader, elf, kinds, first, phase, dumped, logged>>

(* An error ends the command; nothing is dumped.                           *)
Refuse ==
    /\ Writing("fail")
    /\ phase' = "failed"
    /\ UNCHANGED <<vars, reader, elf, kinds, first, cpu, dumped, logged>>

(* Fault: the registers are not part of the dump.                          *)
DumpMemoryOnly ==
    /\ phase = "writing" /\ ops = << >> /\ ~ range.busy
    /\ phase' = "dumped"
    /\ dumped' = [written |-> TRUE, pages |-> [p \in Resident |-> pages[p].data],
                  cpu |-> [cpu EXCEPT !.sp = 0]]
    /\ loading' = FALSE
    /\ UNCHANGED <<nodes, pages, last_page, range, result, reader, elf, kinds, ops, first, cpu,
                   logged>>

(* The state is written to the output if there is one, or that fails.  No  *)
(* range is written any more.                                              *)
Dump ==
    /\ phase = "writing" /\ ops = << >> /\ ~ range.busy
    /\ \/ /\ phase' = "dumped"
          /\ \/ dumped' = [written |-> TRUE, pages |-> [p \in Resident |-> pages[p].data],
                           cpu |-> cpu]
             \/ UNCHANGED dumped
       \/ phase' = "failed" /\ UNCHANGED dumped
    /\ loading' = FALSE
    /\ UNCHANGED <<nodes, pages, last_page, range, result, reader, elf, kinds, ops, first, cpu,
                   logged>>

(* encode_witness and state_hash, the last thing load-elf does and what    *)
(* witness does.  The status in the hash is that of a guest that runs.     *)
After == [dumped |-> "ended", witness |-> "done"]

StateHash ==
    /\ phase \in DOMAIN After
    /\ phase' = After[phase]
    /\ Merkleize({1}, NoPage, {})
    /\ result' = <<"root", MemoryValues[1]>>
    /\ logged' = Append(logged, <<MemoryValues[1], cpu>>)
    /\ UNCHANGED <<last_page, loading, range, reader, elf, kinds, ops, first, cpu, dumped>>

(* Fault: the pages are put into the map without their nodes.              *)
ReadDumpBare ==
    /\ phase = "ended" /\ dumped.written
    /\ nodes' = [g \in {} |-> None]
    /\ pages' = [p \in DOMAIN dumped.pages |->
                    PageInvalidateFull(WithData(DefaultPage, dumped.pages[p]))]
    /\ last_page' = <<NoPage, NoPage>>
    /\ result' = <<"reloaded">>
    /\ cpu' = dumped.cpu
    /\ phase' \in {"witness", "run"}
    /\ UNCHANGED <<loading, range, reader, elf, kinds, ops, first, dumped, logged>>

(* Another process, run or witness, reads the dump.                        *)
ReadDump ==
    /\ phase = "ended" /\ dumped.written
    /\ nodes' = [g \in UNION {Branch[MAX_PAGE_COUNT + p] : p \in DOMAIN dumped.pages} |-> None]
    /\ pages' = [p \in DOMAIN dumped.pages |->
                    PageInvalidateFull(WithData(DefaultPage, dumped.pages[p]))]
    /\ last_page' = <<NoPage, NoPage>>
    /\ result' = <<"reloaded">>
    /\ cpu' = dumped.cpu
    /\ phase' \in {"witness", "run"}
    /\ UNCHANGED <<loading, range, reader, elf, kinds, ops, first, dumped, logged>>

-----------------------------------------------------------------------------
(* The guest stores a word, or makes a write system call.                  *)
GuestStore ==
    /\ phase = "run" /\ reader.state = "none"
    /\ \E address \in DOMAIN Stored : SetMemory(address, Stored[address])
    /\ UNCHANGED <<reader, loadVars>>

GuestWrite ==
    /\ phase = "run"
    /\ \E address \in ReadFrom, count \in ReadCount : ReaderOpen(address, count)
    /\ UNCHANGED loadVars

CopyStep == (ReaderRead \/ ReaderEnd \/ ReaderDrop) /\ UNCHANGED loadVars

LoadStep ==
    \/ BeginRange
    \/ ReadChunk
    \/ EndRange
    \/ StoreWord
    \/ SetStackPointer
    \/ Refuse
    \/ Dump
    \/ StateHash

LoaderNext ==
    \/ LoadStep
    \/ ReadDump
    \/ GuestStore
    \/ GuestWrite
    \/ CopyStep

(* The commands run; nobody has to read the dump, and the guest may stop.  *)
LoaderSpec ==
    LoaderInit /\ [][LoaderNext]_allVars /\ WF_allVars(LoadStep) /\ WF_allVars(CopyStep)

-----------------------------------------------------------------------------
(* The image the file and the patches describe, cell by cell: the last     *)
(* segment that holds the address, zero behind its data, and then one      *)
(* patch after the other.                                                  *)
SegmentCell(a) ==
    LET hit == {i \in DOMAIN elf.segments :
                   /\ elf.segments[i].type # "PT_MIPS_ABIFLAGS"
                   /\ a - elf.segments[i].vaddr \in 0 .. (elf.segments[i].memsz - 1)}
        h   == elf.segments[Max(hit)]
    IN  IF hit = {} THEN 0
        ELSE IF a - h.vaddr < Len(h.file) THEN h.file[a - h.vaddr + 1] ELSE 0

GoCell(a, value) ==
    LET At(i) == (a - elf.symbols[i].value) % SPACE
        hit   == {i \in DOMAIN elf.symbols : \/ elf.symbols[i].name = "GO_SYMBOL" /\ At(i) < 2
                                             \/ elf.symbols[i].name = "MemProfileRate" /\ At(i) = 0}
        i     == Max(hit)
    IN  IF hit = {} THEN value
        ELSE IF elf.symbols[i].name = "GO_SYMBOL" /\ At(i) = 0 THEN RET ELSE 0

StackCell(a, value) ==
    LET i == a - STACK_PTR
    IN  IF i \in 1 .. Len(StackArgs \o Random) THEN (StackArgs \o Random)[i]
        ELSE IF i \in (- 4 * PAGE_SIZE_WORDS) .. (PAGE_SIZE_WORDS - 1) THEN 0
        ELSE value

ImageCell(a) ==
    LET patched[n \in 0 .. Len(kinds)] ==
            IF n = 0 THEN SegmentCell(a)
            ELSE IF kinds[n] = "go" THEN GoCell(a, patched[n - 1])
            ELSE StackCell(a, patched[n - 1])
    IN  patched[Len(kinds)]

Image == [p \in PageIndex |-> [o \in PageOffset |-> ImageCell(p * PAGE_SIZE_WORDS + o)]]

ImageCpu ==
    [pc |-> elf.entry, next_pc |-> (elf.entry + 1) % SPACE,
     sp |-> IF "stack" \in ToSet(kinds) THEN STACK_PTR ELSE 0]

(* What load-elf dumps is the image, whichever way segments overlap, end   *)
(* in a page or at its end, or have no data of their own, and in whichever *)
(* order the patches are asked for; a file that is refused is not dumped.  *)
ImageLoaded ==
    /\ dumped.written =>
           [p \in PageIndex |-> IF p \in DOMAIN dumped.pages THEN dumped.pages[p] ELSE ZeroData]
               = Image
    /\ phase = "failed" => ~ dumped.written

(* The state hash load-elf reports and the one witness computes from the   *)
(* dump in another process are the hash of the image.                      *)
HashesAgree == \A i \in DOMAIN logged : logged[i] = <<MemoryTree(Image)[1], ImageCpu>>

(* The loader and the guest use memory as Memory allows: no range is       *)
(* written once a hash was asked for, every range is read to its end, and  *)
(* what is read back is what was dumped.                                   *)
MemorySpec == Spec

(* load-elf ends, with an error or with a hash, and so does every copy.    *)
LoopsEnd ==
    /\ phase = "writing" ~> phase \in {"failed", "ended"}
    /\ Reading ~> ~ Reading
=============================================================================
