# A TLA+ verification of cannon-rs

cannon-rs runs a program compiled to MIPS, one instruction at a time, and can
prove any single instruction to an on-chain contract: the proof of a step is the
state before it, Merkle proofs of the words of memory it touches, and the
preimage it consumes. This directory models the parts of the code that decide
whether those proofs, and the run around them, are right. The modules are
checked with TLC on small instances. Every safety property of every component
is also proved with TLAPS for every size; what fairness guarantees is left to
TLC.

`PROJECT.json` lists the components, the runs, the correspondence of
definitions and source lines, the findings and the hazards.

## 1. The system

| component | state | operations | talks to |
|---|---|---|---|
| memory (`crates/mipsevm/src/memory.rs`, `page.rs`) | pages, each with data and a cache of its tree; the cached nodes above the pages; a lookup cache of two pages | `set_memory`, `get_memory`, `set_memory_range`, `merkle_root`, `merkle_proof`, serialize, deserialize | called by the instructions, by `step`, by the loader |
| instructions (`mips/mips_vm.rs`) | registers, hi, lo, pc, next_pc | `inner_step`, `execute`, `handle_*` | memory, system calls |
| instrumented step (`mips/instrumented.rs`, system calls of `mips_vm.rs`) | the `State`; tracked address and its proof; cached preimage | `step`, `track_mem_access`, `read_preimage`, `handle_syscall` | memory, the preimage oracle |
| hint buffer (`handle_syscall`, write to the hint descriptor) | `state.last_hint` | append, cut off hints | the oracle's `hint` |
| preimage channel (`crates/preimage`) | four pipes; a call of the client; two loops of the server | `hint`, `get`, `next_hint`, `new_preimage_request` | the emulator's process and the server's process |
| kernel (`crates/cannon/src/kernel.rs`) | step number, I/O tasks, server process | `run` | steps the guest; tasks run on other threads; polls the server |
| memory reader (`memory.rs`, `MemoryReader`) | address and count of what is left | `new`, `read` | memory; the two write system calls copy from it |
| loader (`patch.rs`, `load-elf`, `witness`) | the state it builds, the dump | `load_elf`, `patch_go`, `patch_stack`, dump, state hash | writes memory before the program runs; another process reads the dump |
| witness encoding, key types (`state.rs`, `witness.rs`, `crates/preimage/src/types.rs`) | none | `vm_status`, `state_hash`, `encode_preimage_oracle_input` | what a step proves, for the contracts |
| builder, command line, serialisation, tracing, test support | none that lives on | | |

The guest is sequential and so is the emulator. Concurrency comes from the two
processes of the channel, from the I/O tasks, and from the server's exit at any
time. Failure comes from readers, handlers, getters, files, and the guest.
Everything else that is hard here is about *order*: caches that must be
invalidated by every write, whichever hashes were asked for in between; a proof
that must be taken before the write of its own step; a preimage that is read in
pieces over many steps, with other keys and a restart in between.

What makes each component correct:

- memory: it behaves as a flat array of words; its hashes are never stale.
- instructions: loads and stores of every width and alignment, products,
  quotients and shifts have their arithmetic meaning; delay slots are honoured.
- step: a witness holds the state before the step, proofs in memory before the
  step, and the preimage the step used; the input for the oracle contract loads
  the bytes the step read; the preimage descriptor is a stream; the system calls
  agree about descriptors; the exit settles the hash of the run.
- hint buffer: every hint reaches the oracle, in order, once, and no error, kill
  or resume loses one.
- channel: framing is never lost, a hint is handled before `hint` returns,
  nobody waits for ever; in short, a call looks atomic to the emulator.
- memory reader: the bytes of the range, in order, and no others.
- loader: the dump is the image the file and the patches describe, and the
  state hash is the same in the process that made it and in those that read it.
- kernel: a run that succeeds has written what was asked for, has stopped where
  it was asked to, and notices the exit of the server.

## 2. The modules

    MerkleTree <- CachedPage <- AddressSpace <- FlatMemory      (abstract)
                                            <- Memory           (implements FlatMemory)
    Memory <- MemoryReader <- Loader                            (Loader implements Memory)
    MerkleTreeProofs (MerkleTree) <- MemoryProofs (Memory) <- LoaderProofs (Loader)
    OracleService                                               (abstract)
    PreimageChannel                                             (implements OracleService)
    MipsVm      InstrumentedState      HintBuffer      Kernel
    MipsVmProofs  InstrumentedStateProofs  HintBufferProofs  KernelProofs
    PreimageChannelProofs
    MCMemory  MCLoader  MCMipsVm  MCInstrumentedState  MCHintBuffer
    MCPreimageChannel  MCKernel

**MerkleTree, CachedPage, AddressSpace.** `merkleize_subtree` exists twice in
the code, for the nodes inside a page and for those above the pages. Both are
the same recursion: return a settled node, otherwise hash the two children and
store the result. `TreeFold` is what the recursion returns at every node and
`TreeVisit` the nodes it walks through, hence the ones it stores. A digest is
the pair of its operands, so that equal digests mean equal contents. A page is
`data`, `cache` and `valid`, with one word for each 32-byte leaf: the code never
treats the words of a leaf apart when it hashes or invalidates. Trees have any
number of leaves with equal-length generalized indices; the code has 128 leaves
and 2^20 pages.

**Memory.** `nodes`, `pages` and `last_page` are the fields of the struct;
`loading`, `range` and `result` are the phase of the program, the
`set_memory_range` call in progress and the last return value. One action per
operation; `set_memory_range` is one action per chunk its reader delivers, and
the reader may deliver less than asked or fail. `Next` lets ranges be written
only while loading, and hashes be asked for only afterwards, because the only
callers of `set_memory_range` are `load_elf`, `patch_go` and `patch_stack`, and
`load-elf` computes the state hash after them. `Reload` is a snapshot written
and read again, in one step: nothing else can touch the memory in between.

`ReadPage` is the one thing a `MemoryReader` does to memory: a lookup that may
refill the lookup cache.

**FlatMemory** is what `memory.rs` promises: words, roots and proofs of the
words. Its results name the operation and its operands, so that a word that is
lost cannot pass for another return. A range write is a call that carries its
address and its words: its steps put the next words of the call at consecutive
addresses, modulo the address space, and it returns success only when none is
left, or an error with the words that are left. `Memory!FlatMemorySpec` maps the
resident pages to the array and the `set_memory_range` in progress to the call.

**MemoryReader** adds the reader of the write system calls, one action per
`read`. While it exists nothing else can use the memory, as the borrow checker
has it. Here a cell of a page stands for a byte. The buffers of both callers
(`io::copy` with 8 KiB, `read_to_end` into a vector with room for the count)
take whatever one read returns.

**Loader** composes the loader with Memory and MemoryReader. The file is its
program headers and symbols; `LoadOps` is the list of writes that `load_elf`,
`patch_go` and `patch_stack` make of them, an error included, and the actions
carry it out, a range read by read through `MultiReader`. Then come the dump,
the state hash, and another process that reads the dump and computes the hash
again (`witness`) or lets the guest store words and make write calls (`run`).
`Image` is the reference: what a cell holds according to the file and the
patches, without any writing: the last segment that covers the cell, then one
patch after the other, a recursion over the list. The property `MemorySpec` is Memory's own
specification: the phases that Memory assumes of its callers are what the
loader does, so that the theorems of section 4 apply to it.

**MipsVm.** Decoded instructions on words of `4 * B` bits. Shifts are taken
modulo the width and additions wrap, as the build does (`overflow-checks =
false`). `last` is a history variable with the operands of the instruction;
`jumped` is one that says whether it was a jump or a taken branch and where to,
computed from `pc` and the operands alone (`Transfers`, `Target`), so that
`DelaySlot` does not use the code's own idea of a delay slot.
Division by zero, and the quotient that does not fit, are panics. The bitwise
operators are written out (`Low`, one pair of bits after the other) and not
taken from the community module, whose definitions the provers cannot use.

**InstrumentedState.** `st` is `State`, `ins` the fields of the struct around
it. The guest may run any instruction with any operands; memory is a map from
addresses to bytes, and a Merkle proof is the pair of memory and address, since
Memory shows what a proof is worth. `Restart` is a resume from a snapshot: `st`
stays, `ins` is new. `touched`, `guestKey`, `readout`, `mapped` and `learnt` are
history variables that say what the guest did and was told, independently of
the code's own fields. The length prefix of a preimage is one byte and a word
two. `encode_preimage_oracle_input` and `state_hash` are operators on witnesses
and states, with the layout left out; `LoadedPart` is what the oracle contract
(external) offers after such a call.

**HintBuffer.** The buffer and its loop, one oracle call per step. `Chunking`
says how the guest cuts its stream of hints into writes: "hints" as the hint
writers of this repository do, one write for each hint (or its prefix in
parts), or "any". The oracle may fail, and the run may end at any point, in the
middle of a system call too; `Resume` starts again from the input or the last
snapshot, with a new server. `base` and `handled` are history.

**PreimageChannel.** Blocking pipes with `Capacity` bytes, a client that makes
any sequence of calls, and a server that runs one loop around each of its two
functions; handlers and getters may fail, and after an error the server goes on
or gives up. `HoldServerEnds` says whether the emulator's process keeps the
server's pipe ends, as the kernel does (`ChildWithFds`). The behaviour of a pipe
is external: writes block while it is full, reads while it is empty, and the
end of the stream or a broken pipe is seen when no open end is left. A kernel
without a server command drops the server's ends at once; that is a server that
exits before the first call. `hint` makes a single `write` and drops its count
(`hints.rs:26`): on a blocking pipe that call returns when everything is copied,
so `HintWrite` continues until nothing is left. `unanswered` is a history
variable: the getter failed on the key of the last `get`. It is the only excuse
`CallsReturn` has for a call that does not return while the server goes on.

**OracleService** is what the emulator expects of the channel: a hint is handled
once and inside its call, `get` returns the preimage of its key, and a call
fails only when the server is gone. `PreimageChannel!ImplementsService` maps the
program counters and pipes to it.

**Kernel.** `run` as a program counter, tasks that create and write their file
on other threads, and a server that may exit at any time. A state of the guest
is its step number. A snapshot and a proof are started in the same step as in
the code, and the check uses the number from before the step. `FitsBuffer` says
whether the files are small enough to stay in the buffer of a `BufWriter`.

## 3. The runs

| run | shows | bounds |
|---|---|---|
| `memory` | `HashesFresh`, `InvalidPageInvalidBranch`, `LastPageResident`, refinement of FlatMemory | 4 pages of 4 leaves: an interior level above the pages and inside them; three addresses, two in one page; ranges that end in a page, at its end, and in the next one |
| `loader` | `ImageLoaded`, `HashesAgree`, `ReaderExact`, `LoopsEnd`, refinement of Memory | 8 pages of 4 cells; segments that overlap, are out of order, end in a page, at its end and one cell before the top, are padded across a page or have no data; symbols across a page and across the top; one file for every refusal; four lists of patches; reads of 0 to 31 cells, from four places |
| `mips` | loads, stores, hi/lo, shifts, counts against references; `DelaySlot`, `RegisterFile` | words of 8 bits, 18 boundary values in two registers, every opcode, each once; control flow without a bound on its length |
| `mips_shift_zero` | **violation**: `sra` and `srav` by zero clear their operand | same |
| `step_preimage` | `PreimageStream`, `StepWitnessed`, `OracleInputSuffices` | words and keys of 2 bytes, five preimages (empty, shorter and longer than a word, local, global, too long for a local one, of no type), 6 steps: a key takes up to two writes, its preimage up to three reads, and two keys can be stored, written and read in turn |
| `step_syscalls` | `MmapDisjoint`, `StepWitnessed`, `DescriptorModes`, `ExitIsFinal` | 8 pages, sizes around a page and one that wraps, descriptors and exit codes within and beyond the cast, 4 steps |
| `hints` | `NoHintLost`, `HintsDelivered`, `BufferInRange`, `WriteReturns` | any number of snapshots, failures and resumes; 14 hints of 0 to 6 bytes, every order of the two sizes next to each other that matters: empty after empty, long after short |
| `hints_any_write` | **violation**: two hints in one write | same |
| `channel` | framing, order, quiet pipes; refinement of OracleService; `CallsReturn`, `ServerDrains`, `ExitReleasesClient` | pipes of 3 bytes, messages of 2 to 5, five hints and any number of gets |
| `channel_held` | **violation**: with the server's ends held, a call outlives the server for ever | same |
| `kernel` | `OutputsWritten`, `StopsWhereAsked`, `ServerExitNoticed`, `RunEnds` | no step (an input state that has exited) up to 3 steps, a look at the server every 2; every kind of pattern, `%0` too; shared and separate paths |
| `kernel_flush` | **violation**: a small file whose flush fails is reported as written | same |

Deadlock is not checked where the system may stop: a guest that has exited, a
run that has ended, a client that is closed. In `memory` it is checked.

Fairness. `PreimageChannel` assumes weak fairness of the three threads: a thread
that can run does, by the scheduler; nothing makes the client call or close, or
the server exit, a getter succeed or a handler fail. `Kernel` assumes weak
fairness of the loop and of the tasks together, `HintBuffer` of the emulator's
thread inside one system call, `Loader` of the `load-elf` and `witness` processes
and of a copy in progress. Nothing makes a guest store or write, a snapshot be
taken, or a run be resumed.

### Findings

1. The test `hint_len >= last_hint.len() - 4` (`mips_vm.rs:307`) is the wrong
   way round. It works when a write ends exactly where a hint ends; two hints in
   a write leave the first one in the buffer, and part of a payload panics in
   the slice. (`hints_any_write`)
2. `sign_extend(_, 32)` is 0, so `sra` and `srav` by 0 give 0
   (`mips_vm.rs:613`, `619`, `750`). (`mips_shift_zero`)
3. The kernel holds the server's pipe ends, so a call that is waiting when the
   server exits, or is made later, is never released, and the periodic check is never reached
   (`kernel.rs:177`, `types.rs:25`). (`channel_held`)
4. Files written through a `BufWriter` are flushed on drop, where an error is
   lost, after the message that they were written (`kernel.rs:129`, `131`).
   (`kernel_flush`)

Read, and not made runs of their own:

- A jump or a taken branch in a delay slot is refused by comparing `next_pc` with
  `pc + 4` (`mips_vm.rs:532`). In the slot of a jump to the address after the
  slot the two are equal, and a jump there is executed. Control passes to the
  first target as it should, since that is the next instruction anyway, and the
  second jump's slot is the instruction there. `DelaySlot` says so.
- `set_memory_range` invalidates a resident page and not the nodes above it
  (`memory.rs:327`). After `merkle_root` this would leave a valid root above an
  invalid page, against the comment at `memory.rs:73`. The program only writes
  ranges before it hashes, which is what `UsesMemory` proves (section 4); the
  public method does not say so.
- `proof_format` is documented as "Proof data is written to stdout if this is
  not specified" (`kernel.rs:32`), while the code defaults to `%d.json.gz`
  (`kernel.rs:86`), the default of snapshots too. In `Kernel` both defaults are
  the path `<<"default", s>>`, and `OutputsWritten` leaves open what a shared
  file holds.
- `encode_preimage_oracle_input` is documented to return `None` when there is no
  preimage request (`witness.rs:72`); it also does so for keys of no type and
  for local values that are too long. `OracleInputSuffices` states which.
- `load-elf` writes its dump through a `BufWriter` as well (`load_elf.rs:84`),
  with the weakness of finding 4. `Loader` has a dump that succeeds or fails.
- After a resume the new server is not given the hints of earlier runs: a server
  that needs them has to be told again by its operator. `HintsDelivered` counts
  from the state the run was resumed from.
- A write system call whose range wraps around into the page it began in panics
  in `MemoryReader::read` (`memory.rs:462`). `ReaderExact` says that no other
  range does.

## 4. The proofs

Every theorem has the form `Spec => []P`, `Spec => [][A]_vars` or `Spec =>
OtherSpec`, for every value of the constants that the assumptions at the end of
this section allow. Each rests on an inductive invariant of its module (`IInv`;
in LoaderProofs `LoaderInv` and `ImageInv`), because the properties below are not
preserved by the steps on their own. In MipsVm `RegisterFile` is inductive as it
stands, and `DelaySlot` rests on an invariant of its own.

### Memory (MemoryProofs, MerkleTreeProofs)

For every number of pages and of leaves per page (with generalized indices of
equal length, which holds for powers of two), every set of words that has zero,
every set of addresses and every set of range inputs:

- `TypeCorrect`, `LookupCache`, `InvalidBranches`: `TypeOK`,
  `LastPageResident` and `InvalidPageInvalidBranch` are invariants;
- `CachesNeverStale`: `HashesFresh` is an invariant;
- `ImplementsFlatMemory`: `Spec => FlatMemorySpec`. A `set_memory` changes the
  word it names and no other, a chunk of a range writes the next words of that
  range, wherever pages cut it and also over the top of the address space, no
  other operation changes a word, and what reads, roots and proofs return is
  computed from the words.

`HashesFresh` is not inductive: it says what the recursion returns, and a write
changes which nodes the recursion trusts. `IInv` adds what the caches hold. In a
page and above the pages a settled node is *coherent*: its value is the hash of
its children's values and its children are settled too, in other words a valid
node never stands above an invalid one. From coherence, a least counterexample
on the node numbers, taken from the bottom, gives that the fold over settled
nodes equals the fold over the leaves (`CoherentFold`), that storing the nodes
of a visit keeps coherence (`CoherentStore`), and that invalidating a branch, or
every node up to an index, keeps it (`PageWriteOK`, `ReplacePage`). A subtree
without an entry in `nodes` holds no resident page, and its value is the
precomputed zero hash (`ZeroAbove`, `ZeroPage`). While loading no node above the
pages is valid (`LoadingUnhashed`), which is why `set_memory_range` may leave
them alone, and why the theorem is false for a caller that writes ranges after
hashing. That the loader is no such caller is the theorem `UsesMemory` below.

The trees are recursive functions, and the installed provers cannot use the
library's induction theorems. `MerkleTreeProofs` derives what is needed from the
well-foundedness of the naturals, as least-element arguments: that `Bits`,
`Branch`, `ZERO_HASHES` and the fold exist and unfold as defined, and the facts
about branches and visits. The refinement is `StepSimulation`: one step for each
action, the hashes replaced by their fresh values with `IInvFresh`. A chunk is
the one that takes arithmetic: the code counts inside a page, FlatMemory counts
addresses from the start of the call (`Distance`, `ChunkCells`).

### Loader and memory reader (LoaderProofs)

- `UsesMemory`: `LoaderSpec => MemorySpec`. Every step of `load-elf`, of the
  process that reads the dump and of the guest is a step of Memory or leaves
  memory alone. So the theorems about Memory hold of the program that uses it:
- `LoaderHashes`: `HashesFresh` is an invariant of `LoaderSpec`;
- `LoaderFlat`: `LoaderSpec => FlatMemorySpec`;
- `CopyExact`: `ReaderExact` is an invariant of `LoaderSpec`;
- `DumpsImage`, `HashesImage`: `ImageLoaded` and `HashesAgree` are invariants of
  `LoaderSpec`.

`LoadInv` says what the phase of the commands implies: ranges are written only
while loading, none is in progress afterwards, a reader exists only in a guest
that runs, and until another process reads it the dump holds the data of the
resident pages (so that reading it back is Memory's `Reload`). `ReaderInv` says
where a reader is: its address is the address it was made for plus what it has
given, modulo the address space, and it has given just the cells before that.
`OneRead` is the arithmetic of one `read`, with its cut at the end of the page
and of the count, its wrap at the top and its panic.

`ImageLoaded` speaks of the dump alone and is far from inductive. `ImageInv` says
what is true while there is still something to write: if none of the writes left
in `ops` is an error, they turn what memory holds now, with the range in progress
counted as written (`Pending`), into `Image`, cell by cell. `Leaves(s, x, v, w)`
is this for one cell, or for the stack pointer: the list of writes `s` takes the
value of `x` from `v` to `w`, because the last write that hits `x` puts `w` there,
or none does and `w` is `v`. It is stated with one index, without recursion, so
that it composes over lists (`LeavesConcat`) and loses its head when a write is
done (`LeavesTail`). `FlattenLeaves` carries it over the lists of lists that
`LoadOps` is flattened from. `SegmentLeaves`, `SymbolLeaves` and `StackLeaves`
are what one header, one symbol and `patch_stack` do to a cell, with addresses
that wrap and zeros behind the data; `LoadLeaves` puts them together as
`ImageCell`, whose recursion is unfolded by a least counterexample. In the steps,
`ChunkPending` is the one that matters: a read moves cells from pending to
memory, cut at the end of the page and wrapping at the top, and changes no
pending value. With nothing left, memory is `Image`; by `IInvFresh` what is
hashed then, and again in the process that reads the dump, is its tree.

### Instructions (MipsVmProofs)

- `RegistersCorrect`, `HiLoCorrect`, `ShiftsCorrect`, `NarrowCorrect`,
  `UnalignedCorrect`: `RegisterFile`, `HiLoExact`, `ShiftsAndCounts`,
  `NarrowAccess` and `UnalignedWords` are invariants;
- `DelaySlotCorrect`: the action property `DelaySlot`. Its invariant `NextPc`
  says that `next_pc` is where the last instruction sent control: the target if
  it was a jump or a taken branch, else the address after `pc`. Every step keeps
  it (`ControlStep`), by the guards of `handle_jump` and `handle_branch`.

They hold for words of 4, 8, 16 and 32 bits, the last the code's, and for every
operand, address, memory and sequence of instructions. `RegisterFile` is
inductive: the work is that every operator of `execute` returns a word. The
others follow from it and from the form of one step: after a step with the
instruction they are about they hold whatever came before, and after any other
they hold vacuously. What has to be shown is arithmetic. The bitwise operators
are recursions over the width; a least counterexample gives their value on a
number split at a power of two, hence that `&` with a mask of low bits is a
remainder, that a disjoint `|` is a sum, and what `^^` with a mask does. With
these a word is the sum of its bytes and every load or store is a case
distinction on the two low bits of the address. For `lwl`/`lwr` and `swl`/`swr`
the two halves are in two words unless the address is aligned, and the top of
memory is next to its bottom.


### Instrumented step (InstrumentedStateProofs)

- `StreamCorrect`, `MmapCorrect`: `PreimageStream` and `MmapDisjoint` are
  invariants;
- `WitnessCorrect`, `InputCorrect`, `ModesCorrect`, `ExitCorrect`: the action
  properties `StepWitnessed`, `OracleInputSuffices`, `DescriptorModes` and
  `ExitIsFinal`.

`CacheInv` is what the stream needs: the cached preimage is the one of its
cached key, with its length in front, or there is none; a restart drops both, a
change of key in the state drops neither, and the next read compares the keys.
`StreamInv` adds that the guest has not read past the end; `MapInv` that the heap
pointer starts a page until it wraps; `LearntInv` which answers a descriptor can
get. The action properties are derived from `StepForm` (lemma `Forms`): every
step aborts, stutters on an exited state, restarts, or returns a state and a
witness of a given form. `InputOf` and `PartRead` compare what the oracle
contract would load with what the step read.

### Hint buffer (HintBufferProofs)

Under the hypothesis `Chunking = "hints"`:

- `BufferCorrect`, `DeliveryCorrect`, `HandledCorrect`: `BufferInRange`,
  `HintsDelivered` and `NoHintLost` are invariants.

The hypothesis cannot be dropped: `hints_any_write` is the counterexample, finding
1. With one hint per write, `IInv` says that between system calls the buffer is
*resting*: it holds a part of the prefix of the next hint and never a whole
prefix. Inside the loop it may also be *whole*: that hint and nothing after it,
which is the one case in which the length test and the slice of the code are
right. The state a run is resumed from is at rest too, and every hint before it
was handled (`SavedInv`): this is why a kill in the middle of a system call, or
an error of the oracle, only makes the next run deliver a hint again. `Stream` is
flattened from the hints; where each hint begins in it (`Start`) is
found by a least-counterexample induction on the number of hints.

### Preimage channel (PreimageChannelProofs)

- `AnswersCorrect`, `HintsCorrect`, `PrefixesWhole`, `PipesQuiet`:
  `AnswerMatchesKey`, `HintHandledFirst`, `NoTornPrefix` and
  `QuietBetweenCalls` are invariants;
- `Implements`: `Spec => ImplementsService`, the refinement of OracleService.

`CallInv` accounts for every byte of the one call in progress: `HintCall(h, c)`
says that `c` bytes of hint `h` have left the client, and splits them between
the pipe and the server's hint loop, or says that the hint has been routed and
where its acknowledgement is; `GetCall(k)` does the same for a key and for its
answer. A prefix is in a pipe as a whole or not at all, because it is
written first, into an empty pipe that has room for it. That is `NoTornPrefix`,
and it rests on the capacity in `ChannelAssumption`. The refinement maps the
client's program counter and the server's progress to a call of the service;
each action is the service's call, handling, return or failure, or a stutter.

### Kernel (KernelProofs)

- `TypeCorrect`, `StopsCorrect`, `ServerNoticed`: `TypeOK`, `StopsWhereAsked`
  and `ServerExitNoticed` are invariants;
- `OutputsCorrect`: with `~ FitsBuffer`, `OutputsWritten` is an invariant.

`LoopInv` says what `run` has found out about each step executed; `ServerInv` that
no look at the server was due since it exited, but for the one of the last step;
`TaskInv` that there is one task for each output that was due by now, and that
the tasks before the awaited one are done; `PathInv` and `FileInv` where each
writes, and that a task with a path of its own has written what is in its file.
The hypothesis `~ FitsBuffer` says that no file is small enough to stay in the
buffer of its writer; without it `kernel_flush` is the counterexample, finding 4.

### Assumptions

TLC evaluates each of them in the runs of its module.

- `PageSizeAssumption`, `PageCountAssumption`, `WordAssumption`,
  `CallerAssumption`: the trees are complete, zero is a word, and the parameters
  of the callers are addresses and words. A digest is injective
  (`keccak_concat_hashes`), the usual idealisation of keccak256.
- `LoaderAssumption`: Memory's parameters cover what the loader writes and the
  guest uses. The count of a write system call is a register, hence smaller than
  the address space. Headers and symbols have fields of the right types, no
  range is longer than the address space, and the stack that `patch_stack` clears
  and what it puts there lie within it (0x7fffd000 and five pages, in the code).
- `MipsAssumption`: a byte has 1, 2, 4 or 8 bits, registers 0 and 31 exist, and
  what registers and memory hold at first are words.
- `InstrumentedAssumption`: sizes and types of words, keys, pages and of what the
  guest does; the descriptors fit a byte; the length of a preimage fits its
  prefix; and the key of 32 zero bytes, the code's mark for "no preimage cached",
  has no preimage (a key's first byte is its type, and zero is no type).
- `HintAssumption`: the prefix is not empty.
- `ChannelAssumption`: a pipe holds at least a length prefix and a key: 8 and
  32 bytes against the 4096 that POSIX writes atomically. Payloads may be longer
  than a pipe.
- `KernelAssumption`: the guest exits at the step it starts at (the input state
  has exited) or later, and the period of the look at the server is not zero.

Two proofs that failed were findings about the model. Trying to prove
`DescriptorModes` showed that `SyscallResult` had a CASE with overlapping guards.
TLC takes the first arm that is true and TLA+ any; the guards are now disjoint,
in the order of the code's `match`. `NarrowAccess` and `UnalignedWords` used to
claim that a load into register 0 delivers the loaded bytes, which `handle_rd`
rightly ignores; no instruction of the run named that register, so TLC
had not seen it. They now except it, and the run has such loads and stores.

### Only model-checked

Every liveness property, which needs fairness: `LoopsEnd`, `WriteReturns`,
`CallsReturn`, `ServerDrains`, `ExitReleasesClient`, `RunEnds`. Fairness and
`ENABLED` are out of the provers' reach. The violations of section 3 are
counterexamples that TLC finds.

## 5. Not modelled

- Fixed layouts and conversions: the byte offsets of a witness, the ABI
  encoding, the input of the MIPS contract (`encode_step_input`), hex and gzip.
  They have no state, and a model could only repeat the offsets.
- ELF parsing is the `elf` crate's. A file that does not parse ends the command
  before it writes anything.
- Argument parsing, the setters of the builder, spawning the server process,
  `usage()`, `info_at` and logging.
- The EVM harness, test oracles and benchmarks: they check the emulator against
  the contracts, and are not part of it. Whether the *contract* accepts a
  witness is outside this repository; `LoadedPart` is the only thing assumed of
  it.
- The constructors of typed keys (`LocalIndexKey`, `Keccak256Key`): the emulator
  passes raw keys and looks at their type only in the oracle input.
- In InstrumentedState the registers are not modelled, so that a system call's
  operands are any values.

## 6. Plan

Done: the memory with its proofs, the instructions, the step with its system
calls and what it gives to the contracts, the hint buffer with resumes, the
channel and the service it implements, the memory reader, the loader, the
kernel.

Every invariant and every action property that a passing run checks is also a
theorem, and so are the three refinements. What could come next:

1. The widths of MipsVm are a finite list (`B` in 1, 2, 4, 8), because the case
   distinctions on byte positions divide by powers of two. The lemmas about
   bitwise operators argue from one bit to the next and not by cases on the
   width, but they too take the powers of two from a list, up to 32.
2. Registers in InstrumentedState, so that its steps and those of MipsVm are
   steps of one machine, on Memory instead of a map of bytes.
3. A model of the contract's side of a step, from which the witness properties
   would follow instead of being stated.
