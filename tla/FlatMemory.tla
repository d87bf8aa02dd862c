----------------------------- MODULE FlatMemory -----------------------------
(***************************************************************************)
(* What crates/mipsevm/src/memory.rs promises its callers: an array of     *)
(* words, initially zero, whose Merkle root and Merkle proofs are those of *)
(* the words it holds.  There are no resident pages, caches or             *)
(* invalidation here; Memory is shown to implement this specification.     *)
(*                                                                         *)
(* A result names the operation that returned it and its operands, so that *)
(* no operation can pass for another one.                                  *)
(***************************************************************************)
EXTENDS AddressSpace

VARIABLES
    mem,      \* the word at every offset of every page of the address space
    call,     \* the range write in progress: where it is, the words it has left
    result    \* what the last operation returned

flatVars == <<mem, call, result>>

NotCalled == [busy |-> FALSE, address |-> 0, data |-> << >>]

FlatInit ==
    /\ mem = [p \in PageIndex |-> ZeroData]
    /\ call = NotCalled
    /\ result = <<"new">>

FlatSet(address, value) ==
    /\ ~ call.busy
    /\ mem' = [mem EXCEPT ![PageOf(address)][OffsetOf(address)] = value]
    /\ result' = <<"set", address, value>>
    /\ UNCHANGED call

FlatGet(address) ==
    /\ ~ call.busy
    /\ result' = <<"get", address, mem[PageOf(address)][OffsetOf(address)]>>
    /\ UNCHANGED <<mem, call>>

FlatRoot ==
    /\ ~ call.busy
    /\ result' = <<"root", MemoryTree(mem)[1]>>
    /\ UNCHANGED <<mem, call>>

FlatProof(address) ==
    /\ ~ call.busy
    /\ result' = <<"proof", address,
                   ProofOf(PageTree(mem[PageOf(address)]), MemoryTree(mem), address)>>
    /\ UNCHANGED <<mem, call>>

(* A range write: a call with an address and words, ...                    *)
FlatCall(address, data) ==
    /\ ~ call.busy
    /\ call' = [busy |-> TRUE, address |-> address, data |-> data]
    /\ UNCHANGED <<mem, result>>

(* ... the next n of its words, at consecutive addresses, the first one    *)
(* following the last one, ...                                             *)
FlatWords(n) ==
    /\ call.busy /\ n \in 1 .. Len(call.data)
    /\ mem' = [p \in PageIndex |-> [o \in PageOffset |->
                  LET i == (p * PAGE_SIZE_WORDS + o - call.address) % SPACE
                  IN  IF i < n THEN call.data[i + 1] ELSE mem[p][o]]]
    /\ call' = [busy    |-> TRUE,
                address |-> (call.address + n) % SPACE,
                data    |-> SubSeq(call.data, n + 1, Len(call.data))]
    /\ UNCHANGED result

(* ... and its end: with success only when no words are left.              *)
FlatReturn(ok) ==
    /\ call.busy
    /\ ok => call.data = << >>
    /\ result' = <<"range", call.address, call.data, ok>>
    /\ call' = NotCalled
    /\ UNCHANGED mem

(* Memory is saved and loaded again.                                       *)
FlatReload ==
    /\ ~ call.busy
    /\ result' = <<"reloaded">>
    /\ UNCHANGED <<mem, call>>

FlatNext ==
    \/ \E address \in Touched : \/ \E value \in Word : FlatSet(address, value)
                                \/ \E data \in RangeData : FlatCall(address, data)
                                \/ FlatGet(address)
                                \/ FlatProof(address)
    \/ FlatRoot
    \/ \E n \in 1 .. Len(call.data) : FlatWords(n)
    \/ \E ok \in BOOLEAN : FlatReturn(ok)
    \/ FlatReload

FlatSpec == FlatInit /\ [][FlatNext]_flatVars
=============================================================================
