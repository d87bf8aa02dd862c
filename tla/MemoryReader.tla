---------------------------- MODULE MemoryReader ----------------------------
(***************************************************************************)
(* crates/mipsevm/src/memory.rs, MemoryReader: a reader of `count` cells   *)
(* from `address` on, which the write system calls copy from.  A read      *)
(* returns what is left of the range in one page.  Sums of addresses wrap, *)
(* and nothing else can use the memory while the reader borrows it.        *)
(*                                                                         *)
(* A cell of a page stands for a byte here.  A read never returns more     *)
(* than a page, which fits the buffers of both callers.                    *)
(***************************************************************************)
EXTENDS Memory

VARIABLE reader   \* the reader in use: what it was made for, where it is, what it gave

NoReader == [state |-> "none", from |-> 0, asked |-> 0,
             address |-> 0, count |-> 0, got |-> << >>]
Reading  == reader.state = "reading"

ReaderOpen(address, count) ==
    /\ ~ range.busy /\ reader.state = "none"
    /\ reader' = [NoReader EXCEPT !.state = "reading", !.from = address, !.asked = count,
                                  !.address = address, !.count = count]
    /\ UNCHANGED vars

(* Fault: the end is compared with the last cell of the range.             *)
ReadEndInclusive ==
    LET last == (reader.address + reader.count - 1) % SPACE
    IN  IF PageOf(reader.address) = PageOf(last) THEN OffsetOf(last) ELSE PAGE_SIZE_WORDS

(* The offset at which a read stops: where the range ends if that is in    *)
(* the page of the address, the end of the page otherwise.                 *)
ReadEnd ==
    LET end_address == (reader.address + reader.count) % SPACE
    IN  IF PageOf(reader.address) = PageOf(end_address)
        THEN OffsetOf(end_address)
        ELSE PAGE_SIZE_WORDS

(* Fault: the cells are taken from the beginning of the page.              *)
CellsFromStart(p, start, end) ==
    [i \in 1 .. (end - start) |-> IF p \in Resident THEN pages[p].data[i - 1] ELSE 0]

(* The cells of one page from one offset to another: zeros if the page is  *)
(* not resident.                                                           *)
Cells(p, start, end) ==
    [i \in 1 .. (end - start) |-> IF p \in Resident THEN pages[p].data[start + i - 1] ELSE 0]

(* A range that ends before it starts panics.                              *)
ReaderRead ==
    LET p     == PageOf(reader.address)
        start == OffsetOf(reader.address)
        n     == ReadEnd - start
    IN  /\ Reading /\ reader.count # 0
        /\ ReadPage(reader.address)
        /\ reader' = IF n < 0
                     THEN [reader EXCEPT !.state = "panic"]
                     ELSE [reader EXCEPT !.address = (@ + n) % SPACE,
                                         !.count   = @ - n,
                                         !.got     = @ \o Cells(p, start, ReadEnd)]

(* A read that returns nothing ends the copy.                              *)
ReaderEnd ==
    /\ Reading /\ reader.count = 0
    /\ reader' = [reader EXCEPT !.state = "done"]
    /\ UNCHANGED vars

(* The system call returns and the reader is gone.                         *)
ReaderDrop ==
    /\ reader.state = "done"
    /\ reader' = NoReader
    /\ UNCHANGED vars

-----------------------------------------------------------------------------
(* The write system calls see the cells of the range in order, across page *)
(* boundaries, the end of the address space and pages that are not there,  *)
(* and as many as the guest asked for; only a range that comes around to   *)
(* the page it began in makes the reader panic.                            *)
ReaderExact ==
    /\ reader.state = "done" =>
           reader.got = [i \in 1 .. reader.asked |->
                            LET a == (reader.from + i - 1) % SPACE
                            IN  FlatData[PageOf(a)][OffsetOf(a)]]
    /\ reader.state = "panic" => reader.asked > SPACE - PAGE_SIZE_WORDS
=============================================================================
