------------------------------ MODULE MCLoader ------------------------------
(* Loader on eight pages of four cells, with the stack in page 6.          *)
EXTENDS Loader

Segment(type, vaddr, file, memsz) ==
    [type |-> type, vaddr |-> vaddr, file |-> file, memsz |-> memsz, whole |-> TRUE]
Symbol(name, value) == [name |-> name, value |-> value, aligned |-> TRUE]
File(segments, symbols) ==
    [entry |-> 1, segments |-> segments, symbols |-> symbols, stripped |-> FALSE]

(* Segments that are out of order and overlap, one of them filled up with  *)
(* zeros across a page; functions to patch across a page boundary.         *)
Overlapping ==
    File(<<Segment("PT_LOAD", 6, <<4, 4>>, 2), Segment("PT_MIPS_ABIFLAGS", 0, <<4>>, 3),
           Segment("PT_LOAD", 1, <<4, 5, 4>>, 5), Segment("PT_NOTE", 5, <<5>>, 1)>>,
         <<Symbol("GO_SYMBOL", 3), Symbol("other", 1), Symbol("MemProfileRate", 6)>>)

(* Nothing but zeros up to the last cell but one, a segment that ends with *)
(* its page, no size at all, and a function at the end of memory.          *)
Edges ==
    File(<<Segment("PT_LOAD", 0, <<5, 5, 5, 5>>, 4), Segment("PT_LOAD", 28, << >>, 3),
           Segment("PT_LOAD", 9, << >>, 0)>>,
         <<Symbol("GO_SYMBOL", 31), Symbol("GO_SYMBOL", 24)>>)

MCElf == {
    Overlapping, Edges,
    [Edges EXCEPT !.stripped = TRUE],
    [Edges EXCEPT !.symbols[2] = [name |-> "MemProfileRate", value |-> 24, aligned |-> FALSE]],
    [Edges EXCEPT !.symbols[2].name = "unreadable"],
    [Edges EXCEPT !.segments[2].memsz = 4],
    [Edges EXCEPT !.segments[1].memsz = 3],
    [Edges EXCEPT !.segments[1].whole = FALSE],
    [Edges EXCEPT !.segments[2].type = "PT_NOTE"]}

MCPatchKinds == {<<"go", "stack">>, <<"stack", "go">>, <<"stack">>, << >>}
MCStackArgs  == <<1, 2>>
MCRandom     == <<3, 3>>
MCStored     == (2 :> 3) @@ (13 :> 1)
MCRangeData  == UNION {{op.data : op \in ToSet(LoadOps(file, patches))} :
                           file \in MCElf, patches \in MCPatchKinds}
=============================================================================
