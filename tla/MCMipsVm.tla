------------------------------ MODULE MCMipsVm ------------------------------
(* Words of eight bits: every instruction, once, from any register         *)
(* contents, and any sequence of jumps, branches and moves.                *)
EXTENDS MipsVm

VARIABLE mode   \* "one": a single instruction, "flow": any number of FlowOps

I(op, rs, rt, rd, imm) == [op |-> op, rs |-> rs, rt |-> rt, rd |-> rd, imm |-> imm]

RegisterOps ==
    {"sllv", "srlv", "srav", "sync", "add", "sub", "and", "or", "xor", "nor", "slt", "sltu",
     "mul", "clz", "clo", "movz", "movn", "mfhi", "mthi", "mflo", "mtlo", "mult", "multu",
     "div", "divu", "jr", "jalr", "unknown"}
ShiftOps  == {"sll", "srl", "sra"}
MemoryOps == {"lb", "lh", "lbu", "lhu", "lw", "ll", "lwl", "lwr",
              "sb", "sh", "swl", "swr", "sw", "sc"}

(* Byte offsets of every alignment, both signs of an immediate.            *)
AllInstr ==
    {I(op, 1, 2, rd, 0)    : op \in RegisterOps, rd \in {0, 2}} \cup
    {I(op, 0, 2, 1, imm)   : op \in ShiftOps, imm \in {0, 3, W - 1}} \cup
    {I(op, 1, rt, 0, imm)  : op \in ImmediateOps \cup {"lui"}, rt \in {0, 2}, imm \in {1, 12}} \cup
    {I(op, 1, 2, 0, imm)   : op \in BranchOps, imm \in {1, 15}} \cup
    {I(op, 1, 2, 0, imm)   : op \in MemoryOps, imm \in {0, 1, 15}} \cup
    {I(op, 1, 0, 0, 1)     : op \in MemoryOps} \cup
    {I(op, 0, 0, 0, 5)     : op \in {"j", "jal"}}

EdgeValues == {0, 1, 2, 3, 7, 8, 9, 15, 16, 85, 126, 127, 128, 129, 170, 240, 254, 255}

EdgeMemories == {[a \in WordAddress |-> (27 + 101 * a) % 2^W]}

(* Control flow at full length, from registers that hold zero.             *)
FlowOps == {"none", "j", "jr", "beq", "regimm", "sync"}

MCInit ==
    /\ Init
    /\ mode \in {"one", "flow"}
    /\ mode = "flow" => \A r \in Reg : registers[r] = 0

MCNext ==
    /\ mode = "one" => last = NoInstr
    /\ inner_step
    /\ mode = "flow" => last'.op \in FlowOps
    /\ UNCHANGED mode

MCSpec == MCInit /\ [][MCNext]_<<vars, mode>>
=============================================================================
