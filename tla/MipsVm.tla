------------------------------- MODULE MipsVm -------------------------------
(***************************************************************************)
(* crates/mipsevm/src/mips/mips_vm.rs: one instruction of the emulator,    *)
(* system calls excepted (InstrumentedState).  Registers and memory words  *)
(* are 4 * B bits wide, a word being four bytes of B bits (8 in the code), *)
(* and all arithmetic wraps as the build's does.                           *)
(*                                                                         *)
(* An instruction is decoded: `op` names the opcode or function code,      *)
(* `rs`, `rt` and `rd` are register numbers and `imm` is the immediate,    *)
(* the shift amount or the jump index.                                     *)
(***************************************************************************)
EXTENDS Integers

CONSTANTS
    B,           \* bits of a byte
    TargetBits,  \* bits of a jump target: 26 + 2 in the code
    Reg,         \* register numbers, 0 and 31 among them
    Instr,       \* the instructions the guest may contain
    Values,      \* what the registers may hold at first
    Memories     \* what memory may hold at first

W      == 4 * B
Word   == 0 .. (2^W - 1)
WordAddress == 0 .. (2^(W - 2) - 1)

ASSUME MipsAssumption ==
    /\ B \in {1, 2, 4, 8}
    /\ TargetBits \in 2 .. W
    /\ {0, 31} \subseteq Reg
    /\ Values \subseteq Word
    /\ Memories \subseteq [WordAddress -> Word]
    /\ \A i \in Instr : {i.rs, i.rt, i.rd} \subseteq Reg /\ i.imm \in Nat

VARIABLES
    registers, hi, lo,
    pc, next_pc,
    memory,     \* word address -> word
    status,     \* "running", "err" (an Err is returned) or "panic"
    last,       \* history: the instruction that ran last and its operands
    jumped      \* history: whether it was a jump or a taken branch, and to where

vars == <<registers, hi, lo, pc, next_pc, memory, status, last, jumped>>

-----------------------------------------------------------------------------
(* u32 arithmetic.  Shift amounts are taken modulo the width.              *)

Wrap(x)   == x % 2^W
Shl(x, n) == Wrap(x * 2^(n % W))
(* Fault: a shift by the width or more gives zero.                         *)
ShrUnmasked(x, n) == IF n \in 0 .. (W - 1) THEN x \div 2^n ELSE 0

Shr(x, n) == x \div 2^(n % W)

(* The bitwise operators: table says what becomes of a pair of bits, given *)
(* how many of them are set; Low(table, x, y)[n] is made of the n lowest   *)
(* pairs.                                                                  *)
Bit(x, k) == (x \div 2^k) % 2

Low(table, x, y) ==
    LET low[n \in 0 .. W] ==
            IF n = 0 THEN 0
            ELSE low[n - 1] + table[Bit(x, n - 1) + Bit(y, n - 1)] * 2^(n - 1)
    IN  low

AndTable == [set \in 0 .. 2 |-> IF set = 2 THEN 1 ELSE 0]
OrTable  == [set \in 0 .. 2 |-> IF set = 0 THEN 0 ELSE 1]
XorTable == [set \in 0 .. 2 |-> IF set = 1 THEN 1 ELSE 0]

x & y  == Low(AndTable, x, y)[W]
x | y  == Low(OrTable, x, y)[W]
x ^^ y == Low(XorTable, x, y)[W]

(* Fault: a mask is not inverted.                                          *)
FlipNot(x) == x

Flip(x)   == 2^W - 1 - x
Signed(x) == IF x < 2^(W - 1) THEN x ELSE x - 2^W
Ones      == 2^W - 1

(* Fault: the bit above the sign bit is tested.                            *)
sign_extend_above(data, index) ==
    LET signed == Shl(Wrap(Shl(1, W - index) - 1), index)
        mask   == Wrap(Shl(1, index) - 1)
    IN  IF Shr(data, index) # 0 THEN (data & mask) | signed ELSE data & mask

sign_extend(data, index) ==
    LET is_signed == Shr(data, index - 1) # 0
        signed    == Shl(Wrap(Shl(1, W - index) - 1), index)
        mask      == Wrap(Shl(1, index) - 1)
    IN  IF is_signed THEN (data & mask) | signed ELSE data & mask

(* The loop of clo.                                                        *)
LeadingOnes[x \in Word] ==
    IF x >= 2^(W - 1) THEN 1 + LeadingOnes[Shl(x, 1)] ELSE 0

SignExtImm(i) == sign_extend(i.imm % 2^(2 * B), 2 * B)
ZeroExtImm(i) == i.imm % 2^(2 * B)

-----------------------------------------------------------------------------
(* execute.  In a load or store rs is the effective address and mem the    *)
(* word it falls into.                                                     *)

ImmediateOps == {"addi", "slti", "sltiu", "andi", "ori", "xori"}

(* Immediate instructions run as the register instruction they stand for.  *)
Fun(op) ==
    CASE op = "addi" -> "add" [] op = "slti" -> "slt" [] op = "sltiu" -> "sltu"
      [] op = "andi" -> "and" [] op = "ori" -> "or"   [] op = "xori" -> "xor"
      [] OTHER -> op

BoolWord(b) == IF b THEN 1 ELSE 0

execute_alu(i, rs, rt) ==
    LET op == Fun(i.op)
    IN  CASE op = "sll"  -> Shl(rt, i.imm)
          [] op = "srl"  -> Shr(rt, i.imm)
          [] op = "sra"  -> sign_extend(Shr(rt, i.imm), W - i.imm)
          [] op = "sllv" -> Shl(rt, rs)
          [] op = "srlv" -> Shr(rt, rs)
          [] op = "srav" -> sign_extend(Shr(rt, rs), Wrap(W - rs))
          [] op = "sync" -> rs
          [] op = "add"  -> Wrap(rs + rt)
          [] op = "sub"  -> Wrap(rs - rt)
          [] op = "and"  -> rs & rt
          [] op = "or"   -> rs | rt
          [] op = "xor"  -> rs ^^ rt
          [] op = "nor"  -> Flip(rs | rt)
          [] op = "slt"  -> BoolWord(Signed(rs) < Signed(rt))
          [] op = "sltu" -> BoolWord(rs < rt)
          [] op = "mul"  -> Wrap(Signed(rs) * Signed(rt))
          [] op = "clz"  -> LeadingOnes[Flip(rs)]
          [] op = "clo"  -> LeadingOnes[rs]
          [] op = "lui"  -> Shl(rt, 2 * B)

ByteMask == 2^B - 1
HalfMask == 2^(2 * B) - 1

execute_mem(op, rs, rt, mem) ==
    LET left  == (rs % 4) * B                     \* (rs & 3) << 3
        right == 3 * B - left                     \* 24 - ((rs & 3) << 3)
        half  == 2 * B - (IF rs % 4 >= 2 THEN 2 ELSE 0) * B
    IN  CASE op = "lb"  -> sign_extend(Shr(mem, right) & ByteMask, B)
          [] op = "lh"  -> sign_extend(Shr(mem, half) & HalfMask, 2 * B)
          [] op = "lbu" -> Shr(mem, right) & ByteMask
          [] op = "lhu" -> Shr(mem, half) & HalfMask
          [] op \in {"lw", "ll"} -> mem
          [] op = "lwl" -> (rt & Flip(Shl(Ones, left))) | Shl(mem, left)
          [] op = "lwr" -> (rt & Flip(Shr(Ones, right))) | Shr(mem, right)
          [] op = "sb"  -> (mem & (Ones ^^ Shl(ByteMask, right))) | Shl(rt & ByteMask, right)
          [] op = "sh"  -> (mem & (Ones ^^ Shl(HalfMask, half))) | Shl(rt & HalfMask, half)
          [] op = "swl" -> (mem & Flip(Shr(Ones, left))) | Shr(rt, left)
          [] op = "swr" -> (mem & Flip(Shl(Ones, right))) | Shl(rt, right)
          [] op \in {"sw", "sc"} -> rt

-----------------------------------------------------------------------------
(* Where control goes next.  A transfer of control in a delay slot is      *)
(* refused.                                                                *)

Running == status = "running"
InDelaySlot == next_pc # Wrap(pc + 4)

Advance == pc' = next_pc /\ next_pc' = Wrap(next_pc + 4)

Refuse(outcome) ==
    /\ status' = outcome
    /\ UNCHANGED <<registers, hi, lo, pc, next_pc, memory>>

LoadOps == {"lb", "lh", "lbu", "lhu", "lw", "ll", "lwl", "lwr"}

EffectiveAddress(i) == Wrap(registers[i.rs] + SignExtImm(i))

(* Fault: register 0 is written like any other.                            *)
WriteRegAny(r, val) == registers' = [registers EXCEPT ![r] = val]

WriteReg(r, val) ==
    registers' = IF r = 0 THEN registers ELSE [registers EXCEPT ![r] = val]

Taken(i) ==
    LET rs == registers[i.rs]
    IN  CASE i.op = "beq"  -> rs = registers[i.rt]
          [] i.op = "bne"  -> rs # registers[i.rt]
          [] i.op = "blez" -> Signed(rs) <= 0
          [] i.op = "bgtz" -> Signed(rs) > 0
          [] i.op = "bltz" -> Signed(rs) < 0
          [] i.op = "bgez" -> Signed(rs) >= 0
          [] i.op = "regimm" -> FALSE      \* another rt field under opcode 1

JumpOps   == {"j", "jal", "jr", "jalr"}
BranchOps == {"beq", "bne", "blez", "bgtz", "bltz", "bgez", "regimm"}

(* What a jump or a branch at pc asks for: whether control is transferred, *)
(* and to where, counted from the address after it.                        *)
Transfers(i) == i.op \in JumpOps \/ (i.op \in BranchOps /\ Taken(i))

Target(i) ==
    CASE i.op \in {"j", "jal"} -> ((Wrap(pc + 4) \div 2^TargetBits) * 2^TargetBits)
                                     + ((i.imm * 4) % 2^TargetBits)
      [] i.op \in {"jr", "jalr"} -> registers[i.rs]
      [] OTHER -> Wrap(pc + 4 + Shl(SignExtImm(i), 2))

Executing(i) ==
    /\ Running
    /\ pc % 4 = 0
    /\ last' = [op |-> i.op, imm |-> i.imm, rd |-> IF i.op \in LoadOps THEN i.rt ELSE i.rd,
                rs |-> registers[i.rs], rt |-> registers[i.rt],
                address |-> EffectiveAddress(i), mem |-> memory]
    /\ jumped' = [taken |-> Transfers(i), target |-> Target(i)]

(* get_memory refuses to fetch an instruction from an unaligned address,   *)
(* and execute refuses an instruction it does not know.                    *)
FetchUnaligned == Running /\ pc % 4 # 0 /\ Refuse("err") /\ UNCHANGED <<last, jumped>>
Unknown(i) == Executing(i) /\ i.op = "unknown" /\ Refuse("err")

handle_rd(rd, val, conditional) ==
    /\ IF conditional THEN WriteReg(rd, val) ELSE UNCHANGED registers
    /\ Advance
    /\ UNCHANGED <<hi, lo, memory, status>>

(* Fault: a jump in a delay slot is executed.                              *)
handle_jump_anywhere(link, dest) ==
    /\ pc' = next_pc
    /\ next_pc' = dest
    /\ WriteReg(link, Wrap(pc + 8))
    /\ UNCHANGED <<hi, lo, memory, status>>

handle_jump(link, dest) ==
    \/ InDelaySlot /\ Refuse("err")
    \/ /\ ~ InDelaySlot
       /\ pc' = next_pc
       /\ next_pc' = dest
       /\ WriteReg(link, Wrap(pc + 8))
       /\ UNCHANGED <<hi, lo, memory, status>>

handle_branch(i, should_branch) ==
    \/ InDelaySlot /\ Refuse("err")
    \/ /\ ~ InDelaySlot
       /\ pc' = next_pc
       /\ next_pc' = IF should_branch THEN Wrap(pc + 4 + Shl(SignExtImm(i), 2))
                                      ELSE Wrap(next_pc + 4)
       /\ UNCHANGED <<registers, hi, lo, memory, status>>

Jump(i) ==
    /\ i.op \in {"j", "jal"}
    /\ Executing(i)
    /\ handle_jump(IF i.op = "jal" THEN 31 ELSE 0,
                   ((next_pc \div 2^TargetBits) * 2^TargetBits)
                       + ((i.imm * 4) % 2^TargetBits))

JumpRegister(i) ==
    /\ i.op \in {"jr", "jalr"}
    /\ Executing(i)
    /\ handle_jump(IF i.op = "jalr" THEN i.rd ELSE 0, registers[i.rs])

Branch(i) ==
    /\ i.op \in BranchOps
    /\ Executing(i)
    /\ handle_branch(i, Taken(i))

-----------------------------------------------------------------------------
(* Arithmetic, moves, and the hi and lo registers.                         *)

Alu(i) ==
    /\ i.op \in {"sll", "srl", "sra", "sllv", "srlv", "srav", "sync", "add", "sub", "and",
                 "or", "xor", "nor", "slt", "sltu", "mul", "clz", "clo"}
    /\ Executing(i)
    /\ handle_rd(i.rd, execute_alu(i, registers[i.rs], registers[i.rt]), TRUE)

AluImmediate(i) ==
    /\ i.op \in ImmediateOps \cup {"lui"}
    /\ Executing(i)
    /\ LET imm == IF i.op \in {"andi", "ori", "xori"} THEN ZeroExtImm(i) ELSE SignExtImm(i)
       IN  handle_rd(i.rt, execute_alu(i, registers[i.rs], imm), TRUE)

Move(i) ==
    /\ i.op \in {"movz", "movn"}
    /\ Executing(i)
    /\ handle_rd(i.rd, registers[i.rs], (i.op = "movz") <=> (registers[i.rt] = 0))

(* Division rounding to zero, as in Rust.                                  *)
Abs(x)      == IF x < 0 THEN - x ELSE x
(* Fault: division rounds down.                                            *)
QuotFloor(x, y) == IF y > 0 THEN x \div y ELSE (- x) \div (- y)

Quot(x, y)  == IF (x < 0) <=> (y < 0) THEN Abs(x) \div Abs(y) ELSE - (Abs(x) \div Abs(y))
Remain(x, y) == x - y * Quot(x, y)

(* A zero divisor panics, and so does a quotient that does not fit.        *)
DivPanics(op, rs, rt) ==
    \/ op \in {"div", "divu"} /\ rt = 0
    \/ op = "div" /\ Signed(rs) = - 2^(W - 1) /\ Signed(rt) = -1

Product(op, rs, rt) ==
    (IF op = "mult" THEN Signed(rs) * Signed(rt) ELSE rs * rt) % (2^W * 2^W)

(* The new values of hi and lo, and what is written to rd.                 *)
handle_hi_lo(i, rs, rt) ==
    /\ hi' = CASE i.op = "mthi" -> rs
               [] i.op \in {"mult", "multu"} -> Product(i.op, rs, rt) \div 2^W
               [] i.op = "div"  -> Wrap(Remain(Signed(rs), Signed(rt)))
               [] i.op = "divu" -> rs % rt
               [] OTHER -> hi
    /\ lo' = CASE i.op = "mtlo" -> rs
               [] i.op \in {"mult", "multu"} -> Wrap(Product(i.op, rs, rt))
               [] i.op = "div"  -> Wrap(Quot(Signed(rs), Signed(rt)))
               [] i.op = "divu" -> rs \div rt
               [] OTHER -> lo
    /\ WriteReg(i.rd, CASE i.op = "mfhi" -> hi [] i.op = "mflo" -> lo [] OTHER -> 0)
    /\ Advance
    /\ UNCHANGED <<memory, status>>

HiLo(i) ==
    LET rs == registers[i.rs]
        rt == registers[i.rt]
    IN  /\ i.op \in {"mfhi", "mthi", "mflo", "mtlo", "mult", "multu", "div", "divu"}
        /\ Executing(i)
        /\ \/ DivPanics(i.op, rs, rt) /\ Refuse("panic")
           \/ ~ DivPanics(i.op, rs, rt) /\ handle_hi_lo(i, rs, rt)

-----------------------------------------------------------------------------
(* Loads and stores.  The word is read in both cases.                      *)

Load(i) ==
    LET address == EffectiveAddress(i)
    IN  /\ i.op \in LoadOps
        /\ Executing(i)
        /\ handle_rd(i.rt, execute_mem(i.op, address, registers[i.rt],
                                       memory[address \div 4]), TRUE)

(* sc always succeeds and says so in its source register.                  *)
Store(i) ==
    LET address == EffectiveAddress(i)
    IN  /\ i.op \in {"sb", "sh", "swl", "swr", "sw", "sc"}
        /\ Executing(i)
        /\ IF i.op = "sc" THEN WriteReg(i.rt, 1) ELSE UNCHANGED registers
        /\ memory' = [memory EXCEPT ![address \div 4] =
                         execute_mem(i.op, address, registers[i.rt], @)]
        /\ Advance
        /\ UNCHANGED <<hi, lo, status>>

-----------------------------------------------------------------------------
NoInstr == [op |-> "none", imm |-> 0, rd |-> 0, rs |-> 0, rt |-> 0, address |-> 0, mem |-> << >>]

Init ==
    /\ registers \in {f \in [Reg -> Values] : f[0] = 0 /\ f[31] = 0}
    /\ hi = 0 /\ lo = 0
    /\ pc = 0 /\ next_pc = 4
    /\ memory \in Memories
    /\ status = "running"
    /\ last = NoInstr
    /\ jumped = [taken |-> FALSE, target |-> 0]

inner_step ==
    \/ FetchUnaligned
    \/ \E i \in Instr :
          \/ Unknown(i) \/ Jump(i) \/ JumpRegister(i) \/ Branch(i)
          \/ Alu(i) \/ AluImmediate(i) \/ Move(i) \/ HiLo(i) \/ Load(i) \/ Store(i)

Spec == Init /\ [][inner_step]_vars

-----------------------------------------------------------------------------
(* Whatever an instruction computes, with sums, products and shifts that   *)
(* overflow, what it leaves in registers and memory are words; and         *)
(* register 0 reads as zero also after the instructions that name it as    *)
(* their destination or as their link register.                            *)
RegisterFile ==
    /\ registers \in [Reg -> Word] /\ registers[0] = 0
    /\ hi \in Word /\ lo \in Word
    /\ pc \in Word /\ next_pc \in Word
    /\ memory \in [WordAddress -> Word]
    /\ status \in {"running", "err", "panic"}

(* The instruction after a jump or a taken branch, in its delay slot, runs *)
(* before control goes to the target, and control does go there, whatever  *)
(* that instruction is; after any other instruction control goes to the    *)
(* next one.  A jump or a taken branch in the slot is refused, unless the  *)
(* target is the address after the slot: handle_jump and handle_branch     *)
(* cannot tell such a slot from an instruction that follows no jump.       *)
DelaySlot ==
    [][Running /\ status' = "running" =>
          /\ pc' = IF jumped.taken THEN jumped.target ELSE Wrap(pc + 4)
          /\ jumped.taken /\ jumped'.taken => jumped.target = Wrap(pc + 4)]_vars

(* Memory as a big-endian array of bytes, the reference for what loads and *)
(* stores of less than a word, or of an unaligned word, should do.         *)
ByteAt(m, a) == (m[(a % 2^W) \div 4] \div 2^(B * (3 - (a % 4)))) % 2^B
HalfAt(m, a) == ByteAt(m, a) * 2^B + ByteAt(m, a + 1)
WordAt(m, a) == HalfAt(m, a) * 2^(2 * B) + HalfAt(m, a + 2)
Extend(x, bits) == IF x < 2^(bits - 1) THEN x ELSE Wrap(x - 2^bits)

(* Every byte of memory but the n bytes at a is what it was before.        *)
SameBytesBut(m, a, n) ==
    \A b \in 0 .. (2^W - 1) :
        b \notin {(a + k) % 2^W : k \in 0 .. (n - 1)} => ByteAt(m, b) = ByteAt(last.mem, b)

(* Loads of a byte or half word pick the addressed bytes, and extend them  *)
(* with the sign or with zeros; register 0 keeps nothing of what is loaded *)
(* into it.  Stores of a byte or half word change the addressed bytes and  *)
(* no other.                                                               *)
NarrowAccess ==
    LET a   == last.address
        val == registers[last.rd]
        h   == a - (a % 2)
    IN  /\ last.rd # 0 =>
               /\ last.op = "lbu" => val = ByteAt(memory, a)
               /\ last.op = "lb"  => val = Extend(ByteAt(memory, a), B)
               /\ last.op = "lhu" => val = HalfAt(memory, h)
               /\ last.op = "lh"  => val = Extend(HalfAt(memory, h), 2 * B)
        /\ last.op = "sb"  => ByteAt(memory, a) = last.rt % 2^B /\ SameBytesBut(memory, a, 1)
        /\ last.op = "sh"  => HalfAt(memory, h) = last.rt % 2^(2 * B)
                              /\ SameBytesBut(memory, h, 2)

(* The other half of an unaligned load or store, at address a.             *)
ThenLoad(op, a) == execute_mem(op, a % 2^W, registers[last.rd], memory[(a % 2^W) \div 4])
ThenStore(op, a) ==
    [memory EXCEPT ![(a % 2^W) \div 4] = execute_mem(op, a % 2^W, last.rt, @)]

(* lwl at an address and lwr three bytes further, in either order, load    *)
(* the word at that address, aligned or not, whatever the register held    *)
(* (register 0 excepted); swl and swr store it, and change no other byte.  *)
UnalignedWords ==
    LET a == last.address
    IN  /\ last.rd # 0 =>
               /\ last.op = "lwl" => ThenLoad("lwr", a + 3) = WordAt(memory, a)
               /\ last.op = "lwr" => ThenLoad("lwl", a - 3) = WordAt(memory, a - 3)
        /\ last.op = "swl" => LET m == ThenStore("swr", a + 3)
                              IN  WordAt(m, a) = last.rt /\ SameBytesBut(m, a, 4)
        /\ last.op = "swr" => LET m == ThenStore("swl", a - 3)
                              IN  WordAt(m, a - 3) = last.rt /\ SameBytesBut(m, a - 3, 4)

(* After mult and multu, hi and lo are the two halves of the exact signed  *)
(* or unsigned product; after div and divu they are a remainder and a      *)
(* quotient that give the dividend back, the remainder smaller than the    *)
(* divisor and with the sign of the dividend.                              *)
HiLoExact ==
    status = "running" =>
        /\ last.op = "mult" =>
               Signed(hi) * 2^W + lo = Signed(last.rs) * Signed(last.rt)
        /\ last.op = "multu" => hi * 2^W + lo = last.rs * last.rt
        /\ last.op = "divu" => lo * last.rt + hi = last.rs /\ hi < last.rt
        /\ last.op = "div" =>
               /\ Signed(lo) * Signed(last.rt) + Signed(hi) = Signed(last.rs)
               /\ Abs(Signed(hi)) < Abs(Signed(last.rt))
               /\ hi # 0 => (Signed(hi) < 0 <=> Signed(last.rs) < 0)

(* sra and srav by s, taken modulo the width, are the division by 2^s that *)
(* rounds down, and clo and clz count the leading ones and zeros.  Shifts  *)
(* by zero are the subject of ShiftByZero.                                 *)
ShiftsAndCounts ==
    LET val == registers[last.rd]
        s   == (IF last.op = "sra" THEN last.imm ELSE last.rs) % W
        x   == IF last.op = "clz" THEN Flip(last.rs) ELSE last.rs
    IN  last.rd # 0 =>
        /\ last.op \in {"sra", "srav"} /\ s # 0 => val = Wrap(Signed(last.rt) \div 2^s)
        /\ last.op \in {"clo", "clz"} =>
               /\ val \in 0 .. W
               /\ x >= 2^W - 2^(W - val)
               /\ val < W => x < 2^W - 2^(W - val - 1)

(* "Perform a sign extension of a value embedded in the lower bits of      *)
(* `data` up to the `index`th bit": with all the bits of the word in use   *)
(* there is nothing to extend, so that sra and srav by 0 keep the value.   *)
ShiftByZero ==
    LET s == (IF last.op = "sra" THEN last.imm ELSE last.rs) % W
    IN  last.op \in {"sra", "srav"} /\ last.rd # 0 /\ s = 0 => registers[last.rd] = last.rt
=============================================================================
