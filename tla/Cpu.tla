-------------------------------- MODULE Cpu --------------------------------
(***************************************************************************)
(* rv_cpu_execute of cpu.c against the RISC-V instruction set: the integer  *)
(* instructions and those of the M extension, which vm/tests/vm.c runs the  *)
(* tests of the instruction set for.  Registers have W bits, a byte has     *)
(* W / 4 bits, and one instruction is executed from any state of the        *)
(* registers.                                                               *)
(*                                                                          *)
(* An instruction is given decoded, with its immediate sign-extended to W   *)
(* bits; rv_cpu_decode, a table of opcodes, is left out.  So is ECALL, see  *)
(* Xfer and GuestMemory for what the system calls do.                       *)
(***************************************************************************)
EXTENDS Integers, Bitwise

CONSTANTS
    W,              \* 32
    Values,         \* contents of registers to start from
    Imms,           \* immediates
    PAGE_SIZE,
    MemSize,        \* addresses 0 .. MemSize - 1 are mapped
    Ops             \* the instructions to execute

ASSUME CpuAssumption ==
    /\ W \in {4, 8, 16, 32}
    /\ Values \cup Imms \subseteq 0 .. (2^W - 1)
    /\ {PAGE_SIZE, MemSize} \subseteq Nat \ {0}

VARIABLES
    regs, pc,       \* struct rv_cpu
    mem,            \* the app's memory
    running,
    inst            \* the instruction that was executed

cpuVars == <<regs, pc, mem, running, inst>>

Regs == 0 .. 2
INST_SIZE == 4
Word(x) == x % 2^W                                      \* uint32_t
Signed(x) == IF x < 2^(W - 1) THEN x ELSE x - 2^W       \* (int32_t)
ByteBits == W \div 4

Immediate == {"ADDI", "ANDI", "ORI", "XORI", "SLLI", "SRLI", "SRAI", "SLTI", "SLTIU"}
Register  == {"ADD", "SUB", "AND", "OR", "XOR", "SLL", "SRL", "SRA", "SLT", "SLTU",
              "MUL", "MULH", "MULHSU", "MULHU", "DIV", "DIVU"}
Branches  == {"BEQ", "BNE", "BLT", "BGE", "BLTU", "BGEU"}
Loads     == {"LB", "LH", "LW", "LBU", "LHU"}
Stores    == {"SB", "SH", "SW"}
Missing   == {"REM", "FENCE", "FENCE_TSO", "PAUSE", "EBREAK", "UNKNOWN"}
-----------------------------------------------------------------------------
(* cpu.c *)

Truth(b) == IF b THEN 1 ELSE 0
Abs(x) == IF x < 0 THEN -x ELSE x
\* Division of C: towards zero.
Quotient(x, y) == IF (x < 0) = (y < 0) THEN Abs(x) \div Abs(y) ELSE -(Abs(x) \div Abs(y))

\* The value of rd, from rs1 and from rs2 or the immediate.
Alu(op, a, b) ==
    CASE op \in {"ADD", "ADDI"}   -> Word(a + b)
      [] op = "SUB"               -> Word(a - b)
      [] op \in {"AND", "ANDI"}   -> a & b
      [] op \in {"OR", "ORI"}     -> a | b
      [] op \in {"XOR", "XORI"}   -> a ^^ b
      [] op \in {"SLL", "SLLI"}   -> Word(a * 2^(b % W))
      [] op \in {"SRL", "SRLI"}   -> a \div 2^(b % W)
      [] op \in {"SRA", "SRAI"}   -> Word(Signed(a) \div 2^(b % W))
      [] op \in {"SLT", "SLTI"}   -> Truth(Signed(a) < Signed(b))
      [] op \in {"SLTU", "SLTIU"} -> Truth(a < b)
      [] op = "MUL"               -> Word(a * b)
      \* uint32_t registers are converted to 64 bits without their sign
      [] op \in {"MULH", "MULHSU", "MULHU"} -> (a * b) \div 2^W
      [] op = "DIV"  -> IF b # 0 /\ ~(Signed(a) = -(2^(W - 1)) /\ b = 2^W - 1)
                        THEN Word(Quotient(Signed(a), Signed(b))) ELSE 2^W - 1
      [] op = "DIVU" -> IF b # 0 THEN a \div b ELSE 2^W - 1

Taken(op, a, b) ==
    CASE op = "BEQ"  -> a = b
      [] op = "BNE"  -> a # b
      [] op = "BLT"  -> Signed(a) < Signed(b)
      [] op = "BGE"  -> Signed(a) >= Signed(b)
      [] op = "BLTU" -> a < b
      [] op = "BGEU" -> a >= b

Size(op) == CASE op \in {"LB", "LBU", "SB"} -> 1
              [] op \in {"LH", "LHU", "SH"} -> 2
              [] op \in {"LW", "SW"} -> 4

\* fit_in_page and get_page: the bytes are on one page, and it is mapped.
Accessible(a, size) ==
    a \div PAGE_SIZE = (a + size - 1) \div PAGE_SIZE /\ a + size - 1 < MemSize

\* mem_read: little endian.
mem_read(a, size) ==
    LET bytes[k \in 0 .. size] ==
            IF k = 0 THEN 0 ELSE mem[a + k - 1] * 2^(ByteBits * (k - 1)) + bytes[k - 1]
    IN  bytes[size]

mem_write(a, size, v) ==
    [i \in DOMAIN mem |->
        IF i \in a .. (a + size - 1)
        THEN (v \div 2^(ByteBits * (i - a))) % 2^ByteBits ELSE mem[i]]

sign_extend(x, size) ==
    LET bits == ByteBits * size
    IN  IF x < 2^(bits - 1) THEN x ELSE Word(x - 2^bits)

\* The end of rv_cpu_execute: x0 stays 0.
Writeback(rs) == regs' = [rs EXCEPT ![0] = 0]
Continue(next) == pc' = Word(next) /\ UNCHANGED running
StopsApp == pc' = Word(pc + INST_SIZE) /\ running' = FALSE

ExecuteAlu(i, a, b) ==
    /\ i.op \in Immediate \cup Register
    /\ Writeback([regs EXCEPT ![i.rd] = Alu(i.op, a, IF i.op \in Immediate THEN i.imm ELSE b)])
    /\ Continue(pc + INST_SIZE)
    /\ UNCHANGED mem

\* The remainder by zero is assigned to rs1 as well.
ExecuteRemu(i, a, b) ==
    /\ i.op = "REMU"
    /\ Writeback(IF b # 0 THEN [regs EXCEPT ![i.rd] = a % b]
                 ELSE [regs EXCEPT ![i.rs1] = b, ![i.rd] = b])
    /\ Continue(pc + INST_SIZE)
    /\ UNCHANGED mem

ExecuteUpper(i) ==
    /\ i.op \in {"LUI", "AUIPC"}
    /\ Writeback([regs EXCEPT ![i.rd] = IF i.op = "LUI" THEN i.imm ELSE Word(pc + i.imm)])
    /\ Continue(pc + INST_SIZE)
    /\ UNCHANGED mem

\* Faulty variant: rd is written before rs1 is read.
JumpTargetAfterLink(i, a) ==
    IF i.op = "JAL" THEN pc + i.imm
    ELSE LET base == IF i.rd = i.rs1 THEN pc + INST_SIZE ELSE a
         IN  2 * (Word(base + i.imm) \div 2)

\* The least significant bit of the target of JALR is cleared.
JumpTarget(i, a) ==
    IF i.op = "JAL" THEN pc + i.imm ELSE 2 * (Word(a + i.imm) \div 2)

ExecuteJump(i, a) ==
    /\ i.op \in {"JAL", "JALR"}
    /\ Writeback([regs EXCEPT ![i.rd] = Word(pc + INST_SIZE)])
    /\ Continue(JumpTarget(i, a))
    /\ UNCHANGED mem

ExecuteBranch(i, a, b) ==
    /\ i.op \in Branches
    /\ Writeback(regs)
    /\ Continue(pc + IF Taken(i.op, a, b) THEN i.imm ELSE INST_SIZE)
    /\ UNCHANGED mem

ExecuteLoad(i, a) ==
    LET addr == Word(a + i.imm)
        size == Size(i.op)
    IN  /\ i.op \in Loads
        /\ IF Accessible(addr, size)
           THEN LET v == mem_read(addr, size)
                IN  /\ Writeback([regs EXCEPT ![i.rd] = IF i.op \in {"LB", "LH"}
                                                        THEN sign_extend(v, size) ELSE v])
                    /\ Continue(pc + INST_SIZE)
           ELSE Writeback(regs) /\ StopsApp
        /\ UNCHANGED mem

ExecuteStore(i, a, b) ==
    LET addr == Word(a + i.imm)
        size == Size(i.op)
    IN  /\ i.op \in Stores
        /\ Writeback(regs)
        /\ IF Accessible(addr, size)
           THEN mem' = mem_write(addr, size, b) /\ Continue(pc + INST_SIZE)
           ELSE UNCHANGED mem /\ StopsApp

\* fatal("instruction not implemented")
ExecuteMissing(i) ==
    /\ i.op \in Missing
    /\ Writeback(regs) /\ StopsApp
    /\ UNCHANGED mem

rv_cpu_execute(i) ==
    LET a == regs[i.rs1]
        b == regs[i.rs2]
    IN  /\ running /\ inst.op = "none"
        /\ inst' = i
        /\ \/ ExecuteAlu(i, a, b) \/ ExecuteRemu(i, a, b)
           \/ ExecuteUpper(i) \/ ExecuteJump(i, a) \/ ExecuteBranch(i, a, b)
           \/ ExecuteLoad(i, a) \/ ExecuteStore(i, a, b)
           \/ ExecuteMissing(i)
-----------------------------------------------------------------------------
\* union rv_inst, with the immediate of imm_i, imm_u, imm_s, imm_b or imm_j.
Insts == [op : Ops, rd : Regs, rs1 : {1}, rs2 : {1, 2}, imm : Imms]
NoInst == [op |-> "none", rd |-> 0, rs1 |-> 0, rs2 |-> 0, imm |-> 0]

\* Every byte of the memory differs from its neighbours.
CpuInit ==
    /\ \E x, y \in Values : regs = [r \in Regs |-> IF r = 0 THEN 0 ELSE IF r = 1 THEN x ELSE y]
    /\ pc \in {0, 2^W - 4}
    /\ mem = [i \in 0 .. (MemSize - 1) |-> (i * 3 + 1) % 2^ByteBits]
    /\ running = TRUE
    /\ inst = NoInst

Execute == \E i \in Insts : rv_cpu_execute(i)

Executed == (inst.op # "none" \/ ~running) /\ UNCHANGED cpuVars

CpuNext == Execute \/ Executed

CpuSpec == CpuInit /\ [][CpuNext]_cpuVars
-----------------------------------------------------------------------------
(* The instruction set, by the bits of the operands and by integers. *)

Bit(x, k) == (x \div 2^k) % 2
Bits == 0 .. (W - 1)

\* The word whose bits are those of f.
OfBits(f(_)) ==
    LET sum[k \in 0 .. W] == IF k = 0 THEN 0 ELSE f(k - 1) * 2^(k - 1) + sum[k - 1]
    IN  sum[W]

IsaResult(op, a, b) ==
    LET sh == b % W
        sa == Signed(a)
        sb == Signed(b)
    IN  CASE op \in {"ADD", "ADDI"} -> Word(sa + sb)
          [] op = "SUB" -> Word(sa - sb)
          [] op \in {"AND", "ANDI"} -> OfBits(LAMBDA k : Bit(a, k) * Bit(b, k))
          [] op \in {"OR", "ORI"} -> OfBits(LAMBDA k : Truth(Bit(a, k) + Bit(b, k) > 0))
          [] op \in {"XOR", "XORI"} -> OfBits(LAMBDA k : Truth(Bit(a, k) # Bit(b, k)))
          [] op \in {"SLL", "SLLI"} -> OfBits(LAMBDA k : IF k < sh THEN 0 ELSE Bit(a, k - sh))
          [] op \in {"SRL", "SRLI"} -> OfBits(LAMBDA k : IF k + sh < W THEN Bit(a, k + sh) ELSE 0)
          [] op \in {"SRA", "SRAI"} -> OfBits(LAMBDA k : Bit(a, IF k + sh < W THEN k + sh ELSE W - 1))
          [] op \in {"SLT", "SLTI"} -> Truth(sa < sb)
          [] op \in {"SLTU", "SLTIU"} -> Truth(a < b)
          [] op = "MUL" -> Word(sa * sb)
          [] op = "MULH" -> Word((sa * sb) \div 2^W)
          [] op = "MULHSU" -> Word((sa * b) \div 2^W)
          [] op = "MULHU" -> Word((a * b) \div 2^W)
          [] op = "DIV" -> IF b = 0 THEN 2^W - 1 ELSE Word(Quotient(sa, sb))
          [] op = "DIVU" -> IF b = 0 THEN 2^W - 1 ELSE a \div b
          [] op = "REM" -> IF b = 0 THEN a ELSE Word(sa - sb * Quotient(sa, sb))
          [] op = "REMU" -> IF b = 0 THEN a ELSE a % b

Computes == Immediate \cup Register \cup {"REM", "REMU"}

\* The value instruction i gives rd.
IsaRd(i, a, b) ==
    CASE i.op \in Computes -> IsaResult(i.op, a, IF i.op \in Immediate THEN i.imm ELSE b)
      [] i.op = "LUI" -> i.imm
      [] i.op = "AUIPC" -> Word(pc + i.imm)
      [] i.op \in {"JAL", "JALR"} -> Word(pc + 4)
      [] i.op \in Loads ->
            LET addr == Word(a + i.imm)
                n    == ByteBits * Size(i.op)
                at(k) == Bit(mem[addr + k \div ByteBits], k % ByteBits)
            IN  OfBits(LAMBDA k : IF k < n THEN at(k)
                                  ELSE IF i.op \in {"LB", "LH"} THEN at(n - 1) ELSE 0)

IsaPc(i, a, b) ==
    Word(CASE i.op = "JAL" -> pc + i.imm
           [] i.op = "JALR" -> Word(a + i.imm) - Bit(Word(a + i.imm), 0)
           [] i.op \in Branches /\ Taken(i.op, a, b) -> pc + i.imm
           [] OTHER -> pc + 4)

\* What the code does otherwise than the instruction set: the upper half of a product of
\* a negative operand, the quotient that overflows, the remainder by zero, and the
\* instructions that are decoded and not implemented.
Deviates(i, a, b) ==
    \/ i.op = "MULH" /\ (Signed(a) < 0 \/ Signed(b) < 0)
    \/ i.op = "MULHSU" /\ Signed(a) < 0
    \/ i.op = "DIV" /\ a = 2^(W - 1) /\ Signed(b) = -1
    \/ i.op = "REMU" /\ b = 0
    \/ i.op \in Missing \ {"EBREAK", "UNKNOWN"}

IsaStep(i, a, b) ==
    LET addr  == Word(a + i.imm)
        stops == \/ i.op \in Loads \cup Stores /\ ~Accessible(addr, Size(i.op))
                 \/ i.op \in {"EBREAK", "UNKNOWN"}
    IN  IF stops
        THEN ~running' /\ mem' = mem /\ regs' = regs
        ELSE /\ running'
             /\ pc' = IsaPc(i, a, b)
             /\ \A r \in Regs :
                   regs'[r] = IF r # 0 /\ r = i.rd /\ i.op \notin Branches \cup Stores
                              THEN IsaRd(i, a, b) ELSE regs[r]
             /\ \A m \in DOMAIN mem :
                   mem'[m] = IF i.op \in Stores /\ m \in addr .. (addr + Size(i.op) - 1)
                             THEN (b \div 2^(ByteBits * (m - addr))) % 2^ByteBits
                             ELSE mem[m]

\* Every instruction but for Deviates has the effect the instruction set defines, on rd
\* and on no other register, on the program counter and on memory, when rd is rs1, rs2 or
\* x0 too; an app is stopped only by an access outside of its memory or across two pages,
\* by EBREAK and by what is no instruction.
ExecutesAsIsa ==
    [][LET i == inst' IN Deviates(i, regs[i.rs1], regs[i.rs2])
                         \/ IsaStep(i, regs[i.rs1], regs[i.rs2])]_cpuVars

\* The same for the upper half of products, without the exception.
ProductsAsIsa ==
    [][inst'.op \in {"MUL", "MULH", "MULHSU", "MULHU"} =>
            IsaStep(inst', regs[inst'.rs1], regs[inst'.rs2])]_cpuVars
=============================================================================
