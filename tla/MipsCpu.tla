------------------------------- MODULE MipsCpu ------------------------------
(***************************************************************************)
(* The simulated MIPS processor: what one instruction does to the          *)
(* registers and to memory (machine/mipssim.cc, machine/translate.cc).     *)
(*                                                                         *)
(* A word is four bytes and a byte has ByteBits bits (8 in the code), so   *)
(* arithmetic wraps, overflows and changes sign as it does there.  A word  *)
(* is the number its bits stand for without a sign; Signed gives the int.  *)
(* An instruction is the record that Instruction::Decode leaves: op, rs,   *)
(* rt, rd and extra, the immediate already extended to a word.             *)
(***************************************************************************)
EXTENDS Integers, Sequences, FiniteSetsExt

CONSTANTS
    ByteBits,       \* bits of a byte; a word has room for a register's number
    GPRs,           \* the general registers a program uses, out of 0..31
    PageSize,       \* bytes of a page
    NumPhysPages    \* page frames of the main memory

Width == 4 * ByteBits
Pow2[n \in 0 .. Width] == IF n = 0 THEN 1 ELSE 2 * Pow2[n - 1]
ByteSize == Pow2[ByteBits]
WordSize == Pow2[Width]
SignBit == Pow2[Width - 1]
Word == 0 .. WordSize - 1
Byte == 0 .. ByteSize - 1

StackReg == 29
RetAddrReg == 31
HiReg == 32
LoReg == 33
PCReg == 34
NextPCReg == 35
PrevPCReg == 36
LoadReg == 37        \* the register a delayed load goes to
LoadValueReg == 38
BadVAddrReg == 39
Registers == GPRs \cup (HiReg .. BadVAddrReg)

(* Main memory has an address for each of its bytes. *)
ASSUME CpuAssumption ==
    /\ ByteBits \in Nat /\ ByteBits >= 2
    /\ {0, 2, 4, 5, 6, 29, 31} \subseteq GPRs /\ GPRs \subseteq 0 .. 31
    /\ PageSize \in Nat \ {0} /\ PageSize % 4 = 0
    /\ NumPhysPages \in Nat \ {0} /\ NumPhysPages * PageSize <= WordSize

Negative(w) == w >= SignBit
Signed(w) == IF Negative(w) THEN w - WordSize ELSE w
Sum(a, b) == (a + b) % WordSize
Minus(a) == (WordSize - a) % WordSize
Doubled(a) == (2 * a) % WordSize
Low(x) == x % Pow2[2 * ByteBits]
Bits(w) == {k \in 0 .. Width - 1 : (w \div Pow2[k]) % 2 = 1}
Bool(p) == IF p THEN 1 ELSE 0

(* The sum of term[0] .. term[n - 1], as a loop adds it up. *)
Total(term, n) ==
    LET sum[k \in 0 .. n] == IF k = 0 THEN 0 ELSE sum[k - 1] + term[k - 1]
    IN sum[n]

WordOf(bits) == Total([k \in 0 .. Width - 1 |-> IF k \in bits THEN Pow2[k] ELSE 0], Width)
ByteWeight(k) == Pow2[k * ByteBits]

-----------------------------------------------------------------------------
(* C's / and %, which round towards zero. *)
Magnitude(n) == IF n < 0 THEN -n ELSE n
Quotient(m, n) ==
    IF (m < 0) = (n < 0) THEN Magnitude(m) \div Magnitude(n)
                         ELSE -(Magnitude(m) \div Magnitude(n))
Remainder(m, n) == m - n * Quotient(m, n)

(* Mutant of Accumulate: the carry out of the low words is lost. *)
AccumulateLosesCarry(a, b) ==
    LET bLo[k \in 0 .. Width] == IF k = 0 THEN b ELSE Doubled(bLo[k - 1])
        bHi[k \in 0 .. Width] ==
            IF k = 0 THEN 0 ELSE Doubled(bHi[k - 1]) + Bool(Negative(bLo[k - 1]))
        lo[k \in 0 .. Width] ==
            IF k = 0 THEN 0
            ELSE IF k - 1 \in Bits(a) THEN Sum(lo[k - 1], bLo[k - 1]) ELSE lo[k - 1]
        hi[k \in 0 .. Width] ==
            IF k = 0 THEN 0
            ELSE IF k - 1 \in Bits(a)
            THEN Sum(hi[k - 1], bHi[k - 1])
            ELSE hi[k - 1]
    IN [hi |-> hi[Width], lo |-> lo[Width]]

(* The loop of Mult, the four words before each of its rounds: for a bit   *)
(* of a that is set, bLo and bHi are added to lo and hi, with a carry when *)
(* lo has wrapped around; bHi and bLo move one place to the left, the top  *)
(* bit of bLo into bHi. The code leaves the loop after the highest bit of  *)
(* a that is set, when no later round would change lo or hi.               *)
Accumulate(a, b) ==
    LET bLo[k \in 0 .. Width] == IF k = 0 THEN b ELSE Doubled(bLo[k - 1])
        bHi[k \in 0 .. Width] ==
            IF k = 0 THEN 0 ELSE Doubled(bHi[k - 1]) + Bool(Negative(bLo[k - 1]))
        lo[k \in 0 .. Width] ==
            IF k = 0 THEN 0
            ELSE IF k - 1 \in Bits(a) THEN Sum(lo[k - 1], bLo[k - 1]) ELSE lo[k - 1]
        hi[k \in 0 .. Width] ==
            IF k = 0 THEN 0
            ELSE IF k - 1 \in Bits(a)
            THEN Sum(Sum(hi[k - 1], Bool(lo[k] < bLo[k - 1])), bHi[k - 1])
            ELSE hi[k - 1]
    IN [hi |-> hi[Width], lo |-> lo[Width]]

(* Mult: the words that MULT and MULTU put in Hi and Lo. *)
Mult(a, b, signedArith) ==
    LET negative == signedArith /\ Negative(a) # Negative(b)
        p == Accumulate(IF signedArith /\ Negative(a) THEN Minus(a) ELSE a,
                        IF signedArith /\ Negative(b) THEN Minus(b) ELSE b)
    IN IF a = 0 \/ b = 0 THEN [hi |-> 0, lo |-> 0]
       ELSE IF negative
       THEN [hi |-> Sum(WordSize - 1 - p.hi, Bool(p.lo = 0)), lo |-> Minus(p.lo)]
       ELSE [hi |-> p.hi, lo |-> p.lo]

(* DIV and DIVU. *)
Divided(a, b, signedArith) ==
    IF b = 0 THEN [hi |-> 0, lo |-> 0]
    ELSE IF signedArith
    THEN [hi |-> Remainder(Signed(a), Signed(b)) % WordSize,
          lo |-> Quotient(Signed(a), Signed(b)) % WordSize]
    ELSE [hi |-> a % b, lo |-> a \div b]

-----------------------------------------------------------------------------
Adds == {"ADD", "ADDU", "ADDI", "ADDIU", "SUB", "SUBU"}
Logic == {"AND", "ANDI", "OR", "ORI", "XOR", "XORI", "NOR"}
Shifts == {"SLL", "SLLV", "SRA", "SRAV", "SRL", "SRLV"}
Compares == {"SLT", "SLTI", "SLTU", "SLTIU"}
Moves == {"LUI", "MFHI", "MFLO"}
Computations == Adds \cup Logic \cup Shifts \cup Compares \cup Moves
Immediate == {"ADDI", "ADDIU", "ANDI", "ORI", "XORI", "SLTI", "SLTIU", "LUI"}
Links == {"BGEZAL", "BLTZAL", "JAL"}
Loads == {"LB", "LBU", "LH", "LHU", "LW", "LWL", "LWR"}
Stores == {"SB", "SH", "SW", "SWL", "SWR"}

(* What Instruction::Decode leaves; the shift amount has five bits of 32. *)
Operations == Computations \cup Links \cup Loads \cup Stores
    \cup {"MULT", "MULTU", "DIV", "DIVU", "MTHI", "MTLO", "J", "JR", "JALR",
          "BEQ", "BNE", "BGEZ", "BLTZ", "BGTZ", "BLEZ", "SYSCALL", "RES", "UNIMP"}
Instructions ==
    {i \in [op : Operations, rs : GPRs, rt : GPRs, rd : GPRs, extra : Word] :
        i.op \in {"SLL", "SRA", "SRL"} => i.extra < Width}

(* The second operand of the instructions that have an immediate form. *)
Operand(r, i) == IF i.op \in Immediate THEN i.extra ELSE r[i.rt]

Added(r, i) ==
    Sum(r[i.rs], IF i.op \in {"SUB", "SUBU"} THEN Minus(r[i.rt]) ELSE Operand(r, i))

(* The operands of OR are both rs, as in the code. *)
Combined(r, i) ==
    LET a == Bits(r[i.rs])
        b == Bits(IF i.op \in Immediate THEN Low(i.extra) ELSE r[i.rt])
    IN WordOf(CASE i.op \in {"AND", "ANDI"} -> a \cap b
                [] i.op = "OR"              -> a \cup a
                [] i.op = "ORI"             -> a \cup b
                [] i.op \in {"XOR", "XORI"} -> (a \cup b) \ (a \cap b)
                [] i.op = "NOR"             -> (0 .. Width - 1) \ (a \cup b))

(* The right shifts are those of an int, SRL's and SRLV's too. *)
Shifted(r, i) ==
    LET n == IF i.op \in {"SLLV", "SRAV", "SRLV"} THEN r[i.rs] % Width ELSE i.extra
    IN IF i.op \in {"SLL", "SLLV"} THEN (r[i.rt] * Pow2[n]) % WordSize
       ELSE (Signed(r[i.rt]) \div Pow2[n]) % WordSize

Compared(r, i) ==
    LET b == Operand(r, i)
    IN Bool(IF i.op \in {"SLT", "SLTI"} THEN Signed(r[i.rs]) < Signed(b)
                                        ELSE r[i.rs] < b)

(* The word that an instruction computes for its destination register. *)
Computed(r, i) ==
    CASE i.op \in Adds     -> Added(r, i)
      [] i.op \in Logic    -> Combined(r, i)
      [] i.op \in Shifts   -> Shifted(r, i)
      [] i.op \in Compares -> Compared(r, i)
      [] i.op = "LUI"      -> (i.extra * Pow2[2 * ByteBits]) % WordSize
      [] i.op = "MFHI"     -> r[HiReg]
      [] i.op = "MFLO"     -> r[LoReg]

(* The tests of ADD, ADDI and SUB on the sign bits. *)
Overflows(r, i) ==
    LET a == Negative(r[i.rs])
        b == Negative(Operand(r, i))
        sum == Negative(Added(r, i))
    IN \/ i.op = "ADD" /\ a = b /\ a # sum
       \/ i.op = "ADDI" /\ a = b /\ b # sum
       \/ i.op = "SUB" /\ a # b /\ a # sum

-----------------------------------------------------------------------------
(* The registers after what an instruction writes at once, that is, all    *)
(* but its load and the program counters.                                  *)
Written(r, i) ==
    LET link == Sum(r[NextPCReg], 4)
        pair == IF i.op \in {"MULT", "MULTU"} THEN Mult(r[i.rs], r[i.rt], i.op = "MULT")
                ELSE Divided(r[i.rs], r[i.rt], i.op = "DIV")
    IN CASE i.op \in Computations -> [r EXCEPT ![IF i.op \in Immediate THEN i.rt ELSE i.rd]
                                                  = Computed(r, i)]
         [] i.op \in {"MULT", "MULTU", "DIV", "DIVU"} ->
              [r EXCEPT ![HiReg] = pair.hi, ![LoReg] = pair.lo]
         [] i.op = "MTHI" -> [r EXCEPT ![HiReg] = r[i.rs]]
         [] i.op = "MTLO" -> [r EXCEPT ![LoReg] = r[i.rs]]
         [] i.op \in Links -> [r EXCEPT ![RetAddrReg] = link]
         [] i.op = "JALR" -> [r EXCEPT ![i.rd] = link]
         [] OTHER -> r

(* The branch conditions; a link register is written before they are tested. *)
Branches(r, i) ==
    LET a == Signed(r[i.rs])
    IN \/ i.op = "BEQ" /\ r[i.rs] = r[i.rt]
       \/ i.op = "BNE" /\ r[i.rs] # r[i.rt]
       \/ i.op \in {"BGEZ", "BGEZAL"} /\ a >= 0
       \/ i.op \in {"BLTZ", "BLTZAL"} /\ a < 0
       \/ i.op = "BGTZ" /\ a > 0
       \/ i.op = "BLEZ" /\ a <= 0

(* Mutant of PcAfter: branches count from their own address. *)
BranchFromPc(r, i) ==
    IF Branches(r, i) THEN Sum(r[PCReg], 4 * i.extra)
    ELSE CASE i.op \in {"J", "JAL"}   -> 4 * i.extra
           [] i.op \in {"JR", "JALR"} -> r[i.rs]
           [] OTHER                   -> Sum(r[NextPCReg], 4)

(* pcAfter: where to go on after the instruction in the delay slot. *)
PcAfter(r, i) ==
    LET next == Sum(r[NextPCReg], 4)
        region == next - (next % Pow2[Width - 4])
    IN IF Branches(r, i) THEN Sum(r[NextPCReg], 4 * i.extra)
       ELSE CASE i.op \in {"J", "JAL"}   -> Sum(region, 4 * i.extra)
              [] i.op \in {"JR", "JALR"} -> r[i.rs]
              [] OTHER                   -> next

-----------------------------------------------------------------------------
(* A page table is a function from virtual pages to frames.  Its entries   *)
(* are all valid and none is read-only (userprog/addrspace.cc).            *)
Translate(table, addr, size) ==
    IF addr % size # 0 \/ addr \div PageSize \notin DOMAIN table THEN "AddressError"
    ELSE IF table[addr \div PageSize] \notin 0 .. NumPhysPages - 1 THEN "BusError"
    ELSE "NoException"

Physical(table, addr) == table[addr \div PageSize] * PageSize + (addr % PageSize)

(* ReadMem, and the bytes that WriteMem writes, least significant byte first; *)
(* addr is physical.                                                          *)
ReadMem(mem, addr, size) ==
    Total([k \in 0 .. size - 1 |-> mem[addr + k] * ByteWeight(k)], size)

WriteMem(addr, size, value) ==
    [a \in addr .. addr + size - 1 |-> (value \div ByteWeight(a - addr)) % ByteSize]

Address(r, i) == Sum(r[i.rs], i.extra)
Size(i) == CASE i.op \in {"LB", "LBU", "SB"} -> 1
             [] i.op \in {"LH", "LHU", "SH"} -> 2
             [] OTHER -> 4

Extended(value, size) ==
    IF value >= ByteWeight(size) \div 2 THEN value + WordSize - ByteWeight(size) ELSE value

(* The word a load brings.  LWL and LWR get no further than their ASSERT   *)
(* unless the address is aligned.                                          *)
Loaded(r, i, mem, table) ==
    LET value == ReadMem(mem, Physical(table, Address(r, i)), Size(i))
        old == IF r[LoadReg] = i.rt THEN r[LoadValueReg] ELSE r[i.rt]
    IN CASE i.op \in {"LB", "LH"} -> Extended(value, Size(i))
         [] i.op = "LWR" -> (old - (old % ByteSize)) + value \div ByteWeight(3)
         [] OTHER -> value

(* The bytes a store writes. *)
Stored(r, i, mem, table) ==
    LET addr == Physical(table, Address(r, i))
        word == ReadMem(mem, addr, 4)
        value == IF i.op = "SWR"
                 THEN (word % ByteWeight(3)) + (r[i.rt] % ByteSize) * ByteWeight(3)
                 ELSE r[i.rt]
    IN IF i.op \in Stores THEN WriteMem(addr, Size(i), value) ELSE [a \in {} |-> 0]

(* Memory, or a part of it, with some bytes written. *)
Overwritten(mem, bytes) ==
    [a \in DOMAIN mem \cup DOMAIN bytes |-> IF a \in DOMAIN bytes THEN bytes[a] ELSE mem[a]]

(* What stops an instruction: an exception, an ASSERT, or the host's       *)
(* division, which traps on the one quotient that is no int.               *)
Raises(r, i, table) ==
    CASE i.op \in {"RES", "UNIMP"} -> "IllegalInstr"
      [] i.op = "SYSCALL" -> "Syscall"
      [] Overflows(r, i) -> "Overflow"
      [] i.op = "DIV" /\ r[i.rs] = SignBit /\ r[i.rt] = WordSize - 1 -> "HostTrap"
      [] i.op \in {"LWL", "LWR", "SWL", "SWR"} /\ Address(r, i) % 4 # 0 -> "Assert"
      [] i.op \in Loads \cup Stores -> Translate(table, Address(r, i), Size(i))
      [] OTHER -> "NoException"

-----------------------------------------------------------------------------
(* Machine::DelayedLoad: the pending load lands, the next one is pending. *)
DelayedLoad(r, reg, value) ==
    [[r EXCEPT ![r[LoadReg]] = r[LoadValueReg]]
        EXCEPT ![LoadReg] = reg, ![LoadValueReg] = value, ![0] = 0]

(* Machine::OneInstruction, for an instruction that raises nothing. *)
Execute(r, i, mem, table) ==
    LET w == Written(r, i)
        load == i.op \in Loads
        d == DelayedLoad(w, IF load THEN i.rt ELSE 0,
                            IF load THEN Loaded(r, i, mem, table) ELSE 0)
    IN [d EXCEPT ![PrevPCReg] = d[PCReg], ![PCReg] = d[NextPCReg],
                 ![NextPCReg] = PcAfter(w, i)]
=============================================================================
