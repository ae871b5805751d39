------------------------------ MODULE AddrSpace -----------------------------
(***************************************************************************)
(* What a user program is to the kernel: the pages of its address space,   *)
(* its first registers and the numbers of its system calls                 *)
(* (userprog/addrspace.cc, userprog/syscall.h, userprog/exception.cc).     *)
(*                                                                         *)
(* A program is a record: code, a sequence of instructions that starts at  *)
(* address 0; data, the sequence of words behind it; and the command line  *)
(* it is run with: timer (-rs), preemptive (-p) and slices, how often one  *)
(* of the two takes the processor away.                                    *)
(***************************************************************************)
EXTENDS MipsCpu

CONSTANTS
    StackPages,     \* pages of a stack (8 in the code)
    StackMargin,    \* bytes above the first stack pointer (16 in the code)
    Programs        \* the programs, with their command lines, that may be run

ASSUME StackAssumption ==
    /\ StackPages \in Nat /\ StackPages >= 2
    /\ StackMargin \in 1 .. PageSize

(* The pages of an address space: code, data and stack, rounded up. *)
NumPages(p) == (4 * (Len(p.code) + Len(p.data)) + PageSize - 1) \div PageSize + StackPages

(* AddrSpace's constructor asserts that the program fits into memory. *)
ASSUME ProgramsAssumption == \A p \in Programs :
    /\ p \in [code : Seq(Instructions), data : Seq(Word),
              timer : BOOLEAN, preemptive : BOOLEAN, slices : Nat]
    /\ NumPages(p) <= NumPhysPages

(* Pages up to numPages - 8, the lowest of the stack among them, are shared. *)
SharedPages(p) == 0 .. NumPages(p) - StackPages
OwnPages(p) == (0 .. NumPages(p) - 1) \ SharedPages(p)
Addresses(pages) == UNION {p * PageSize .. (p + 1) * PageSize - 1 : p \in pages}

(* The byte at address a of the program's file as it is loaded. *)
Image(p, a) ==
    LET word == a \div 4 - Len(p.code) + 1
    IN IF word \in 1 .. Len(p.data) THEN (p.data[word] \div ByteWeight(a % 4)) % ByteSize
                                    ELSE 0

(* AddrSpace::InitRegisters, and NachosForkThread after it. *)
InitRegisters(n) ==
    [x \in Registers |-> CASE x = NextPCReg -> 4
                           [] x = StackReg  -> n * PageSize - StackMargin
                           [] OTHER         -> 0]
ForkRegisters(n, func) ==
    [InitRegisters(n) EXCEPT ![RetAddrReg] = 4, ![PCReg] = func, ![NextPCReg] = Sum(func, 4)]

(* The system calls by what they do to the program that makes them. *)
HaltCall == {0}
ExitCalls == {1, 3}
ReadCall == {6}
WriteCall == {7}
CloseCall == {8}
ForkCall == {9}
YieldCall == {10}
ExecCall == {2}
SocketCalls == {30, 31, 33, 34, 35}
EmptyCalls == {4, 5} \cup 11 .. 23 \cup {32}
AnsweredCalls == ReadCall \cup WriteCall \cup CloseCall \cup SocketCalls
SystemCalls == HaltCall \cup ExitCalls \cup AnsweredCalls \cup ForkCall \cup YieldCall
               \cup ExecCall \cup EmptyCalls

(* The registers with a pending load landed, and without those registers   *)
(* that only the simulator looks at.                                       *)
Settle(r) ==
    [DelayedLoad(r, 0, 0) EXCEPT ![PrevPCReg] = 0, ![BadVAddrReg] = 0]

(* returnFromSystemCall. *)
Returned(r) == [r EXCEPT ![PrevPCReg] = r[PCReg], ![PCReg] = r[NextPCReg],
                         ![NextPCReg] = Sum(r[NextPCReg], 4)]

(* Memory behind the code, where a program does not mean to run, holds zeros, *)
(* which are the instruction that shifts register 0.                          *)
Nop == [op |-> "SLL", rs |-> 0, rt |-> 0, rd |-> 0, extra |-> 0]

(* The instruction at the program counter, and what stops its fetch. *)
Fetch(p, r) ==
    LET word == r[PCReg] \div 4 + 1
    IN IF word \in 1 .. Len(p.code) THEN p.code[word] ELSE Nop
FetchRaises(r, table) == Translate(table, r[PCReg], 4)
=============================================================================
