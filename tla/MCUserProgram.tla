--------------------------- MODULE MCUserProgram ----------------------------
(***************************************************************************)
(* UserProgram for TLC: words of 8 bits, pages of four instructions, and a *)
(* set of small programs that are laid out as test/start.s lays them out:  *)
(* main behind a call of it and an Exit, its data at the end.              *)
(***************************************************************************)
EXTENDS UserProgram

Three(op, rd, rs, rt) == [op |-> op, rs |-> rs, rt |-> rt, rd |-> rd, extra |-> 0]
Imm(op, rt, rs, n) == [op |-> op, rs |-> rs, rt |-> rt, rd |-> 0, extra |-> n % 256]
Shift(op, rd, rt, n) == [op |-> op, rs |-> 0, rt |-> rt, rd |-> rd, extra |-> n]
Set(r, n) == Imm("ADDIU", r, 0, n)
Jump(op, words) == Imm(op, 0, 0, words)
SysCall == Jump("SYSCALL", 0)
Call(code) == <<Set(2, code), SysCall>>
Call1(code, a) == <<Set(4, a)>> \o Call(code)
Call2(code, a, b) == <<Set(5, b)>> \o Call1(code, a)
Call3(code, a, b, c) == <<Set(6, c)>> \o Call2(code, a, b)
Leave == <<Three("JR", 0, 31, 0), Nop>>
Start == <<Jump("JAL", 4), Nop>> \o Call(1)
MainAt == 16

(* A program of main and data, run without and with slices. *)
Program(main, data) ==
    [code |-> Start \o main, data |-> data, timer |-> FALSE, preemptive |-> FALSE, slices |-> 0]
Timed(p, n) == [p EXCEPT !.timer = TRUE, !.slices = n]
Sliced(p, n) == [p EXCEPT !.preemptive = TRUE, !.slices = n]
DataAt(main) == MainAt + 4 * Len(main)

-----------------------------------------------------------------------------
(* One operation on two words, its results stored. *)
Operate(i, more, a, b) ==
    LET at0 == DataAt([k \in 1 .. 8 + Len(more) |-> k])
        main == <<Imm("LW", 8, 0, at0), Imm("LW", 9, 0, at0 + 4), Nop, i>> \o more
                \o <<Imm("SW", 10, 0, at0 + 8), Nop>> \o Leave
    IN Program(main, <<a, b, 0>>)

Edges == {0, 1, 3, 127, 128, 255}
PairOps == {"MULT", "MULTU", "DIV", "DIVU"}
Arithmetic ==
    {Operate(Three(op, 10, 8, 9), <<>>, a, b) :
        op \in {"ADD", "SUB"}, a \in Edges, b \in Edges}
    \cup {Operate(Imm("ADDI", 10, 8, b), <<>>, a, 0) : a \in Edges, b \in Edges}
    \cup {Operate(Three(op, 0, 8, 9), <<Three("MFLO", 10, 0, 0)>>, a, b) :
        op \in PairOps, a \in Edges, b \in Edges}

OtherOperations ==
    {Operate(Three(op, 10, 8, 9), <<>>, 165, 99) :
        op \in {"ADDU", "SUBU", "AND", "OR", "XOR", "NOR", "SLLV", "SRAV", "SRLV",
                "SLT", "SLTU"}}
    \cup {Operate(Imm(op, 10, 8, 250), <<>>, 165, 99) :
        op \in {"ADDIU", "ANDI", "ORI", "XORI", "SLTI", "SLTIU", "LUI"}}
    \cup {Operate(Shift(op, 10, 8, 3), <<>>, 165, 0) : op \in {"SLL", "SRA", "SRL"}}
    \cup {Operate(Three(pair[1], 0, 8, 0), <<Three(pair[2], 10, 0, 0)>>, 165, 0) :
        pair \in {<<"MTHI", "MFHI">>, <<"MTLO", "MFLO">>}}

(* Loads and stores of parts of a word, at aligned addresses and at others. *)
Transfers ==
    {Operate(Imm(op, 10, 0, 56 + n), <<Nop>>, 165, 99) :
        op \in {"LB", "LBU", "LH", "LHU", "LWL", "LWR"}, n \in {0, 1, 2}}
    \cup {Operate(Imm(op, 8, 0, 56 + n), <<Nop>>, 165, 99) :
        op \in {"SB", "SH", "SWL", "SWR"}, n \in {0, 1, 2}}

(* A loop that ends by each kind of branch, a subroutine and a jump over. *)
Loop(branch) ==
    Program(<<Set(8, 2), Imm("ADDIU", 8, 8, -1), branch, Nop>> \o Leave, <<>>)
Branchings ==
    {Loop(b) : b \in {Imm("BGTZ", 0, 8, -2), Imm("BNE", 0, 8, -2), Imm("BEQ", 8, 8, 1),
                      Imm("BGEZ", 0, 8, -2), Imm("BLEZ", 0, 8, 1), Imm("BLTZ", 0, 8, 1)}}
    \cup {Program(<<Three("ADDU", 9, 31, 0), Imm(op, 0, 0, 2), Nop, Nop,
                    Three("JR", 0, 9, 0), Nop>>, <<>>) : op \in {"BGEZAL", "BLTZAL"}}
    \cup {Program(<<Set(8, MainAt + 20), Three("JALR", 9, 8, 0), Nop, Jump("J", 3), Nop,
                    Three("JR", 0, 9, 0), Nop>> \o Leave, <<>>)}
    \cup {Program(<<Set(2, 10), Three("JR", 0, 31, 0), SysCall>>, <<>>)}

(* Programs that NachOS does not survive. *)
Faults ==
    {Program(<<i, Nop>> \o Leave, <<>>) :
        i \in {Imm("LW", 8, 0, 2), Imm("LB", 8, 0, 255), Imm("SW", 8, 0, 240), Jump("RES", 0)}}
    \cup {Program(<<Set(8, 200), Three("JR", 0, 8, 0), Nop>>, <<>>)}
    \cup {Program(Call(24) \o Leave, <<>>)}

-----------------------------------------------------------------------------
(* One call after the other, then the end. *)
Calling(calls) == Program(calls \o Leave, <<>>)
PlainCalls ==
    {Calling(Call(0)), Calling(Call1(3, 0)), Calling(Call1(2, 40)), Calling(Call1(2, 254)),
     Calling(Call(5) \o Call(11) \o Call(32) \o Call(10))}
Transfer(code, a, n, h) == Calling(Call3(code, a, n, h))
Transferring ==
    {Transfer(code, a, n, h) : code \in {6, 7}, a \in {68, 255}, n \in {0, 2, 255}, h \in {0, 1, 2, 3, 5, 9}}

(* Sockets, all in one thread and with a child that has a table of its own. *)
Sockets ==
    {Calling(Call2(30, 0, 0) \o Call2(30, 1, 1) \o Call1(8, h) \o Call2(30, 0, 1)) :
        h \in {0, 1, 4, 5, 9}}
    \cup {Calling(Call2(30, d, t)) : d \in {0, 2}, t \in {0, 2}}
    \cup {Calling(Call2(30, 0, 0) \o Call3(31, h, a, 80)) : h \in {4, 5, 9}, a \in {68, 254}}
    \cup {Calling(Call2(30, 0, 0) \o Call2(33, 3, 1) \o Call1(34, 3) \o Call2(35, 4, 0))}
    \cup {Calling(Call2(30, 0, 0) \o Call3(code, 68, 1, 4)) : code \in {6, 7}}
    \cup {Calling(Call1(8, 0) \o Call2(30, 0, 0) \o Call1(8, 0) \o Call2(30, 0, 0)),
          Calling(Call1(8, 0) \o Call1(8, 0) \o Call2(30, 0, 0)),
          Calling(Call1(8, 0) \o Call1(2, 40) \o Call2(30, 0, 0) \o Call2(30, 0, 0)),
          Calling(Call1(2, 40) \o Call2(30, 0, 0) \o Call1(8, 3) \o Call2(30, 0, 0)),
          Calling(Call1(8, 1) \o Call1(8, 1) \o Call2(30, 0, 0) \o Call1(8, 4)),
          Calling(Call2(30, 0, 0) \o Call2(30, 0, 0) \o Call2(30, 0, 0) \o Call2(30, 0, 0)),
          Calling(Call1(8, 2) \o Call2(30, 0, 0) \o Call1(8, 0) \o Call2(30, 0, 0) \o Call1(8, 0))}

-----------------------------------------------------------------------------
(* main forks a child; each keeps a number on its stack, over a Yield, and   *)
(* stores it in the data in the end.                                         *)
OnStack(n, to) ==
    <<Set(8, n), Imm("SW", 8, 29, 0)>> \o Call(10)
    \o <<Imm("LW", 9, 29, 0), Nop, Imm("SW", 9, 0, to)>> \o Leave
Forking ==
    LET main == Call1(9, 0) \o OnStack(1, 0)
        child == MainAt + 4 * Len(main)
        data == child + 4 * Len(OnStack(2, 0))
    IN Program(Call1(9, child) \o OnStack(1, data) \o OnStack(2, data + 4), <<0, 0>>)

(* main and its first child both fork, and frames run out for the last.  *)
(* The children look at their stacks, or they do not.                    *)
ForkTwice(child, pages) ==
    LET length == 3 + 3 + Len(Leave) + 3 + Len(child)
        used == 4 + length
    IN Program(Call1(9, MainAt + 32) \o Call1(9, MainAt + 44) \o Leave
               \o Call1(9, MainAt + 44) \o child,
               [k \in 1 .. 4 * (pages - 2) - used |-> 0])
Crowded ==
    {ForkTwice(child, pages) :
        child \in {Leave, <<Set(8, 3), Imm("SW", 8, 29, 0)>> \o Leave}, pages \in {9, NumPhysPages - 1}}

(* The child opens a socket while its parent does. *)
SocketsInBoth ==
    LET socket == Call2(30, 0, 0)
    IN Program(socket \o Call1(9, MainAt + 4 * (4 + 3 + 4 + 2)) \o socket \o Leave
               \o socket \o Call3(7, 0, 1, 4) \o Leave, <<>>)

MCPrograms ==
    Arithmetic \cup OtherOperations \cup Transfers \cup Branchings \cup Faults
    \cup PlainCalls \cup Transferring \cup Sockets \cup Crowded
    \cup {Timed(p, 3) : p \in {Forking, SocketsInBoth}}
    \cup {Sliced(p, 2) : p \in {Forking, SocketsInBoth}}
    \cup {Timed(p, 1) : p \in Crowded}

(* With -p, two threads may be in Fork at once. *)
MCRacingPrograms == {Sliced(p, 2) : p \in Crowded}
=============================================================================
