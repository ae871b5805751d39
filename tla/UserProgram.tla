----------------------------- MODULE UserProgram ----------------------------
(***************************************************************************)
(* A user program under NachOS: the simulated processor, the page tables,  *)
(* the system calls and the table of open files (userprog/, machine/       *)
(* mipssim.cc, threads/openFiles.cc), on the threads of the kernel.        *)
(*                                                                         *)
(* The threads of the program share one set of machine registers, saved    *)
(* and restored when the scheduler switches.  A system call runs with      *)
(* interrupts on, and so is several steps where another thread can be      *)
(* given the processor in the middle: at[t] says where thread t is.        *)
(***************************************************************************)
EXTENDS NachosKernel, AddrSpace

CONSTANTS
    MaxFiles,       \* entries of the table of open files (128 in the code)
    MaxFd           \* the UNIX descriptors of the host process are 0..MaxFd

ASSUME FilesAssumption == MaxFiles \in Nat /\ MaxFiles > 4 /\ MaxFd \in Nat /\ MaxFd >= 2

VARIABLES
    program,        \* the program and its command line; never changes
    registers,      \* Machine::registers
    mainMemory,     \* Machine::mainMemory
    pageTable,      \* the thread whose table Machine::pageTable points to
    space,          \* the page table of each thread; <<>>: it has none
    building,       \* the table that a thread in Fork is making
    userRegisters,  \* Thread::userRegisters
    MiMapa,         \* the frames in use
    at,             \* where a thread is in the user program or the kernel
    entry,          \* the argument of a new thread: where it starts
    fileTable,      \* Thread::fileTable
    unix,           \* the thread that opened each open UNIX descriptor, or NULL
    slices          \* how often the processor will still be taken away

userVars == <<program, registers, mainMemory, pageTable, space, building,
              userRegisters, MiMapa, at, entry, fileTable, unix, slices>>
vars == <<kernelVars, userVars>>

(* "new"    NachosForkThread or StartProcess comes next                    *)
(* "run"    between two instructions                                       *)
(* "trap"   in ExceptionHandler, before the system call                    *)
(* "find", "mark"  in Fork: before the test and the mark of a frame        *)
(* "return" after the system call, before returnFromSystemCall             *)
Places == {"new", "run", "trap", "find", "mark", "return"}

NoTable == <<>>
Frames == 0 .. NumPhysPages - 1
Pages == 0 .. NumPages(program) - 1
StandardFiles == 0 .. 3
Handles == 0 .. MaxFiles - 1
Tables(pages) == [pages -> {-1} \cup Frames]

(* OpenFiles::OpenFiles *)
NewFileTable ==
    [open |-> StandardFiles, users |-> 0,
     count |-> [h \in Handles |-> IF h \in StandardFiles THEN h ELSE 0]]

TypeOK ==
    /\ KernelTypeOK
    /\ program \in Programs
    /\ registers \in [Registers -> Word]
    /\ mainMemory \in [0 .. NumPhysPages * PageSize - 1 -> Byte]
    /\ pageTable \in Threads
    /\ space \in [Threads -> {NoTable} \cup Tables(Pages)]
    /\ building = [t \in Threads |-> building[t]]
    /\ \A t \in Threads : building[t] = NoTable \/ \E n \in Pages : building[t] \in Tables(0 .. n)
    /\ userRegisters \in [Threads -> [Registers -> Word]]
    /\ MiMapa \subseteq Frames
    /\ at \in [Threads -> Places] /\ entry \in [Threads -> Word]
    /\ fileTable \in [Threads -> [open : SUBSET Handles, users : Int, count : [Handles -> Int]]]
    /\ DOMAIN unix \subseteq 0 .. MaxFd /\ unix \in [DOMAIN unix -> Threads \cup {NULL}]
    /\ slices \in Nat

-----------------------------------------------------------------------------
(* StartProcess has loaded the program: page p is in frame p. *)
Init ==
    /\ KernelInit
    /\ program \in Programs
    /\ registers = InitRegisters(NumPages(program))
    /\ mainMemory = [a \in 0 .. NumPhysPages * PageSize - 1 |-> Image(program, a)]
    /\ pageTable = Main
    /\ space = [t \in Threads |-> IF t = Main THEN [p \in Pages |-> p] ELSE NoTable]
    /\ building = [t \in Threads |-> NoTable]
    /\ userRegisters = [t \in Threads |-> [x \in Registers |-> 0]]
    /\ MiMapa = Pages
    /\ at = [t \in Threads |-> IF t = Main THEN "run" ELSE "new"]
    /\ entry = [t \in Threads |-> 0]
    /\ fileTable = [t \in Threads |-> NewFileTable]
    /\ unix = [fd \in 0 .. 2 |-> NULL]
    /\ slices = program.slices

(* Kernel code of t with interrupts on, at one of its places. *)
At(t, place) == Executing(t) /\ at[t] = place

(* The kernel is entered and left without another thread getting the CPU. *)
InKernel == UNCHANGED <<currentThread, status, readyList, level, oldLevel, pc,
                        threadToBeDestroyed, destroyed, machine>>

Table == space[pageTable]
Now == Fetch(program, registers)
Arg(n) == registers[n + 3]          \* registers 4, 5 and 6
Reads(addr) == Translate(Table, addr % WordSize, 1) = "NoException"
ReadsByte(addr) == mainMemory[Physical(Table, addr % WordSize)]

(* Loops that read memory up to a 0 find one before a page that is not there. *)
ReadsName(addr) ==
    \E n \in 0 .. WordSize - 1 :
        (\A k \in 0 .. n : Reads(addr + k)) /\ ReadsByte(addr + n) = 0
ReadsBuffer(addr, size) == \A k \in 0 .. size - 1 : Reads(addr + k)

-----------------------------------------------------------------------------
(* One turn of Machine::Run; OneTick leaves interrupts enabled. *)
Instruction(t) ==
    /\ At(t, "run")
    /\ FetchRaises(registers, Table) = "NoException"
    /\ Raises(registers, Now, Table) = "NoException"
    /\ registers' = Execute(registers, Now, mainMemory, Table)
    /\ mainMemory' = Overwritten(mainMemory, Stored(registers, Now, mainMemory, Table))
    /\ level' = "On"
    /\ UNCHANGED <<currentThread, status, readyList, oldLevel, pc, threadToBeDestroyed,
                   destroyed, machine, program, pageTable, space, building, userRegisters,
                   MiMapa, entry, at, fileTable, unix, slices>>

(* Every exception but a system call ends in an ASSERT of ExceptionHandler. *)
Exception(t) ==
    /\ At(t, "run")
    /\ \/ FetchRaises(registers, Table) # "NoException"
       \/ Raises(registers, Now, Table) \notin {"NoException", "Syscall"}
    /\ Abort
    /\ UNCHANGED userVars

(* RaiseException for a system call. *)
Trap(t) ==
    /\ At(t, "run")
    /\ FetchRaises(registers, Table) = "NoException"
    /\ Raises(registers, Now, Table) = "Syscall"
    /\ registers' = DelayedLoad([registers EXCEPT ![BadVAddrReg] = 0], 0, 0)
    /\ at' = [at EXCEPT ![t] = "trap"]
    /\ InKernel
    /\ UNCHANGED <<program, mainMemory, pageTable, space, building, userRegisters,
                   MiMapa, entry, fileTable, unix, slices>>

Calls(t, codes) == At(t, "trap") /\ registers[2] \in codes

(* returnFromSystemCall, and the OneTick of Machine::Run after it. *)
ReturnFromSystemCall(t) ==
    /\ At(t, "return")
    /\ registers' = Returned(registers)
    /\ at' = [at EXCEPT ![t] = "run"]
    /\ level' = "On"
    /\ UNCHANGED <<currentThread, status, readyList, oldLevel, pc, threadToBeDestroyed,
                   destroyed, machine, program, mainMemory, pageTable, space, building,
                   userRegisters, MiMapa, entry, fileTable, unix, slices>>

-----------------------------------------------------------------------------
(* NachOS ends: Interrupt::Halt, or the exit(2) of a socket call that fails. *)
Stop ==
    /\ machine' = "halted"
    /\ UNCHANGED <<currentThread, status, readyList, level, oldLevel, pc,
                   threadToBeDestroyed, destroyed, userVars>>

(* An ASSERT of a system call fails, or the host's new or ReadMem does. *)
Fail == Abort /\ UNCHANGED userVars

NachOS_Halt(t) == Calls(t, HaltCall) /\ Stop

(* NachOS_Exit and NachOS_Join. *)
NachOS_Exit(t) ==
    /\ Calls(t, ExitCalls)
    /\ Finish(t)
    /\ UNCHANGED userVars

(* The call does nothing but come back. *)
Back(t) ==
    /\ at' = [at EXCEPT ![t] = "return"]
    /\ InKernel
    /\ UNCHANGED <<program, registers, mainMemory, pageTable, space, building,
                   userRegisters, MiMapa, entry, fileTable, unix, slices>>

(* NachOS_Exec when the host opens no file of that name, or there is no name. *)
ExecFails(t) ==
    /\ Calls(t, ExecCall)
    /\ IF ReadsName(Arg(1)) THEN Back(t) ELSE Fail

EmptyCall(t) == Calls(t, EmptyCalls) /\ Back(t)

UnexpectedCall(t) ==
    /\ At(t, "trap")
    /\ registers[2] \notin SystemCalls
    /\ Fail

-----------------------------------------------------------------------------
(* Thread t yields with its user registers at r; Scheduler::Run saves them. *)
YieldProcessor(t, r) ==
    /\ Yield(t)
    /\ userRegisters' = IF readyList = <<>> THEN userRegisters
                        ELSE [userRegisters EXCEPT ![t] = r]
    /\ UNCHANGED <<program, mainMemory, pageTable, space, building, MiMapa, entry, fileTable, unix>>

NachOS_Yield(t) ==
    /\ Calls(t, YieldCall)
    /\ YieldProcessor(t, registers)
    /\ at' = [at EXCEPT ![t] = "return"]
    /\ UNCHANGED <<registers, slices>>

(* The timer's interrupt (-rs) at a OneTick: after an instruction, and when a  *)
(* kernel routine turns interrupts on again, in ThreadRoot, Fork and Yield.    *)
(* CheckIfDue lets the pending load land.                                      *)
TimerInterrupt(t) ==
    /\ program.timer /\ slices > 0 /\ level = "On"
    /\ \/ At(t, "new") \/ At(t, "run")
       \/ At(t, "return") /\ registers[2] \in ForkCall \cup YieldCall
    /\ registers' = DelayedLoad(registers, 0, 0)
    /\ YieldProcessor(t, registers')
    /\ slices' = slices - 1
    /\ UNCHANGED at

(* ContextSwitch (-p), anywhere with interrupts enabled. *)
Slice(t) ==
    /\ program.preemptive /\ slices > 0 /\ level = "On"
    /\ Executing(t)
    /\ YieldProcessor(t, registers)
    /\ slices' = slices - 1
    /\ UNCHANGED <<registers, at>>

(* Mutant of Restored: the page table of the thread before stays loaded. *)
RestoredButTable(t) ==
    /\ registers' = userRegisters[t]
    /\ UNCHANGED pageTable

(* RestoreUserState and AddrSpace::RestoreState. *)
Restored(t) ==
    /\ registers' = userRegisters[t]
    /\ pageTable' = t

SwitchBack(t) ==
    /\ YieldReturn(t)
    /\ Restored(t)
    /\ UNCHANGED <<program, mainMemory, space, building, userRegisters, MiMapa, entry, at,
                   fileTable, unix, slices>>

(* Dispatch saves the registers of the thread that has finished, too. *)
SwitchAway ==
    /\ Dispatch
    /\ userRegisters' = [userRegisters EXCEPT ![currentThread] = registers]
    /\ UNCHANGED <<program, registers, mainMemory, pageTable, space, building, MiMapa, entry, at,
                   fileTable, unix, slices>>

StartThread(t) == ThreadRoot(t) /\ UNCHANGED userVars

(* The function of a new thread; its argument is where the program goes on. *)
NachosForkThread(t) ==
    /\ At(t, "new")
    /\ registers' = ForkRegisters(NumPages(program), entry[t])
    /\ pageTable' = t
    /\ at' = [at EXCEPT ![t] = "run"]
    /\ InKernel
    /\ UNCHANGED <<program, mainMemory, space, building, userRegisters, MiMapa, entry,
                   fileTable, unix, slices>>

-----------------------------------------------------------------------------
(* Read, Write and Close hold syscall_lock; Lock::Acquire leaves interrupts *)
(* disabled, so that no other thread can be waiting for it.  The answer is  *)
(* left in register 2.                                                      *)
Answer(t, word) ==
    /\ registers' = [registers EXCEPT ![2] = word % WordSize]
    /\ at' = [at EXCEPT ![t] = "return"]
    /\ UNCHANGED <<currentThread, status, readyList, oldLevel, pc, threadToBeDestroyed,
                   destroyed, machine, program, pageTable, space, building,
                   userRegisters, MiMapa, entry, slices>>

NoAnswer == -1
IsOpen(t, h) == h \in fileTable[t].open
ByteCount == Signed(Arg(2))

(* Bytes that come from outside are any bytes. *)
Received(addr, size) ==
    LET buffer == {Physical(Table, (addr + k) % WordSize) : k \in 0 .. size - 1}
    IN \E bytes \in [buffer -> Byte] :
          mainMemory' = Overwritten(mainMemory, bytes)

(* The handle is one the table has an entry for, the size no negative one. *)
LegalTransfer == ByteCount >= 0 /\ Arg(3) \in Handles

NachOS_Write(t) ==
    /\ Calls(t, WriteCall)
    /\ LegalTransfer
    /\ \/ /\ Arg(3) \in {0, 2} \/ (Arg(3) # 1 /\ ~IsOpen(t, Arg(3)))
          /\ Answer(t, NoAnswer)
       \/ /\ Arg(3) = 1 /\ ReadsBuffer(Arg(1), ByteCount)
          /\ Answer(t, 1)
       \/ /\ Arg(3) \notin 0 .. 2 /\ IsOpen(t, Arg(3)) /\ ReadsBuffer(Arg(1), ByteCount)
          /\ \E n \in -1 .. ByteCount : Answer(t, n)
    /\ level' = "Off"
    /\ UNCHANGED <<mainMemory, fileTable, unix>>

(* Reading standard input, handle 2, looks at one byte more than the buffer. *)
NachOS_Read(t) ==
    /\ Calls(t, ReadCall)
    /\ LegalTransfer
    /\ \/ /\ Arg(3) \in {0, 1} \/ (Arg(3) # 2 /\ ~IsOpen(t, Arg(3)))
          /\ Answer(t, NoAnswer)
          /\ UNCHANGED mainMemory
       \/ /\ Arg(3) = 2 /\ ReadsBuffer(Arg(1), ByteCount + 1)
          /\ Answer(t, 1)
          /\ Received(Arg(1), ByteCount)
       \/ /\ Arg(3) \notin 0 .. 2 /\ IsOpen(t, Arg(3)) /\ ReadsBuffer(Arg(1), ByteCount)
          /\ \E n \in -1 .. ByteCount : Answer(t, n)
          /\ Received(Arg(1), ByteCount)
    /\ level' = "Off"
    /\ UNCHANGED <<fileTable, unix>>

(* An ASSERT of BitMap::Test, of ExceptionHandler after ReadMem, or new. *)
TransferFails(t) ==
    /\ Calls(t, ReadCall \cup WriteCall)
    /\ LET reads == registers[2] \in ReadCall
           ignored == IF reads THEN {0, 1} ELSE {0, 2}
           last == ByteCount + Bool(reads /\ Arg(3) = 2)
       IN \/ ~LegalTransfer
          \/ /\ Arg(3) \notin ignored /\ ~ReadsBuffer(Arg(1), last)
             /\ Arg(3) \in {1, 2} \/ IsOpen(t, Arg(3))
    /\ Fail

(* OpenFiles::Close *)
ClosedTable(files, h) ==
    IF files.users = 0 THEN files
    ELSE [files EXCEPT !.count[h] = @ - 1,
                       !.open = IF files.count[h] = 1 THEN @ \ {h} ELSE @]

(* Mutant of NachOS_Close: the UNIX socket is closed, the entry is kept. *)
NachOS_CloseSocketOnly(t) ==
    /\ Calls(t, CloseCall)
    /\ Arg(1) \in Handles
    /\ IF IsOpen(t, Arg(1))
       THEN /\ Answer(t, 0)
            /\ unix' = [fd \in DOMAIN unix \ {fileTable[t].count[Arg(1)]} |-> unix[fd]]
       ELSE Answer(t, NoAnswer) /\ UNCHANGED unix
    /\ level' = "Off"
    /\ UNCHANGED <<mainMemory, fileTable>>

(* The UNIX file is closed only if its number, taken for a count, is 1; what *)
(* is closed then is the UNIX file with the number of the handle.            *)
NachOS_Close(t) ==
    /\ Calls(t, CloseCall)
    /\ LET h == Arg(1)
           files == fileTable[t]
       IN \/ /\ h \in Handles /\ ~IsOpen(t, h)
             /\ Answer(t, NoAnswer)
             /\ UNCHANGED <<fileTable, unix>>
          \/ /\ h \in Handles /\ IsOpen(t, h) /\ files.count[h] = 1
             /\ Answer(t, IF h \in DOMAIN unix THEN 0 ELSE -1)
             /\ unix' = [fd \in DOMAIN unix \ {h} |-> unix[fd]]
             /\ fileTable' = [fileTable EXCEPT ![t] = ClosedTable(files, h)]
          \/ /\ h \in Handles /\ IsOpen(t, h) /\ files.count[h] # 1
             /\ Answer(t, 1)
             /\ fileTable' = [fileTable EXCEPT ![t].users = @ - 1]
             /\ UNCHANGED unix
    /\ level' = "Off"
    /\ UNCHANGED mainMemory

-----------------------------------------------------------------------------
(* UNIX gives a process the lowest descriptor that is free. *)
FreeFds == (0 .. MaxFd) \ DOMAIN unix
Opened(t) == [fd \in DOMAIN unix \cup {Min(FreeFds)} |-> IF fd \in DOMAIN unix THEN unix[fd] ELSE t]

(* NachOS_Exec opens a file and runs nothing; nobody closes the file. *)
NachOS_Exec(t) ==
    /\ Calls(t, ExecCall)
    /\ ReadsName(Arg(1)) /\ FreeFds # {}
    /\ unix' = Opened(t)
    /\ at' = [at EXCEPT ![t] = "return"]
    /\ InKernel
    /\ UNCHANGED <<program, registers, mainMemory, pageTable, space, building,
                   userRegisters, MiMapa, entry, fileTable, slices>>

(* OpenFiles::Open: the table afterwards and the handle it answers.  A full *)
(* table is written before its first entry.                                 *)
OpenedTable(files, fd) ==
    LET free == Handles \ files.open
        users == files.users + 1
    IN IF users = 0
       THEN [files |-> [files EXCEPT !.users = users, !.open = @ \cup {0}, !.count[0] = 1],
             handle |-> 0]
       ELSE IF users < 0 THEN [files |-> [files EXCEPT !.users = users], handle |-> -1]
       ELSE IF fd \notin files.open THEN [files |-> [files EXCEPT !.users = users], handle |-> 1]
       ELSE IF free = {} THEN [files |-> [files EXCEPT !.users = users], handle |-> -1]
       ELSE [files |-> [files EXCEPT !.users = users, !.open = @ \cup {Min(free)},
                                     !.count[Min(free)] = fd],
             handle |-> Min(free)]

(* NachOS_Socket, with an address family and a type that there are. *)
NachOS_Socket(t) ==
    /\ Calls(t, {30})
    /\ Arg(1) \in {0, 1} /\ Arg(2) \in {0, 1} /\ FreeFds # {}
    /\ LET fd == Min(FreeFds)
           new == OpenedTable(fileTable[t], fd)
       IN IF fileTable[t].users >= 0 /\ fd \notin Handles THEN Fail
          ELSE /\ Answer(t, new.handle)
               /\ unix' = Opened(t)
               /\ fileTable' = [fileTable EXCEPT ![t] = new.files]
               /\ UNCHANGED <<level, mainMemory>>

(* NachOS_Connect; of a handle that is not open it says that it has worked. *)
NachOS_Connect(t) ==
    /\ Calls(t, {31})
    /\ IF Arg(1) \notin Handles \/ (IsOpen(t, Arg(1)) /\ ~ReadsName(Arg(2))) THEN Fail
       ELSE /\ Answer(t, 0)
            /\ UNCHANGED <<level, mainMemory, fileTable, unix>>

(* NachOS_Listen and NachOS_Shutdown; the argument is a UNIX descriptor. *)
NachOS_Listen(t) ==
    /\ Calls(t, {33, 35})
    /\ Arg(1) \in DOMAIN unix
    /\ Answer(t, 0)
    /\ UNCHANGED <<level, mainMemory, fileTable, unix>>

(* NachOS_Accept; so is its answer. *)
NachOS_Accept(t) ==
    /\ Calls(t, {34})
    /\ Arg(1) \in DOMAIN unix /\ FreeFds # {}
    /\ Answer(t, Min(FreeFds))
    /\ unix' = Opened(t)
    /\ UNCHANGED <<level, mainMemory, fileTable>>

(* The host refuses, or the arguments are none: perror and exit(2). *)
SocketFails(t) ==
    /\ Calls(t, SocketCalls)
    /\ registers[2] = 31 => IsOpen(t, Arg(1)) /\ ReadsName(Arg(2))
    /\ Stop

CloseFails(t) == Calls(t, CloseCall) /\ Arg(1) \notin Handles /\ Fail

-----------------------------------------------------------------------------
(* NachOS_Fork: a new thread, whose table gets the shared pages. *)
ForkStart(t) ==
    /\ Calls(t, ForkCall)
    /\ building' = [building EXCEPT ![t] = [p \in SharedPages(program) |-> space[t][p]]]
    /\ at' = [at EXCEPT ![t] = "find"]
    /\ InKernel
    /\ UNCHANGED <<program, registers, mainMemory, pageTable, space, userRegisters,
                   MiMapa, entry, fileTable, unix, slices>>

(* Mutant of FreeFrame: one frame too many is looked at. *)
FreeFrameBeyond == Min((0 .. NumPhysPages) \ MiMapa)

(* The frame BitMap::Find returns. *)
FreeFrame == IF Frames \ MiMapa = {} THEN -1 ELSE Min(Frames \ MiMapa)

(* BitMap::Find for the next page of the new stack, up to the frame's Test. *)
FindTest(t) ==
    /\ At(t, "find")
    /\ building[t] # NoTable /\ Pages # DOMAIN building[t]
    /\ building' = [building EXCEPT ![t] =
            [p \in 0 .. Cardinality(DOMAIN @) |-> IF p \in DOMAIN @ THEN @[p] ELSE FreeFrame]]
    /\ at' = [at EXCEPT ![t] = IF FreeFrame = -1 THEN "find" ELSE "mark"]
    /\ InKernel
    /\ UNCHANGED <<program, registers, mainMemory, pageTable, space, userRegisters,
                   MiMapa, entry, fileTable, unix, slices>>

(* Mutant of FindMark: the frame is not marked. *)
FindForgetsMark(t) ==
    /\ At(t, "mark")
    /\ at' = [at EXCEPT ![t] = "find"]
    /\ InKernel
    /\ UNCHANGED <<program, registers, mainMemory, pageTable, space, building,
                   userRegisters, MiMapa, entry, fileTable, unix, slices>>

(* BitMap::Find, from the Mark of the frame on. *)
FindMark(t) ==
    /\ At(t, "mark")
    /\ MiMapa' = MiMapa \cup {building[t][Max(DOMAIN building[t])]}
    /\ at' = [at EXCEPT ![t] = "find"]
    /\ InKernel
    /\ UNCHANGED <<program, registers, mainMemory, pageTable, space, building,
                   userRegisters, entry, fileTable, unix, slices>>

(* The new thread has its space: Thread::Fork. *)
ForkChild(t) ==
    /\ At(t, "find")
    /\ Pages = DOMAIN building[t]
    /\ \E u \in Threads : status[u] = "JUST_CREATED"
    /\ LET u == CHOOSE u \in Threads : status[u] = "JUST_CREATED"
       IN /\ Fork(t, u)
          /\ space' = [space EXCEPT ![u] = building[t]]
          /\ entry' = [entry EXCEPT ![u] = Arg(1)]
    /\ building' = [building EXCEPT ![t] = NoTable]
    /\ at' = [at EXCEPT ![t] = "return"]
    /\ UNCHANGED <<program, registers, mainMemory, pageTable, userRegisters, MiMapa,
                   fileTable, unix, slices>>

-----------------------------------------------------------------------------
SystemCall(t) ==
    \/ NachOS_Halt(t)
    \/ NachOS_Exit(t)
    \/ NachOS_Exec(t)
    \/ ExecFails(t)
    \/ NachOS_Write(t)
    \/ NachOS_Read(t)
    \/ TransferFails(t)
    \/ NachOS_Close(t)
    \/ CloseFails(t)
    \/ ForkStart(t)
    \/ NachOS_Yield(t)
    \/ EmptyCall(t)
    \/ UnexpectedCall(t)
    \/ NachOS_Socket(t)
    \/ NachOS_Connect(t)
    \/ NachOS_Listen(t)
    \/ NachOS_Accept(t)
    \/ SocketFails(t)

Kernel(t) ==
    \/ Trap(t)
    \/ Exception(t)
    \/ SystemCall(t)
    \/ FindTest(t)
    \/ FindMark(t)
    \/ ForkChild(t)
    \/ ReturnFromSystemCall(t)

Switch(t) ==
    \/ TimerInterrupt(t)
    \/ Slice(t)
    \/ SwitchBack(t)
    \/ StartThread(t)
    \/ NachosForkThread(t)

Next ==
    \/ \E t \in Threads : Instruction(t) \/ Kernel(t) \/ Switch(t)
    \/ SwitchAway
    \/ Idle /\ UNCHANGED userVars
    \/ Stopped /\ UNCHANGED userVars

Spec == Init /\ [][Next]_vars

(* The host goes on executing NachOS. *)
FairSpec == Spec /\ WF_vars(Next)

-----------------------------------------------------------------------------
(* The refinement mapping: a thread's processor is in the registers while it *)
(* runs and in userRegisters while it does not.                              *)
Running(t) == currentThread = t /\ pc[t] = "client"
Processor(t) ==
    LET r == IF Running(t) THEN registers ELSE userRegisters[t]
    IN IF space[t] = NoTable \/ pc[t] = "finish" THEN NULL
       ELSE IF at[t] = "new" THEN ForkRegisters(NumPages(program), entry[t])
       ELSE Settle(IF at[t] = "return" THEN Returned(r) ELSE r)

OwnStack(t) ==
    LET got == IF Processor(t) = NULL THEN {}
               ELSE {p \in OwnPages(program) : space[t][p] # -1}
    IN [a \in Addresses(got) |-> mainMemory[Physical(space[t], a)]]

Virtual == INSTANCE VirtualCpus WITH
    cpu <- [t \in Threads |-> Processor(t)],
    shared <- [a \in Addresses(SharedPages(program)) |-> mainMemory[a]],
    stack <- [t \in Threads |-> OwnStack(t)],
    state <- machine

(* Every thread has, as far as it can see, a processor and a stack of its    *)
(* own: switching saves and restores all of the registers and the page table *)
(* at whatever point of the program or of a system call it happens, and      *)
(* nobody else writes a thread's stack.                                      *)
ImplementsVirtualCpus == Virtual!Spec

(* MULT, MULTU and DIV give the product, the quotient and the remainder of   *)
(* the integers the words stand for, and ADD, ADDI and SUB raise an overflow *)
(* exactly when the result is no word.                                       *)
ArithmeticIsExact ==
    \A t \in Threads : At(t, "run") =>
        LET a == registers[Now.rs]
            b == Operand(registers, Now)
            w == Written(registers, Now)
            exact == IF Now.op = "SUB" THEN Signed(a) - Signed(b) ELSE Signed(a) + Signed(b)
            quotient == Signed(w[LoReg])
            rest == Signed(w[HiReg])
        IN /\ Now.op = "MULT" => Signed(w[HiReg]) * WordSize + w[LoReg] = Signed(a) * Signed(b)
           /\ Now.op = "MULTU" => w[HiReg] * WordSize + w[LoReg] = a * b
           /\ Now.op \in {"ADD", "ADDI", "SUB"} =>
                 (Overflows(registers, Now) <=> exact \notin -SignBit .. SignBit - 1)
           /\ Now.op = "DIV" /\ b # 0 /\ Raises(registers, Now, Table) = "NoException" =>
                 /\ quotient * Signed(b) + rest = Signed(a)
                 /\ Magnitude(rest) < Magnitude(Signed(b))
                 /\ rest # 0 => (rest < 0 <=> Signed(a) < 0)

(* A frame that Fork has found for the stack of one thread is in the page    *)
(* table of no other, and is not found again.                                *)
FramesPrivate ==
    \A t, u \in Threads : t # u /\ space[t] # NoTable /\ space[u] # NoTable =>
        \A p \in OwnPages(program) :
            space[t][p] # -1 => /\ space[t][p] \in MiMapa
                                /\ space[t][p] \notin Range(space[u])

(* What a program gets from Socket goes on naming the UNIX socket it was     *)
(* opened for, two handles never the same one, as long as nobody closes the  *)
(* UNIX standard input or output.  Close of handle 1 closes the output, and  *)
(* Close of handle 0 the input, when the handle's count is a 1.              *)
HandlesAreOwn ==
    (\A fd \in {0, 1} : fd \in DOMAIN unix /\ unix[fd] = NULL) =>
        \A t \in Threads : LET sockets == fileTable[t].open \ StandardFiles
                                fd(h) == fileTable[t].count[h]
                            IN \A h \in sockets :
                                  /\ fd(h) \in DOMAIN unix /\ unix[fd(h)] = t
                                  /\ \A g \in sockets \ {h} : fd(g) # fd(h)

(* A program that has no loop without an end ends, and NachOS with it: the   *)
(* program counter goes on after every system call, and nobody is forgotten. *)
ProgramsEnd == <>(machine # "up")

(* bitmap.cc:85-92: Find finds and allocates a bit, so that two threads in    *)
(* Fork get different frames.  A time slice may end between its Test and its *)
(* Mark.                                                                      *)
FindAllocates ==
    \A t, u \in Threads : t # u =>
        \A p \in DOMAIN building[t] \cap DOMAIN building[u] \cap OwnPages(program) :
            building[t][p] # -1 => building[t][p] # building[u][p]

(* A new stack area is created for the child of a Fork. *)
StackIsOwn ==
    LET stackPages == NumPages(program) - StackPages .. NumPages(program) - 1
    IN \A t, u \in Threads : t # u /\ space[t] # NoTable /\ space[u] # NoTable =>
          \A p \in stackPages : space[t][p] # -1 => space[t][p] \notin Range(space[u])
=============================================================================
