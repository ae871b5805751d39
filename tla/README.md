# NachOS in TLA+

TLA+ modules, TLC runs and TLAPS proofs for the operating system kernel in this
repository: NachOS, the instructional kernel, in the state its last assignment
left it (`TAREAS_OPER/Tarea5/NachOSx64/code`). Paths below are relative to that
directory unless they start with `src/`. The other four copies of NachOS
(`TAREAS_OPER/Tarea02`, `tarea3`, `Tarea4_SysCalls`, `Santa`) are earlier states
of the same kernel.

User programs are the exception. In Tarea5 none can run: without virtual memory
the loader counts the pages of the code in units of `numPages` bytes
(`userprog/addrspace.cc:132`), and with it the first page fault ends in
ASSERT(false) (`userprog/exception.cc:690-698`). The system calls, address
spaces and open files are therefore those of `Tarea4_SysCalls`, whose programs
do run; the two copies differ in `addrspace`, `exception` and `system` only.
Paths of `userprog/` and of the processor below are relative to
`TAREAS_OPER/Tarea4_SysCalls/NachOSx64/code` where user programs are concerned.

## 1. The system

NachOS is a kernel and a simulated machine in one UNIX process. There is one
CPU and one interrupt level. Simulated time advances only when interrupts are
turned on, when a user instruction ends, and when nothing is ready to run
(`Interrupt::Idle`); the devices' interrupts, kept in a sorted list, happen
only there. A kernel routine that runs with interrupts off is therefore atomic
up to its calls of `SWITCH`.

| component | state | operations | interacts with |
|---|---|---|---|
| Threads, scheduler (`threads/thread.cc`, `scheduler.cc`) | `currentThread`, status and saved registers of each thread, ready list, `threadToBeDestroyed` | Fork, Yield, Finish, Sleep; ReadyToRun, FindNextToRun, Run | every other component |
| Synchronization (`threads/synch.cc`) | value and queue of a semaphore, owner of a lock, queue of a condition, count of a barrier | P, V, Destroy; Acquire, Release; Wait, Signal, Broadcast; Lock, Unlock; Barrier::Wait | the scheduler (Sleep, ReadyToRun), the interrupt level; V also from interrupt handlers |
| Dining philosophers (`threads/diningph.cc`, `threadtest.cc`) | Thinking, Hungry or Eating for each of five | pickup, putdown, test | a lock and five condition variables |
| Disk (`filesys/synchdisk.cc`, `machine/disk.cc`) | `active`, the contents of the sectors | ReadSector, WriteSector; ReadRequest, WriteRequest, HandleInterrupt | a lock, a semaphore, the disk interrupt |
| Post office (`network/post.cc`, `threads/synchlist.h`, `machine/network.cc`) | mailboxes, one buffered packet, `sendBusy`, the socket | Send, Receive, PostalDelivery, CheckPktAvail, SendDone | two semaphores, a lock and a condition for each box, a worker thread, two interrupts |
| File system (`filesys/*.cc`, `userprog/bitmap.cc`) | bitmap, directory, headers and data on the disk; the headers of open files in memory | Create, Open, Remove; Read, Write, Seek | the synchronous disk |
| Interrupts, timer (`machine/interrupt.cc`, `timer.cc`, `threads/list.h`) | level, machine status, clock, pending interrupts, `yieldOnReturn` | SetLevel, OneTick, Idle, Schedule, CheckIfDue, Halt | the devices' handlers, the scheduler |
| Console (`machine/console.cc`, `userprog/progtest.cc`) | one buffered character, `putBusy` | GetChar, PutChar, CheckCharAvail, WriteDone; ConsoleTest | two semaphores, two interrupts |
| Time slices (`threads/preemptive.cc`) | a second UNIX process with ptrace | forces a Yield while interrupts are on | the scheduler |
| System calls, open files (`userprog/exception.cc`, `threads/openFiles.cc`) | a table of open files for each thread, the UNIX descriptors of the host | Halt, Exit, Join, Exec, Read, Write, Close, Fork, Yield, Socket, Connect, Listen, Accept, Shutdown; Open, Close, isOpen | threads, a lock, UNIX sockets |
| Address spaces (`userprog/addrspace.cc`, `bitmap.cc`, `machine/translate.cc`) | a page table for each thread, the bitmap of frames, main memory | load, Fork, RestoreState; Find, Translate, ReadMem, WriteMem | the processor, the scheduler |
| Processor (`machine/mipssim.cc`, `machine.cc`) | 40 registers, the delayed load among them | OneInstruction, DelayedLoad, RaiseException | the scheduler (SaveUserState, RestoreUserState), the clock |

What is hard in it, and what makes each component correct:

* **Threads and semaphores.** A woken thread and a newcomer race for the value
  (Mesa semantics throughout), several V may come before any woken thread runs,
  and handlers do V at any moment interrupts are on. Correct means: every
  thread is in exactly one place, no wakeup is lost, a lock has one owner and
  stays with it, nobody destroys a thread that can still run.
* **The interrupt level.** `Lock::Acquire` leaves interrupts off. This breaks
  the convention written at the top of `synch.cc`, and it is also what keeps
  time slices out of every critical section.
* **Monitors.** `DiningPh::pickup` waits with an `if`; `SynchList::Remove`
  waits with a `while`. The first is right only because the signaller has
  already changed the state for the one it wakes.
* **Devices.** An answer can come before, while, or long after its caller goes
  to sleep; buffers hold one character, one packet, one request.
* **Files.** An operation fails half way, or NachOS exits between two writes.
* **User programs.** All threads of a program share one set of machine
  registers, which is saved and restored when the scheduler switches, wherever
  a thread is: between a branch and its delay slot, with a load on its way, or
  in the middle of a system call. Correct means that no thread can tell.
* **The clock.** Interrupts that tie, are due at once, are put back, or are the
  only one left.

The full list of such hazards, each at its line with the properties that watch
it, is in `PROJECT.json`.

## 2. The modules

```
NachosKernel   threads, scheduler, interrupt level        (no specification of its own)
  NachosSynch  semaphores, locks, conditions, mutexes     (no specification of its own)
    SynchClient     the most general client of both
    NachosBarrier   threads that meet at a Barrier
    DiningPh        the monitor and the threads of ThreadTest
    SynchDisk       the synchronous disk on the raw disk  => AtomicDisk
    PostOffice      post office, SynchList and network    => MailChannel
    ConsoleTest     console device and echoing thread
FileSystem     files on sectors                           => AtomicFiles
Interrupt      clock, pending interrupts, idle loop
MipsCpu        one instruction                            (operators only)
  AddrSpace    pages, first registers, system call codes  (operators only)
    UserProgram     (also on NachosKernel)                => VirtualCpus
```

`=>` points to the abstract specification that the module implements, with the
refinement mapping at its end. `MC*` modules only give TLC its constants. The
proofs about `DiningPh`, `SynchDisk`, `PostOffice`, `ConsoleTest`, `FileSystem`,
`Interrupt` and `UserProgram` are in the modules of the same name with `Proofs`
at the end; those about `SynchClient` are in `NachosSynchProofs`, with the
lemmas about the kernel's routines that four others rest on.

**How steps correspond to code.** A kernel routine up to its return, or up to
its call of `SWITCH`, is one action. A thread inside a routine it will return
to after `SWITCH` has the routine's name in `pc` (`"P"`, `"Wait"`, `"yield"`,
`"Barrier"`), and the rest of the routine, beginning with the deletion of
`threadToBeDestroyed`, is the action `ResumeP`, `ResumeWait`, `YieldReturn`,
`BarrierReturn`. `Thread::Sleep` marks the thread and enters its loop; the loop
is `Dispatch` when the ready list has a thread, an interrupt handler or `Idle`
when it is empty. A thread dispatched for the first time executes
`ThreadRoot`, which turns interrupts on and does *not* delete a pending
carcass. An ASSERT that fails sets `machine` to `"aborted"`.

Clients are programs of small steps: one statement of the source that touches
shared state is one step, and `step[t]` is the statement a thread is at. Where
the level is on, a time slice may end (`Yield` by the timer or the preemptive
scheduler) and a device's handler may run (`InterruptWindow`).

What the main variables stand for: `value`, `queue` of a semaphore, lock
(its `sem_lock`) or condition; `lockOwner`; `waitsOn` and `relock`, the local
variables of a thread inside P or Wait; `active` and `sector` of the disk;
`inbox` (NULL when `inHdr.length` is 0), `socket`, `sends` (send interrupts
that are pending) of the network; `map`, `dir`, `disk` of the file system, with
`call` the Create or Remove that has decided and not yet written everything;
`pending` of the interrupts, with the time that is *left* for each;
`registers`, `mainMemory` and `pageTable` of the machine, `userRegisters`,
`space` and `fileTable` of each thread, `MiMapa` the frames in use, `unix` the
descriptors of the host process.

**Module by module.**

* *NachosKernel, NachosSynch, SynchClient.* Three threads call everything in
  every order. `Unlock`, which does not ask who owns the mutex, is only called
  by its owner: that is the convention of the class, kept by the client.
* *NachosBarrier.* The code of `Barrier::Wait`; its inner semaphore never makes
  anybody wait (interrupts are off around it) and is left out.
* *DiningPh.* Each statement of `Philo`, `pickup`, `putdown`, `test`.
* *SynchDisk.* The data is transferred when the request is made, as in
  `disk.cc`; the interrupt comes at any later moment the level allows. The
  latency is left open, so the properties do not depend on it.
* *PostOffice.* One machine that sends to itself, which is how the post office
  of a single NachOS is used; losses are a choice in `NetworkSend`. The mail is
  a record of sender, number and box. `Network::Receive` copies the header and
  clears `inHdr.length` in one step (`ReceiveHeader`) and copies `inbox` in the
  next (`CopyInbox`). Only the worker's first turn is there with interrupts
  on; with `Slices`, the option `-p`, a slice may end between the two, and a
  poll then overwrites `inbox`. Without it nothing comes between them: the
  timer and the polls wait for a tick.
* *FileSystem.* One thread, since `filesys.cc` asks for it (line 167:
  no concurrent access). The bitmap and the directory are variables
  with their contents, and `writes` of a Create or Remove the sectors it has yet
  to write: the header, the bitmap's one, and the directory's, which are two
  (10 entries of 20 bytes, sectors of 128). Each is a step of its own
  (`WriteBack`), so every state in between is one NachOS may exit in. An entry
  across two sectors (the code's entry 6) has `inUse` and `sector` in the first
  and its name in the second; between them it is in use under the name that
  its slot had before. A file of that name may be hidden by it: `filesys.cc:38-40`
  says that an exit may corrupt the disk, so this is no finding, and what
  `OthersSurvive` claims is that the damage goes no further.
  A header has as many sectors as the size asks for; the code's array has
  `NumDirect`, and nothing is claimed of what happens after it is overrun
  (`up` becomes FALSE and the model stops). A Write of a block of bytes over two
  sectors is one step: what a file's bytes are after an exit inside it is not
  said. The client closes a file before it removes it. Names are
  compared as wholes (the code compares the first nine characters).
* *Interrupt.* A timer and a polling device that are there or not, and the
  disk. The put-back of `CheckIfDue` is modelled as the code does it: an
  interrupt that is not yet due is inserted *behind* those of the same time, so
  ties change places and no first-in-first-out order among them is claimed.
  `SortedInsert` is given by the place it inserts at (`InsertsAfter`), the one
  at which the loop of `list.h` stops.
* *ConsoleTest.* The keyboard is a terminal (more may come) or a file (it
  ends). The characters differ from EOF: a character 0xFF would make the buffer
  look empty (`console.cc:97`).
* *MipsCpu.* Every instruction, by its effect on registers and memory. A word
  has four bytes of `ByteBits` bits each; arithmetic is modulo the word, signs
  and overflow are those of that width. Two things the code does otherwise than
  MIPS are kept: OR takes its first operand twice (`mipssim.cc:376`), and SRL
  and SRLV shift in the sign (`mipssim.cc:445-455`). LWL, LWR, SWL and SWR get
  no further than their ASSERT at an unaligned address. DIV of the least
  integer by -1 is a trap of the host. `Accumulate` is the loop of `Mult` on
  its four words, with the carry found as `lo < bLo` and the top bit of `bLo`
  moved into `bHi`; it makes all rounds where the code stops after the highest
  bit of a. Decoding is left out: an instruction is
  the record `Decode` leaves.
* *AddrSpace.* Code, data and stack as `AddrSpace::AddrSpace` lays them out.
  Code is not kept in memory as bytes: programs do not write it, and read zeros
  there. Main memory starts as zeros, as `Machine::Machine` leaves it.
* *UserProgram.* `at[t]` says where thread `t` is: between two instructions
  (`run`), in the handler before the call (`trap`), in Fork before the test
  (`find`) and the mark (`mark`) of a frame, after the call (`return`), or not
  yet started (`new`). With `-rs` the timer takes the processor away where the
  clock ticks; with `-p` a slice ends at any of the places where interrupts are
  on. An instruction is one step even with `-p`: all its work is on registers,
  which are saved as they are, but for one access to memory. Read, Write and
  Close run with interrupts off, since `Lock::Acquire` leaves them off.
  What the code does and a reader may not expect is in the model: Exec opens a
  file, whose descriptor stays taken, and runs nothing; Join ends its caller; the socket calls end NachOS when
  the host refuses, Listen, Accept and Shutdown take and give UNIX descriptors
  and not handles; Connect to a handle that is not open reports success; each
  new thread has a table of open files of its own (`thread.cc:41`) over the
  descriptors that all share; frames are never given back. Left out: writes
  past the buffers of Exec, Connect and Read (`cin >> aux`), whose effect is
  undefined; a Read that the host does not answer,
  which stops the whole simulator with the lock held (`exception.cc:258`).
* *VirtualCpus.* The specification a program relies on: each thread has a
  processor and the pages above the lowest of its stack to itself, loads are in
  their register at once, a system call is one step. It is for programs that
  do not use a register in the delay slot of its load: what they would see
  depends on the switches, as on the real processor.

## 3. The runs

Times are for two workers on a small machine: `user` needs more than two
minutes, `disk`, `post` and `files` one to two, the others less than one.

| run | constants | distinct states | what it shows |
|---|---|---|---|
| `synch` | 3 threads, 1 semaphore, 1 lock, 1 condition, values up to 2 | 38 015 | one place per thread, no lost wakeup, sound locks, owners undisturbed, carcasses are dead |
| `dining` | 5 philosophers, 2 rounds, 2 time slices | 7 206 | neighbours never eat together, a return from pickup means eating, everyone hungry eats, the halt comes when all are done |
| `disk` | 3 clients with 2 requests each, 1 sector, 2 values, 2 yields | 229 380 | one request at a time, the answer reaches its caller, the disk is atomic |
| `post` | 2 clients with 2 mails and 2 receives each, 1 box, losses, 2 yields, slices | 246 186 | the worker told of each packet once, each answer to its sender, no sleeping receiver beside mail; sends return and packets are taken; mail in order, at most once, to one receiver, but for `Overwritten` |
| `files` | 11 sectors of 2 bytes, 2 names, 2 entries of 3 bytes in 3 sectors, sizes 0, 1, 3, 6 calls | 63 177 | exact bitmap, no harm to other files at an exit between any two sectors, plain file contents |
| `interrupts` | ticks of 3 and 1, delays from 1 to 8, with and without timer and poll | 3 771 | no interrupt lost, doubled or overtaken; the halt only with nothing to do |
| `console` | every text of up to 4 characters over 3, from a terminal and from a file | 8 075 | echo in order, one announcement per character, the halt at q |
| `user` | 435 programs on 4 threads, words of 8 bits, 14 frames, 6 handles, 3 timer interrupts or 2 slices | 27 929 | processors and stacks are each thread's own, exact arithmetic, private frames, handles that keep naming their socket, all programs end |

Four runs end in a violation, each of one statement the repository makes of
itself; `PROJECT.json` quotes the lines.

| run | statement | what the code does |
|---|---|---|
| `barrier` | once all have arrived they can continue (`synch.h:161-162`) | the early ones sleep on no queue and are never woken |
| `file_size` | no file is larger than its header allows (`filesys.cc:36`, `filehdr.h:31-32`) | `Allocate` does not compare, and writes past `dataSectors` |
| `fork_stack` | a new stack is created for the child of a Fork (`exception.cc:307-309`) | the lowest of its eight pages stays the parent's |
| `fork_race` | Find finds and allocates a bit (`bitmap.cc:87-89`) | with `-p` a slice between its test and its mark gives two threads the same frame |

Other places where the code departs from what it says of itself are visible in
the modules, without a run of their own: with `-p`, a slice after
`inHdr.length = 0` in `Network::Receive` (`network.cc:132`) lets a poll
overwrite `inbox`, so that the first packet is lost and the next delivered
twice, though a buffered packet should delay the next (`network.cc:54-55`); it
is the step `Overwritten`, which `ImplementsMailChannel` has to except and
without which `post` fails; `Lock::Acquire`, and Wait and
`Mutex::Lock` with it, does not put the interrupt level back
(`synch.cc:14-18`); a thread that finishes on its first dispatch overwrites
`threadToBeDestroyed`, whose carcass is then never deleted
(`thread.cc:136-140`); a keyboard file whose last character is the q makes the
next poll abort NachOS before the test returns (`progtest.cc:65`,
`sysdep.cc:145`); OR computes its first operand (`mipssim.cc:376`).

`FramesPrivate` and `ImplementsVirtualCpus` are checked for programs in which,
with `-p`, one thread at a time is in Fork: `fork_race` is the other case, and
has no answer in the code.

**Bounds and why they are enough.** Every bound is a CONSTANT: `MaxValue`,
`Rounds`, `MaxSlices`, `MaxCalls`, `MaxYields`, `MaxSends`, `MaxReceives`,
`MaxTransfer`, `MaxChars`, `MaxFiles`, `MaxFd`, and the slices of a program.
Three threads are the sleeper, the one that wakes it and the newcomer that
takes the value in between; a semaphore value of 2 with one sleeper woken is
what tells "wake one per V" from "wake when it was zero".
Five philosophers are the code's number, and a second round lets a hungry one
be passed over by both neighbours. Three disk clients make one wait for the
lock while another waits for the disk and the third, answered, asks again. Two
packets in flight fill the device's buffer and leave one in the socket; with two
mails from each client a third and a fourth follow while the first is carried to
its box, all to one box; boxes meet only in the worker, which serves them one
after the other. Two files, a disk
with five free sectors and six calls let a file be created, written, removed
and its sectors be reused by another; sizes 0, 1 and 3 with sectors of two
bytes give files without data, with part of a sector, and with two. Entries of
three bytes with the name at the second put the first entry into the first
directory sector and the second across the other two. The delays
of `interrupts` tie with, undercut and exceed a tick and each other. 
The programs of `user` are of six kinds: one arithmetic instruction on every
pair of six words (0, 1, a middle one, the ends of the range and -1), each other
instruction on one pair, every load, store and branch, faults, every system
call with good and bad arguments, and programs whose threads fork, keep numbers
on their stacks and open sockets while the processor is taken away. With bytes
of two bits a word has a sign, a carry and a double word; 14 frames are used up
by the first Fork of a program of 13 pages, and the next one gets none; six
handles run out with the third socket; one program closes the UNIX standard
input through handle 0, and its last socket with it. The mutants in `PROJECT.json`, one for
each property of each passing run, are all found within these bounds.

Symmetry is used in the `synch` run only, over the two threads that are not
Main; no liveness is checked there.

**Fairness.** The specifications of `dining`, `disk`, `post`, `console`,
`user` and `barrier` have `WF_vars(Next)` and no more: the CPU never stands
still. Where a device's answer must come, this is enough because nothing else
can go on for ever: the rounds, calls, yields and mails are bounded, a program
without an endless loop makes finitely many steps and its slices are bounded,
and a poll that finds nothing changes nothing, so it is not a step that could
be taken instead. In
the code the same holds because simulated time goes on with every tick and
every idle turn, so that it reaches each pending interrupt. `Interrupt` has no
threads, so its fairness stands for them: its loops run on (weak fairness), and
a kernel thread turns interrupts on again or sleeps, and one with interrupts on
makes a kernel call or executes an instruction (strong fairness, since a change
of mode may come in between).

## 4. The proofs

TLAPS proves the following for every value of the constants that the named
assumptions admit: any number of threads, philosophers, clients, sectors, files
and devices, any bound on calls and slices. Each proof has an inductive
invariant, which TLC checked as an invariant of the module's run before it was
proved; one lemma per action shows that the action keeps it.

**The kernel: `NachosSynchProofs`.** Its invariant `SynchInv` is about the
routines, not about who calls them, so every client of `NachosSynch` uses it.
It is built in layers, since none of the properties of the run `synch` is
inductive by itself:

* `LockInv`: the types, a lock is BUSY exactly while it has an owner, and a
  thread inside P or Wait waits on an object of the right kind (`WaitsWell`).
  Without the last, the step that resumes a thread would act on anything.
* `PlaceInv` adds where each thread is: lists without repetitions, and a thread
  on the ready list, on one queue, or on none, as its status says. The `pc` of a
  BLOCKED, READY or new thread is part of it: it says what happens to the thread
  when it runs.
* `ThreadInv` adds that carcasses stay finished and that a thread on its way to
  own a lock will also run with interrupts off.
* `SynchInv` adds `WokenSuffice`: while threads sleep on a semaphore, each unit
  of its value has a woken thread coming. It compares a value with the size of
  a set of threads, so the set of threads created so far has to be finite,
  although `Threads` need not be.

**The most general client, in `NachosSynchProofs`** too: `ClientsAreTyped`
(`ClientTypeOK`), `LocksAreSound` (`TypeOK` and `LockState`),
`ThreadsInOnePlace` (`OnePlace`), `NoWakeupIsLost` (`NoLostWakeup`),
`OwnersRunUninterrupted` (`OwnerUninterrupted`), `DestroyedNeverRun`
(`DestroyedIsGone`), and the action property `OwnersKeepLocks`
(`OwnerKeepsLock`): every safety property of the run `synch`.

**`DiningPhProofs`**: `DiningTypes`, `NeighboursNeverEatTogether`,
`PickupReturnsEating`, `MonitorHasOwner`, `TableNeverDeadlocks`. The invariant
says for each statement who owns `dp` and what `state[i]` can be there, and that
a hungry philosopher inside pickup's Wait is one nobody has signalled; with that
the single `if` of `pickup` is seen to be enough. The absence of deadlock rests
on `HungryHeard`: a hungry philosopher has a neighbour who eats or has yet to
test for him.

**`SynchDiskProofs`**: `DiskTypes`, `DiskNeverAborts`, `AnswersAreMine` and the
refinement `SynchDiskIsAtomic`: every step is one of `AtomicDisk` or a stutter.
The invariant `Owed` says that the semaphore's unit is there, or the disk owes
it, exactly while the owner of the lock expects its answer.

**`PostOfficeProofs`**: `PostTypes`, `PacketsAreAnnounced`,
`AnswersAreTheSenders`, `ReceiversDontSleepOnMail`, `PostOfficeNeverAborts`. To
the same kind of invariant for the two semaphores it adds, for every mailbox,
that its mail has as many receivers who will look (`MailAwaited`).
`PostOfficeIsMailChannel` is the refinement: every step puts one mail on its
way, takes one off it, loses one, or cannot be seen, or is `Overwritten`. That
only the first packet is exposed rests on `OffForGood` of `NachosSynchProofs`
(once interrupts are off for a thread, no routine turns them on for it) and on
the Acquire of the first mailbox, which leaves them off. `UnslicedIsMailChannel`
is the same without the exception, from the hypothesis `~ Slices`. The mapping shows of each
list of mails those that one sender addressed to one box; `AddressedTo` is that
selection as a recursive function over the list, and what it does to a list of
which the first is taken or to which one is added is proved by the
least-number principle, since a length for which it failed would have a least.

**`ConsoleTestProofs`**: `ConsoleTypes`, `EchoIsExact`, `UnitsAreAnnounced`,
`PutCharNeverAborts`. The two semaphores count what is in the two buffers; the
character in the input buffer is the last one typed.

**`InterruptProofs`**: `InterruptTypes`, `PendingStaysSorted`,
`NoInterruptLostOrDoubled`, `NoInterruptOverdue`,
`HaltsOnlyWithNothingToDo`. The invariant: the list is sorted and holds each
type that a device waits for once and no other. That `SortedInsert` finds a
place in every list, keeps it sorted and adds nothing but the one element is
proved first, as lemmas about the operator.

**`FileSystemProofs`**: `FileSystemTypes`, `FileSystemNeverAborts`,
`BitmapIsExact`, `FilesSurviveExit` and the refinement
`FileSystemIsAtomicFiles`. `FileSystemNeverAborts` has a hypothesis,
`SizesFit`: no file is created larger than a header has room for; `file_size`
shows what happens otherwise. The others need none, since the model stops at
the overrun. The properties speak of the moments between
operations or of the files an operation leaves alone; the invariant `FileInv`
says what every sector that Create and Remove write leaves in between: which
entries the bitmap is exact about, which sectors are new or still marked, which
slots have been written and which halves of them, and what the
writes to come will put there (`Creating`, `Removing`). The lemmas about the
operators come first: `Find` takes a clear bit, a different one at each call
(a set of numbers has exactly one element of each rank), `Allocate` gives a
file as many sectors as it has blocks, a position splits in one way into a
sector and a byte, and WriteAt reads every sector that it does not overwrite as
a whole (`FetchCovers`). From these, a Write changes the bytes it covers, and no
other byte of any file.

**`UserProgramProofs`**: `TypesAreCorrect`, `ArithmeticHolds`,
`FramesArePrivateIfFindIsAtomic`, `FramesArePrivate`, `HandlesStayOwn`. The
width of a byte, the pages, frames, threads, handles and the set of programs are
all arbitrary.
* The types say that every instruction leaves words in registers and bytes in
  memory, and that no access leaves memory: a translation ends in a frame, and an
  access that passes it stays in one page, since it is aligned.
* `ArithmeticIsExact` comes from the types and lemmas about words. The loop of
  `Mult` is followed round by round (`AccumulateExact`, again with the
  least-number principle): before round k the pair `bHi`, `bLo` is b times
  2^k, the pair `hi`, `lo` the sum of b times 2^j over the bits j of a below
  k, and neither `hi` nor `bHi` has reached 2^k, so that no carry is lost at
  the top. That the sum over all bits is a times b is `BitsMultiply`. The complement of a
  double word with its carry, and the rounding of `/` and `%`, are the rest.
* `FramesPrivate` needs `FrameInv`: the frames a thread holds, those of the table
  it is building and the one it is about to mark are different from those of every
  other thread, and all but the last are marked. It is inductive as long as no
  two threads are between the Test and the Mark of `Find` (`FindOneAtATime`),
  which is the hypothesis of the first theorem. Without `-p` nothing takes the
  processor from a thread in Fork (`FindsAlone`), so `FramesArePrivate` has no
  such hypothesis; with `-p` the run `fork_race` shows that it is needed.
* `HandlesAreOwn` is proved from the same statement for each table of open
  files (`HandleInv`), under its guard: that the UNIX standard input and output
  are open and NachOS's. In a first version the guard named the output only. The
  step of `Close` could then not be proved, and TLC found why: after Close(2) the
  count of users is -1, the next Socket makes it 0 and gives handle 0 the count
  1, Close(0) closes the UNIX standard input, the next socket takes that
  descriptor, and Close(0) closes it under its handle. The guard is what the
  code's one array of counts and descriptors (`openFiles.cc`) leaves.

**Assumptions.** Each is named in the module that declares the constants, and
TLC evaluates it in every run of that module: `KernelAssumption`,
`SynchAssumption`, `DiningAssumption` (at least two philosophers, one round),
`DiskAssumption`, `PostAssumption`, `ConsoleAssumption`, `InterruptAssumption`,
`FileSystemAssumption` (a disk with room for the bitmap and the directory,
sectors of at least one byte), `CpuAssumption` (a word has room for the number of a register, a page
is a multiple of a word, every byte of memory has an address),
`StackAssumption`, `ProgramsAssumption` (a program is what the loader accepts
and fits into memory) and `FilesAssumption` (room for the four standard files).
What they say beyond the sizes is that model values for nothing
(`NULL`, `EOF`, `Garbage`) are none of the values they stand beside.

**Only model-checked.** The liveness properties (`HungryEats`,
`RequestsReturn`, `SendsReturn`, `PacketsArrive`, `RequestServed`, `QuitsAtQ`,
`ProgramsEnd`), which need fairness and ENABLED and are out of the prover's
reach. The refinement of `VirtualCpus`, of which only the invariants above are
proved. `TypeOK` of modules other than `SynchClient` and `UserProgram` is
proved and is not a property of their runs.

## 5. Not modelled

* Tarea5's virtual memory: `AddrSpace::SwapMem` and `searchVictim` cannot be
  reached, since the page fault handler sets `i = -1` and ends in ASSERT(false)
  before it calls them. A TLB is only in the build of `vm/`, where the first
  translation fails the ASSERT that there is not a page table as well
  (`translate.cc:203`).
* Instruction decoding, the MIPS debugger and `Thread`'s host stacks.
* The time a disk request takes: left open in `SynchDisk`, so its results hold
  for any.
* The ptrace protocol between NachOS and the process that times its slices.
* Two machines (`network/nettest.cc`): MailTest waits for a mail and an
  acknowledgement that the network may lose, and nothing times out or sends
  again.
* A restart after an exit in the middle of a Create or Remove, and two threads
  in the file system at once: `filesys.cc:34-40` says that neither is provided
  for. Nor is a Remove of an open file, which nothing in the code looks for.
* Option parsing, statistics, debugging output, host wrappers.
* The programs outside NachOS: the hot potato ring, whose `Buzon::enviar` and
  `recibir` exit at their first call; the Santa monitor, in which a `char` is
  compared with four-letter constants and so every elf waits for ever; the
  socket programs under `src/Tarea01` to `src/Tarea04`, which are sequential.
* `c++example`, `bin` and `doc`, which come with NachOS.

Most of the repository's lines are four further copies of the same kernel, the
cross compiler's tools and examples; a definition is mapped to the copy it was
translated from and to no other.

## 6. Plan

Done: kernel, synchronization, dining philosophers, disk, post office, file
system, interrupts, console, and user programs with processor, address spaces,
system calls and open files; the proofs of section 4.

A question that is added takes the place of a weaker one: the project keeps the
runs and properties few enough to read. What could still be modelled: MailTest
on two post offices, with and without loss, and the disk's latency
(`TimeToSeek`, `ModuloDiff`, `ComputeLatency`, `UpdateLast`).
