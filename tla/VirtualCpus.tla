----------------------------- MODULE VirtualCpus ----------------------------
(***************************************************************************)
(* What NachOS promises a user program: every thread of it has a processor *)
(* and the upper pages of its stack to itself, shares the rest of the      *)
(* address space with the others, and executes one instruction or system   *)
(* call after the other, at its own speed.  A load is in its register at   *)
(* once, a system call is one step, and no thread can tell that there is   *)
(* only one processor.  It is promised to programs that keep to the rules  *)
(* of the processor: they do not use a register right after a load of it.  *)
(***************************************************************************)
EXTENDS AddrSpace

CONSTANTS Threads, Main, NULL

VARIABLES
    program,        \* the program that runs
    cpu,            \* the processor of each thread, NULL if it has none
    shared,         \* the pages that all threads share
    stack,          \* the pages of its own, those it got, of each thread
    state           \* "up", or how NachOS stopped

vars == <<program, cpu, shared, stack, state>>

-----------------------------------------------------------------------------
Init ==
    /\ program \in Programs
    /\ cpu = [t \in Threads |-> IF t = Main THEN InitRegisters(NumPages(program)) ELSE NULL]
    /\ shared = [a \in Addresses(SharedPages(program)) |-> Image(program, a)]
    /\ stack = [t \in Threads |-> [a \in IF t = Main THEN Addresses(OwnPages(program)) ELSE {}
                                     |-> 0]]
    /\ state = "up"

(* A page that the thread did not get has no frame. *)
Table(t) ==
    [p \in 0 .. NumPages(program) - 1 |->
        IF p \in OwnPages(program) /\ p * PageSize \notin DOMAIN stack[t] THEN -1 ELSE p]

View(t) ==
    [a \in Addresses(0 .. NumPages(program) - 1) |->
        IF a \div PageSize \in SharedPages(program) THEN shared[a]
        ELSE IF a \in DOMAIN stack[t] THEN stack[t][a] ELSE 0]

Now(t) == Fetch(program, cpu[t])

Lives(t) == state = "up" /\ cpu[t] # NULL
Calls(t, codes) ==
    /\ Lives(t)
    /\ FetchRaises(cpu[t], Table(t)) = "NoException"
    /\ Now(t).op = "SYSCALL"
    /\ cpu[t][2] \in codes

(* Thread t writes some bytes, at addresses of its pages. *)
Write(t, bytes) ==
    LET its(mem) == [a \in DOMAIN bytes \cap DOMAIN mem |-> bytes[a]]
    IN /\ shared' = Overwritten(shared, its(shared))
       /\ stack' = [stack EXCEPT ![t] = Overwritten(stack[t], its(stack[t]))]

Instruction(t) ==
    /\ Lives(t)
    /\ FetchRaises(cpu[t], Table(t)) = "NoException"
    /\ LET i == Now(t)
       IN /\ Raises(cpu[t], i, Table(t)) = "NoException"
          /\ cpu' = [cpu EXCEPT ![t] = Settle(Execute(cpu[t], i, View(t), Table(t)))]
          /\ Write(t, Stored(cpu[t], i, View(t), Table(t)))
    /\ UNCHANGED <<program, state>>

(* A call that has no answer leaves the registers alone, but for the program *)
(* counters.                                                                 *)
PlainCall(t) ==
    /\ Calls(t, YieldCall \cup ExecCall \cup EmptyCalls)
    /\ cpu' = [cpu EXCEPT ![t] = Settle(Returned(cpu[t]))]
    /\ UNCHANGED <<program, shared, stack, state>>

(* A call with an answer in register 2; Read also fills its buffer. *)
AnsweredCall(t) ==
    /\ Calls(t, AnsweredCalls)
    /\ \E answer \in Word :
          cpu' = [cpu EXCEPT ![t] = [Settle(Returned(cpu[t])) EXCEPT ![2] = answer]]
    /\ LET buffer == IF cpu[t][2] \in ReadCall
                     THEN cpu[t][4] .. cpu[t][4] + cpu[t][5] - 1 ELSE {}
       IN /\ DOMAIN shared' = DOMAIN shared /\ DOMAIN stack' = DOMAIN stack
          /\ \A a \in DOMAIN shared \ buffer : shared'[a] = shared[a]
          /\ \A u \in Threads : /\ DOMAIN stack'[u] = DOMAIN stack[u]
                                /\ \A a \in DOMAIN stack[u] :
                                      (u # t \/ a \notin buffer) => stack'[u][a] = stack[u][a]
    /\ UNCHANGED <<program, state>>

(* The new thread starts at the address in register 4 on a stack of zeros, *)
(* of which it may get only some pages when memory runs out.               *)
Fork(t) ==
    /\ Calls(t, ForkCall)
    /\ \E u \in Threads, pages \in SUBSET OwnPages(program) :
          /\ cpu[u] = NULL
          /\ cpu' = [cpu EXCEPT ![t] = Settle(Returned(cpu[t])),
                                ![u] = ForkRegisters(NumPages(program), cpu[t][4])]
          /\ stack' = [stack EXCEPT ![u] = [a \in Addresses(pages) |-> 0]]
    /\ UNCHANGED <<program, shared, state>>

(* Exit, and Join, which never returns. *)
Exit(t) ==
    /\ Calls(t, ExitCalls)
    /\ cpu' = [cpu EXCEPT ![t] = NULL]
    /\ stack' = [stack EXCEPT ![t] = [a \in {} |-> 0]]
    /\ UNCHANGED <<program, shared, state>>

(* NachOS stops when a thread calls Halt, when a socket call fails, or when *)
(* no thread is left.                                                       *)
Halt ==
    /\ state = "up"
    /\ \/ \A t \in Threads : cpu[t] = NULL
       \/ \E t \in Threads : Calls(t, HaltCall \cup SocketCalls)
    /\ state' = "halted"
    /\ UNCHANGED <<program, cpu, shared, stack>>

(* It aborts at an instruction that cannot be executed, a call that does not *)
(* exist, and one of a buffer, name or handle that is none.                  *)
Abort ==
    /\ state = "up"
    /\ \E t \in Threads :
          /\ cpu[t] # NULL
          /\ \/ FetchRaises(cpu[t], Table(t)) # "NoException"
             \/ Raises(cpu[t], Now(t), Table(t)) \notin {"NoException", "Syscall"}
             \/ Calls(t, AnsweredCalls \cup ExecCall)
             \/ Lives(t) /\ Now(t).op = "SYSCALL" /\ ~Calls(t, SystemCalls)
    /\ state' = "aborted"
    /\ UNCHANGED <<program, cpu, shared, stack>>

Next ==
    \/ \E t \in Threads :
          Instruction(t) \/ PlainCall(t) \/ AnsweredCall(t) \/ Fork(t) \/ Exit(t)
    \/ Halt
    \/ Abort

Spec == Init /\ [][Next]_vars
=============================================================================
