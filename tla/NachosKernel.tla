---------------------------- MODULE NachosKernel ----------------------------
(***************************************************************************)
(* Threads, the scheduler and the interrupt level of the NachOS kernel     *)
(* (threads/thread.cc, threads/scheduler.cc, machine/interrupt.cc).        *)
(*                                                                         *)
(* There is one CPU and one level of interrupts.  Every kernel routine     *)
(* turns interrupts off for as long as it runs, so the only points where   *)
(* another thread or a device can intervene are the calls to SWITCH and    *)
(* the client code between two routines.  A routine that may give the CPU  *)
(* away is split there: pc[t] says what thread t does when SWITCH returns. *)
(***************************************************************************)
EXTENDS Naturals, Sequences, Functions

CONSTANTS
    Threads,    \* every thread that may ever exist
    Main,       \* the thread NachOS starts in
    NULL        \* the null pointer

ASSUME KernelAssumption == Main \in Threads /\ NULL \notin Threads

VARIABLES
    currentThread,        \* the thread that has the CPU
    status,               \* Thread::status
    readyList,            \* Scheduler::readyList, first in first out
    level,                \* Interrupt::level
    oldLevel,             \* the local oldLevel of a thread inside SWITCH
    pc,                   \* where a thread is, or goes on after SWITCH
    threadToBeDestroyed,  \* the finished thread whose carcass is pending
    destroyed,            \* the threads ~Thread has run for
    machine               \* "up", or how NachOS stopped

kernelVars == <<currentThread, status, readyList, level, oldLevel, pc,
                threadToBeDestroyed, destroyed, machine>>

Levels == {"On", "Off"}
Statuses == {"JUST_CREATED", "RUNNING", "READY", "BLOCKED"}

(* "new"    never dispatched: ThreadRoot comes next                        *)
(* "client" running the code that calls the kernel                         *)
(* "yield", "P", "Wait", "Barrier", "finish": inside that routine          *)
PCs == {"new", "client", "yield", "P", "Wait", "Barrier", "finish"}

KernelTypeOK ==
    /\ currentThread \in Threads
    /\ status \in [Threads -> Statuses]
    /\ readyList \in Seq(Threads)
    /\ level \in Levels
    /\ oldLevel \in [Threads -> Levels]
    /\ pc \in [Threads -> PCs]
    /\ threadToBeDestroyed \in Threads \cup {NULL}
    /\ destroyed \subseteq Threads
    /\ machine \in {"up", "halted", "aborted"}

KernelInit ==
    /\ currentThread = Main
    /\ status = [t \in Threads |-> IF t = Main THEN "RUNNING" ELSE "JUST_CREATED"]
    /\ readyList = <<>>
    /\ level = "On"
    /\ oldLevel = [t \in Threads |-> "On"]
    /\ pc = [t \in Threads |-> IF t = Main THEN "client" ELSE "new"]
    /\ threadToBeDestroyed = NULL
    /\ destroyed = {}
    /\ machine = "up"

-----------------------------------------------------------------------------
(* The thread that executes client code, and so may call the kernel. *)
Executing(t) ==
    /\ machine = "up"
    /\ currentThread = t
    /\ status[t] = "RUNNING"
    /\ pc[t] = "client"

(* The CPU is in the loop of Thread::Sleep, looking for a thread to run; an  *)
(* interrupt handler called from there may already have readied the sleeper. *)
Sleeping ==
    /\ machine = "up"
    /\ status[currentThread] # "RUNNING"

(* Thread t has just come out of SWITCH, inside the routine pc[t]. *)
Resuming(t) ==
    /\ machine = "up"
    /\ currentThread = t
    /\ status[t] = "RUNNING"
    /\ pc[t] # "client"

(* Scheduler::ReadyToRun for each of the threads of a sequence in turn. *)
ReadyToRun(woken) ==
    /\ readyList' = readyList \o woken
    /\ status' = [t \in Threads |-> IF t \in Range(woken) THEN "READY" ELSE status[t]]

(* ReadyToRun for the threads of a sequence, then Thread::Sleep up to its loop. *)
ReadyToRunAndSleep(t, woken) ==
    /\ readyList' = readyList \o woken
    /\ status' = [u \in Threads |-> IF u \in Range(woken) THEN "READY"
                                    ELSE IF u = t THEN "BLOCKED" ELSE status[u]]
    /\ level' = "Off"

(* An ASSERT fails: NachOS aborts. *)
Abort ==
    /\ machine' = "aborted"
    /\ UNCHANGED <<currentThread, status, readyList, level, oldLevel, pc,
                   threadToBeDestroyed, destroyed>>

-----------------------------------------------------------------------------
(* Scheduler::Run after SWITCH, for a thread that had called Run before. *)
DeleteCarcass ==
    IF threadToBeDestroyed = NULL
    THEN UNCHANGED <<threadToBeDestroyed, destroyed>>
    ELSE /\ destroyed' = destroyed \cup {threadToBeDestroyed}
         /\ threadToBeDestroyed' = NULL

(* Thread::Fork of the thread u, by the thread t. *)
Fork(t, u) ==
    /\ Executing(t)
    /\ status[u] = "JUST_CREATED"
    /\ ReadyToRun(<<u>>)
    /\ UNCHANGED <<currentThread, level, oldLevel, pc, threadToBeDestroyed,
                   destroyed, machine>>

(* Thread::Yield. The timer handler's and the signal handler's context     *)
(* switch is the same call, made between two routines of the client.       *)
Yield(t) ==
    /\ Executing(t)
    /\ IF readyList = <<>>
       THEN UNCHANGED <<currentThread, status, readyList, level, oldLevel, pc>>
       ELSE LET next == Head(readyList)
            IN /\ readyList' = Append(Tail(readyList), t)
               /\ status' = [status EXCEPT ![t] = "READY", ![next] = "RUNNING"]
               /\ currentThread' = next
               /\ pc' = [pc EXCEPT ![t] = "yield"]
               /\ oldLevel' = [oldLevel EXCEPT ![t] = level]
               /\ level' = "Off"
    /\ UNCHANGED <<threadToBeDestroyed, destroyed, machine>>

(* Mutant of Finish: the destructor at once, on the stack still in use. *)
FinishDeletesItself(t) ==
    /\ Executing(t)
    /\ destroyed' = destroyed \cup {t}
    /\ pc' = [pc EXCEPT ![t] = "finish"]
    /\ ReadyToRunAndSleep(t, <<>>)
    /\ UNCHANGED <<currentThread, oldLevel, threadToBeDestroyed, machine>>

(* Thread::Finish, called by ThreadRoot or by the client. *)
Finish(t) ==
    /\ Executing(t)
    /\ threadToBeDestroyed' = t
    /\ pc' = [pc EXCEPT ![t] = "finish"]
    /\ ReadyToRunAndSleep(t, <<>>)
    /\ UNCHANGED <<currentThread, oldLevel, destroyed, machine>>

(* Thread::Sleep finds a thread and Scheduler::Run switches to it. *)
Dispatch ==
    /\ Sleeping
    /\ readyList # <<>>
    /\ currentThread' = Head(readyList)
    /\ readyList' = Tail(readyList)
    /\ status' = [status EXCEPT ![Head(readyList)] = "RUNNING"]
    /\ UNCHANGED <<level, oldLevel, pc, threadToBeDestroyed, destroyed, machine>>

(* When a device's interrupt handler may run: when interrupts are turned on  *)
(* while a thread executes (Interrupt::OneTick) and in Interrupt::Idle.      *)
InterruptWindow ==
    \/ Executing(currentThread) /\ level = "On"
    \/ Sleeping /\ readyList = <<>>

(* Interrupt::Idle with no device interrupt pending: Interrupt::Halt. *)
Idle ==
    /\ Sleeping
    /\ readyList = <<>>
    /\ machine' = "halted"
    /\ UNCHANGED <<currentThread, status, readyList, level, oldLevel, pc,
                   threadToBeDestroyed, destroyed>>

(* The first dispatch of t: ThreadRoot, not Scheduler::Run, is on the stack, *)
(* so only InterruptEnable is called before the client code starts.          *)
ThreadRoot(t) ==
    /\ Resuming(t)
    /\ pc[t] = "new"
    /\ level' = "On"
    /\ pc' = [pc EXCEPT ![t] = "client"]
    /\ UNCHANGED <<currentThread, status, readyList, oldLevel,
                   threadToBeDestroyed, destroyed, machine>>

(* Mutant of YieldReturn: interrupts are enabled, whatever they were. *)
YieldReturnEnables(t) ==
    /\ Resuming(t)
    /\ pc[t] = "yield"
    /\ DeleteCarcass
    /\ level' = "On"
    /\ pc' = [pc EXCEPT ![t] = "client"]
    /\ UNCHANGED <<currentThread, status, readyList, oldLevel, machine>>

(* Thread::Yield, after SWITCH. *)
YieldReturn(t) ==
    /\ Resuming(t)
    /\ pc[t] = "yield"
    /\ DeleteCarcass
    /\ level' = oldLevel[t]
    /\ pc' = [pc EXCEPT ![t] = "client"]
    /\ UNCHANGED <<currentThread, status, readyList, oldLevel, machine>>

KernelStep ==
    \/ Dispatch
    \/ \E t \in Threads : ThreadRoot(t) \/ YieldReturn(t)

(* NachOS has stopped; nothing happens any more. *)
Stopped == machine # "up" /\ UNCHANGED kernelVars
=============================================================================
