----------------------------- MODULE NachosSynch -----------------------------
(***************************************************************************)
(* Semaphores, locks and Mesa condition variables (threads/synch.cc) on    *)
(* top of the kernel's threads.  A lock is a semaphore, its sem_lock, and  *)
(* an owner, so the locks are among the semaphores here; the class Mutex   *)
(* is a lock that is released without asking who owns it.                  *)
(***************************************************************************)
EXTENDS NachosKernel

CONSTANTS
    Semaphores,   \* the plain semaphores
    Locks,        \* the locks and mutexes, each named like its sem_lock
    Conditions,   \* the condition variables
    InitialValue  \* the initialValue of each plain semaphore

AllSemaphores == Semaphores \cup Locks
Queues == AllSemaphores \cup Conditions

ASSUME SynchAssumption ==
    /\ InitialValue \in [Semaphores -> Nat]
    /\ Semaphores \cap Locks = {}
    /\ AllSemaphores \cap Conditions = {}
    /\ NULL \notin Queues

VARIABLES
    value,      \* Semaphore::value
    queue,      \* Semaphore::queue and Condition::queue
    lockOwner,  \* Lock::lockOwner
    waitsOn,    \* the semaphore or condition whose routine a thread is inside
    relock      \* the conditionLock of a thread inside Condition::Wait

synchVars == <<value, queue, lockOwner, waitsOn, relock>>

SynchTypeOK ==
    /\ value \in [AllSemaphores -> Nat]
    /\ queue \in [Queues -> Seq(Threads)]
    /\ lockOwner \in [Locks -> Threads \cup {NULL}]
    /\ waitsOn \in [Threads -> Queues \cup {NULL}]
    /\ relock \in [Threads -> Locks \cup {NULL}]

SynchInit ==
    /\ value = [s \in AllSemaphores |-> IF s \in Locks THEN 1 ELSE InitialValue[s]]
    /\ queue = [q \in Queues |-> <<>>]
    /\ lockOwner = [l \in Locks |-> NULL]
    /\ waitsOn = [t \in Threads |-> NULL]
    /\ relock = [t \in Threads |-> NULL]

-----------------------------------------------------------------------------
(* List::Remove on the queue q, as the sequence of the threads it takes out. *)
First(q) == IF queue[q] = <<>> THEN <<>> ELSE <<Head(queue[q])>>
Rest(q) == IF queue[q] = <<>> THEN <<>> ELSE Tail(queue[q])

(* Semaphore::P from its test on, for a caller whose oldLevel is given.  A   *)
(* thread that finds no value queues itself and sleeps; in a lock's P, the   *)
(* thread that gets the value goes on to set lockOwner (Lock::Acquire), and  *)
(* the level stays as P leaves it: Acquire does not restore it.              *)
AcquireValue(t, s, saved) ==
    IF value[s] # 0
    THEN /\ value' = [value EXCEPT ![s] = @ - 1]
         /\ lockOwner' = [l \in Locks |-> IF l = s THEN t ELSE lockOwner[l]]
         /\ level' = saved
         /\ pc' = [pc EXCEPT ![t] = "client"]
         /\ waitsOn' = [waitsOn EXCEPT ![t] = NULL]
         /\ relock' = [relock EXCEPT ![t] = NULL]
         /\ UNCHANGED <<status, readyList, oldLevel, queue>>
    ELSE /\ queue' = [queue EXCEPT ![s] = Append(@, t)]
         /\ ReadyToRunAndSleep(t, <<>>)
         /\ oldLevel' = [oldLevel EXCEPT ![t] = saved]
         /\ pc' = [pc EXCEPT ![t] = "P"]
         /\ waitsOn' = [waitsOn EXCEPT ![t] = s]
         /\ relock' = [relock EXCEPT ![t] = NULL]
         /\ UNCHANGED <<value, lockOwner>>

(* Semaphore::P. *)
P(t, s) ==
    /\ Executing(t)
    /\ AcquireValue(t, s, level)
    /\ UNCHANGED <<currentThread, threadToBeDestroyed, destroyed, machine>>

(* Lock::Acquire and Mutex::Lock: P is called with interrupts already off. *)
Acquire(t, l) ==
    /\ Executing(t)
    /\ AcquireValue(t, l, "Off")
    /\ UNCHANGED <<currentThread, threadToBeDestroyed, destroyed, machine>>

(* Mutant of ResumeP: "if" for "while", the value is not tested again. *)
ResumePWithoutTest(t) ==
    /\ Resuming(t)
    /\ pc[t] = "P"
    /\ DeleteCarcass
    /\ value' = [value EXCEPT ![waitsOn[t]] = @ - 1]
    /\ lockOwner' = [l \in Locks |-> IF l = waitsOn[t] THEN t ELSE lockOwner[l]]
    /\ level' = oldLevel[t]
    /\ pc' = [pc EXCEPT ![t] = "client"]
    /\ waitsOn' = [waitsOn EXCEPT ![t] = NULL]
    /\ UNCHANGED <<currentThread, machine, status, readyList, oldLevel, queue, relock>>

(* Semaphore::P when SWITCH returns: the test of the loop, again. *)
ResumeP(t) ==
    /\ Resuming(t)
    /\ pc[t] = "P"
    /\ DeleteCarcass
    /\ AcquireValue(t, waitsOn[t], oldLevel[t])
    /\ UNCHANGED <<currentThread, machine>>

(* Mutants of ReleaseValue: a thread is only woken when the value was 0; the *)
(* woken thread is left on the queue.                                        *)
ReleaseValueWakesAtZero(s) ==
    /\ value' = [value EXCEPT ![s] = @ + 1]
    /\ queue' = [queue EXCEPT ![s] = IF value[s] = 0 THEN Rest(s) ELSE @]
    /\ ReadyToRun(IF value[s] = 0 THEN First(s) ELSE <<>>)

ReleaseValueKeepsQueue(s) ==
    /\ value' = [value EXCEPT ![s] = @ + 1]
    /\ queue' = queue
    /\ ReadyToRun(First(s))

(* Semaphore::V, of which an interrupt handler makes use too. *)
ReleaseValue(s) ==
    /\ value' = [value EXCEPT ![s] = @ + 1]
    /\ queue' = [queue EXCEPT ![s] = Rest(s)]
    /\ ReadyToRun(First(s))

V(t, s) ==
    /\ Executing(t)
    /\ ReleaseValue(s)
    /\ UNCHANGED <<currentThread, level, oldLevel, pc, threadToBeDestroyed,
                   destroyed, machine, lockOwner, waitsOn, relock>>

(* The loop that empties a queue: Semaphore::Destroy, Condition::Broadcast. *)
WakeAll(t, q) ==
    /\ Executing(t)
    /\ queue' = [queue EXCEPT ![q] = <<>>]
    /\ ReadyToRun(queue[q])
    /\ UNCHANGED <<currentThread, level, oldLevel, pc, threadToBeDestroyed,
                   destroyed, machine, value, lockOwner, waitsOn, relock>>

Destroy(t, s) == WakeAll(t, s)
Broadcast(t, c) == WakeAll(t, c)

(* Mutant of Release: no test of the owner. *)
ReleaseByAnyone(t, l) ==
    /\ Executing(t)
    /\ ReleaseValue(l)
    /\ lockOwner' = [lockOwner EXCEPT ![l] = NULL]
    /\ UNCHANGED <<currentThread, level, oldLevel, pc, threadToBeDestroyed,
                   destroyed, machine, waitsOn, relock>>

(* Lock::Release: nothing happens unless the caller is the owner. *)
Release(t, l) ==
    /\ Executing(t)
    /\ IF lockOwner[l] = t
       THEN /\ ReleaseValue(l)
            /\ lockOwner' = [lockOwner EXCEPT ![l] = NULL]
       ELSE UNCHANGED <<value, queue, lockOwner, readyList, status>>
    /\ UNCHANGED <<currentThread, level, oldLevel, pc, threadToBeDestroyed,
                   destroyed, machine, waitsOn, relock>>

(* Mutex::Unlock: whoever the caller is. *)
Unlock(t, l) ==
    /\ Executing(t)
    /\ ReleaseValue(l)
    /\ lockOwner' = [lockOwner EXCEPT ![l] = NULL]
    /\ UNCHANGED <<currentThread, level, oldLevel, pc, threadToBeDestroyed,
                   destroyed, machine, waitsOn, relock>>

(* Condition::Wait. A lock that nobody owns makes it return at once, with  *)
(* interrupts left off; a lock somebody else owns fails the ASSERT.        *)
Wait(t, c, l) ==
    /\ Executing(t)
    /\ \/ /\ lockOwner[l] = NULL
          /\ level' = "Off"
          /\ UNCHANGED <<currentThread, status, readyList, oldLevel, pc,
                         threadToBeDestroyed, destroyed, machine>>
          /\ UNCHANGED synchVars
       \/ /\ lockOwner[l] \notin {NULL, t}
          /\ Abort
          /\ UNCHANGED synchVars
       \/ /\ lockOwner[l] = t
          /\ queue' = [queue EXCEPT ![c] = Append(@, t), ![l] = Rest(l)]
          /\ value' = [value EXCEPT ![l] = @ + 1]
          /\ lockOwner' = [lockOwner EXCEPT ![l] = NULL]
          /\ ReadyToRunAndSleep(t, First(l))
          /\ pc' = [pc EXCEPT ![t] = "Wait"]
          /\ waitsOn' = [waitsOn EXCEPT ![t] = c]
          /\ relock' = [relock EXCEPT ![t] = l]
          /\ UNCHANGED <<currentThread, oldLevel, threadToBeDestroyed,
                         destroyed, machine>>

(* Mutants of ResumeWait: the owner is set without P; the lock is not taken. *)
ResumeWaitWithoutP(t) ==
    /\ Resuming(t)
    /\ pc[t] = "Wait"
    /\ DeleteCarcass
    /\ lockOwner' = [lockOwner EXCEPT ![relock[t]] = t]
    /\ pc' = [pc EXCEPT ![t] = "client"]
    /\ waitsOn' = [waitsOn EXCEPT ![t] = NULL]
    /\ relock' = [relock EXCEPT ![t] = NULL]
    /\ UNCHANGED <<currentThread, machine, status, readyList, level, oldLevel, value, queue>>

ResumeWaitWithoutLock(t) ==
    /\ Resuming(t)
    /\ pc[t] = "Wait"
    /\ DeleteCarcass
    /\ pc' = [pc EXCEPT ![t] = "client"]
    /\ waitsOn' = [waitsOn EXCEPT ![t] = NULL]
    /\ relock' = [relock EXCEPT ![t] = NULL]
    /\ UNCHANGED <<currentThread, machine, status, readyList, level, oldLevel,
                   value, queue, lockOwner>>

(* Condition::Wait when SWITCH returns: Lock::Acquire. *)
ResumeWait(t) ==
    /\ Resuming(t)
    /\ pc[t] = "Wait"
    /\ DeleteCarcass
    /\ AcquireValue(t, relock[t], "Off")
    /\ UNCHANGED <<currentThread, machine>>

(* Condition::Signal; the lock is not looked at. *)
Signal(t, c) ==
    /\ Executing(t)
    /\ queue' = [queue EXCEPT ![c] = Rest(c)]
    /\ ReadyToRun(First(c))
    /\ UNCHANGED <<currentThread, level, oldLevel, pc, threadToBeDestroyed,
                   destroyed, machine, value, lockOwner, waitsOn, relock>>

-----------------------------------------------------------------------------
(* The steps of a switch, and the return of every blocking routine. *)
SystemStep ==
    \/ KernelStep /\ UNCHANGED synchVars
    \/ \E t \in Threads : ResumeP(t) \/ ResumeWait(t)
=============================================================================
