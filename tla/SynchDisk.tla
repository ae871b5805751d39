------------------------------ MODULE SynchDisk ------------------------------
(***************************************************************************)
(* The synchronous disk (filesys/synchdisk.cc) on the raw disk             *)
(* (machine/disk.cc): threads that read and write sectors while the disk   *)
(* answers each request with an interrupt some time later.                 *)
(***************************************************************************)
EXTENDS NachosSynch, FiniteSets

CONSTANTS
    Clients,   \* the threads that use the disk, forked by Main
    Sectors,
    Values,    \* the contents of a sector
    MaxCalls,  \* requests a client makes, at most
    MaxYields  \* Yields, by a client or the timer, at most

lock == "lock"            \* SynchDisk::lock
semaphore == "semaphore"  \* SynchDisk::semaphore

Requests == [sector : Sectors, data : Values \cup {NULL}]  \* NULL: a read

ASSUME DiskAssumption ==
    /\ Threads = Clients \cup {Main} /\ Main \notin Clients
    /\ Semaphores = {semaphore} /\ InitialValue[semaphore] = 0
    /\ Locks = {lock} /\ Conditions = {}
    /\ NULL \notin Values \cup Requests
    /\ MaxCalls \in Nat /\ MaxYields \in Nat

VARIABLES
    active,    \* Disk::active; its DiskInt is pending just then
    inFlight,  \* whose request the disk is working on, or NULL
    sector,    \* the UNIX file that is the disk
    request,   \* the request a client has called for, or NULL
    step,      \* the statement a client is at
    data,      \* what a client's last read returned
    calls,     \* requests each client has made
    yields     \* Yields so far

diskVars == <<active, inFlight, sector>>
clientVars == <<request, step, data, calls>>
vars == <<kernelVars, synchVars, diskVars, clientVars, yields>>

Init ==
    /\ KernelInit /\ SynchInit
    /\ active = FALSE
    /\ inFlight = NULL
    /\ sector \in [Sectors -> Values]
    /\ request = [t \in Clients |-> NULL]
    /\ step = [t \in Clients |-> "idle"]
    /\ data = [t \in Clients |-> NULL]
    /\ calls = [t \in Clients |-> 0]
    /\ yields = 0

-----------------------------------------------------------------------------
(* Mutant of ReadOrWriteSector: the lock is not taken. *)
ReadOrWriteUnlocked(t) ==
    /\ step[t] = "idle" /\ calls[t] < MaxCalls
    /\ Executing(t)
    /\ \E r \in Requests : request' = [request EXCEPT ![t] = r]
    /\ step' = [step EXCEPT ![t] = "request"]
    /\ calls' = [calls EXCEPT ![t] = @ + 1]
    /\ UNCHANGED <<kernelVars, synchVars, diskVars, data, yields>>

(* The lock is taken first; the arguments are the caller's. *)
ReadOrWriteSector(t) ==
    /\ step[t] = "idle" /\ calls[t] < MaxCalls
    /\ \E r \in Requests : request' = [request EXCEPT ![t] = r]
    /\ Acquire(t, lock)
    /\ step' = [step EXCEPT ![t] = "request"]
    /\ calls' = [calls EXCEPT ![t] = @ + 1]
    /\ UNCHANGED <<diskVars, data, yields>>

(* Disk::ReadRequest, Disk::WriteRequest: the transfer is immediate, the  *)
(* interrupt that says it is done is scheduled.                           *)
DiskRequest(t) ==
    /\ Executing(t)
    /\ step[t] = "request"
    /\ IF active
       THEN Abort /\ UNCHANGED <<synchVars, diskVars, clientVars, yields>>
       ELSE LET r == request[t]
            IN /\ active' = TRUE
               /\ inFlight' = t
               /\ IF r.data = NULL
                  THEN data' = [data EXCEPT ![t] = sector[r.sector]] /\ UNCHANGED sector
                  ELSE sector' = [sector EXCEPT ![r.sector] = r.data] /\ UNCHANGED data
               /\ step' = [step EXCEPT ![t] = "wait"]
               /\ UNCHANGED <<kernelVars, synchVars, request, calls, yields>>

(* Mutant of WaitForInterrupt: the interrupt is not waited for. *)
NoWaitForInterrupt(t) ==
    /\ step[t] = "wait"
    /\ Executing(t)
    /\ step' = [step EXCEPT ![t] = "release"]
    /\ UNCHANGED <<kernelVars, synchVars, diskVars, request, data, calls, yields>>

WaitForInterrupt(t) ==
    /\ step[t] = "wait"
    /\ P(t, semaphore)
    /\ step' = [step EXCEPT ![t] = "release"]
    /\ UNCHANGED <<diskVars, request, data, calls, yields>>

ReleaseDisk(t) ==
    /\ step[t] = "release"
    /\ Release(t, lock)
    /\ step' = [step EXCEPT ![t] = "idle"]
    /\ request' = [request EXCEPT ![t] = NULL]
    /\ UNCHANGED <<diskVars, data, calls, yields>>

(* Mutants of DiskDone: the disk only is marked idle, without V; V is done   *)
(* twice.                                                                  *)
DiskDoneWithoutHandler ==
    /\ InterruptWindow
    /\ active
    /\ active' = FALSE
    /\ inFlight' = NULL
    /\ UNCHANGED <<kernelVars, synchVars, sector, clientVars, yields>>

DiskDoneTwice ==
    /\ InterruptWindow
    /\ active
    /\ active' = FALSE
    /\ inFlight' = NULL
    /\ queue' = [queue EXCEPT ![semaphore] = Rest(semaphore)]
    /\ value' = [value EXCEPT ![semaphore] = @ + 2]
    /\ ReadyToRun(First(semaphore))
    /\ UNCHANGED <<currentThread, level, oldLevel, pc, threadToBeDestroyed,
                   destroyed, machine, lockOwner, waitsOn, relock>>
    /\ UNCHANGED <<sector, clientVars, yields>>

(* Disk::HandleInterrupt and SynchDisk::RequestDone. *)
DiskDone ==
    /\ InterruptWindow
    /\ active
    /\ active' = FALSE
    /\ inFlight' = NULL
    /\ ReleaseValue(semaphore)
    /\ UNCHANGED <<currentThread, level, oldLevel, pc, threadToBeDestroyed,
                   destroyed, machine, lockOwner, waitsOn, relock>>
    /\ UNCHANGED <<sector, clientVars, yields>>

-----------------------------------------------------------------------------
(* A client yields between two requests; a time slice may end where *)
(* interrupts are on.                                               *)
YieldStep(t) ==
    /\ yields < MaxYields /\ yields' = yields + 1
    /\ (t \in Clients /\ step[t] # "idle") => level = "On"
    /\ Yield(t)
    /\ UNCHANGED <<synchVars, diskVars, clientVars>>

MainStep ==
    /\ IF \E t \in Clients : status[t] = "JUST_CREATED"
       THEN \E t \in Clients : Fork(Main, t)
       ELSE Finish(Main)
    /\ UNCHANGED <<synchVars, diskVars, clientVars, yields>>

FinishStep(t) ==
    /\ step[t] = "idle" /\ calls[t] = MaxCalls
    /\ Finish(t)
    /\ UNCHANGED <<synchVars, diskVars, clientVars, yields>>

ClientStep(t) ==
    \/ ReadOrWriteSector(t) \/ DiskRequest(t) \/ WaitForInterrupt(t)
    \/ ReleaseDisk(t) \/ FinishStep(t)

System ==
    /\ \/ SystemStep
       \/ ~ active /\ Idle /\ UNCHANGED synchVars
       \/ Stopped /\ UNCHANGED synchVars
    /\ UNCHANGED <<diskVars, clientVars, yields>>

Next ==
    \/ MainStep
    \/ \E t \in Clients : ClientStep(t)
    \/ \E t \in Threads : YieldStep(t)
    \/ DiskDone
    \/ System

(* The CPU runs, and simulated time reaches every pending interrupt. *)
Spec == Init /\ [][Next]_vars /\ WF_vars(Next)

-----------------------------------------------------------------------------
TypeOK ==
    /\ KernelTypeOK /\ SynchTypeOK
    /\ active \in BOOLEAN /\ inFlight \in Clients \cup {NULL}
    /\ sector \in [Sectors -> Values]
    /\ request \in [Clients -> Requests \cup {NULL}]
    /\ step \in [Clients -> {"idle", "request", "wait", "release"}]
    /\ data \in [Clients -> Values \cup {NULL}]
    /\ calls \in [Clients -> 0 .. MaxCalls] /\ yields \in 0 .. MaxYields

(* disk.cc:120 and disk.cc:140: a request never finds the disk active, nor  *)
(* does any other ASSERT fail.                                              *)
NeverAborts == machine # "aborted"

(* The one unit of the semaphore belongs to the request of the lock's owner: *)
(* it is there, or the disk owes it, only for a client between its request   *)
(* and its P, so a client never takes the answer to another's request.       *)
AnswerIsMine ==
    /\ value[semaphore] + (IF active THEN 1 ELSE 0) <= 1
    /\ value[semaphore] = 1 \/ active =>
        \E t \in Clients : lockOwner[lock] = t /\ (step[t] = "wait" \/ pc[t] = "P")
    /\ active => inFlight = lockOwner[lock]

(* Every request is answered, and NachOS does not halt before it is. *)
RequestsReturn == \A t \in Clients : request[t] # NULL ~> request[t] = NULL

(* SynchDisk implements AtomicDisk: the transfer is the atomic step, the disk *)
(* interrupt serves it, and the caller returns with Release.                  *)
Progress(t) ==
    IF step[t] \in {"idle", "request"} THEN "called"
    ELSE IF inFlight = t THEN "performed" ELSE "served"

Abstract == INSTANCE AtomicDisk WITH
    None <- NULL, contents <- sector, result <- data,
    progress <- [t \in Clients |-> Progress(t)]

ImplementsAtomicDisk == Abstract!Spec
=============================================================================
