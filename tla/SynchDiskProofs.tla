---------------------------- MODULE SynchDiskProofs ----------------------------
(***************************************************************************)
(* The synchronous disk, for every number of clients, sectors and values:  *)
(* one request at a time, its answer for its own client, and so an atomic  *)
(* disk.                                                                   *)
(***************************************************************************)
EXTENDS SynchDisk, NachosSynchProofs

(* A client between its call and its return owns the lock or waits for it. *)
Turn ==
    /\ pc[Main] # "P"
    /\ \A t \in Clients :
         /\ step[t] = "idle" <=> request[t] = NULL
         /\ pc[t] = "P" => \/ step[t] = "request" /\ waitsOn[t] = lock
                           \/ step[t] = "release" /\ waitsOn[t] = semaphore
         /\ step[t] # "idle" /\ ~ (pc[t] = "P" /\ step[t] = "request") => lockOwner[lock] = t

(* The client t has made its request and has not taken the answer yet. *)
Expects(t) == lockOwner[lock] = t /\ (step[t] = "wait" \/ (step[t] = "release" /\ pc[t] = "P"))

(* The unit of the semaphore is there, or the disk owes it, exactly while *)
(* the owner of the lock expects its answer.                              *)
Owed ==
    /\ value[semaphore] + (IF active THEN 1 ELSE 0) =
           IF \E t \in Clients : Expects(t) THEN 1 ELSE 0
    /\ inFlight = IF active THEN lockOwner[lock] ELSE NULL

DiskInv == SynchInv /\ TypeOK /\ Turn /\ Owed /\ machine # "aborted"

-----------------------------------------------------------------------------
(* What DiskAssumption says of the constants, in the words of NachosSynch. *)
LEMMA DiskConstants ==
    /\ Clients \subseteq Threads /\ Main \in Threads /\ Main \notin Clients
    /\ lock \in Locks /\ semaphore \in Semaphores /\ lock # semaphore
    /\ AllSemaphores = {lock, semaphore} /\ Conditions = {}
    /\ NULL \notin Threads /\ NULL \notin Values /\ NULL \notin Requests
<1>1. lock # semaphore
    BY DEF lock, semaphore
<1> QED BY <1>1, DiskAssumption, KernelAssumption DEF AllSemaphores

(* Clients, disk and main do nothing to the kernel but call its routines. *)
LEMMA DiskIsRoutine ==
    ASSUME SynchInv, [Next]_vars
    PROVE  RoutineStep
<1>0. machine \in {"up", "halted", "aborted"}
    BY DEF SynchInv, ThreadInv, PlaceInv, LockInv, KernelTypeOK
<1>1. MainStep => RoutineStep
    BY DiskConstants DEF MainStep, RoutineStep, RoutineCall
<1>2. ASSUME NEW t \in Clients, ClientStep(t) PROVE RoutineStep
    <2>1. CASE ReadOrWriteSector(t) \/ WaitForInterrupt(t)
        BY <2>1, DiskConstants DEF ReadOrWriteSector, WaitForInterrupt, RoutineStep, RoutineCall
    <2>2. CASE DiskRequest(t)
        BY <1>0, <2>2 DEF DiskRequest, Abort, kernelVars, RoutineStep, MachineStep
    <2>3. CASE ReleaseDisk(t)
        BY <2>3, DiskConstants DEF ReleaseDisk, RoutineStep, RoutineCall
    <2>4. CASE FinishStep(t)
        BY <2>4, DiskConstants DEF FinishStep, RoutineStep, RoutineCall
    <2> QED BY <1>2, <2>1, <2>2, <2>3, <2>4 DEF ClientStep
<1>3. ASSUME NEW t \in Threads, YieldStep(t) PROVE RoutineStep
    BY <1>3 DEF YieldStep, RoutineStep, RoutineCall
<1>4. DiskDone => RoutineStep
    BY DiskConstants DEF DiskDone, HandlerRelease, RoutineStep
<1>5. System => RoutineStep
    BY <1>0 DEF System, Idle, Stopped, kernelVars, RoutineStep, MachineStep
<1>6. UNCHANGED vars => RoutineStep
    BY <1>0 DEF vars, kernelVars, RoutineStep, MachineStep
<1> QED BY <1>1, <1>2, <1>3, <1>4, <1>5, <1>6 DEF Next

LEMMA DiskTypeStep ==
    ASSUME DiskInv, SynchInv', [Next]_vars
    PROVE  TypeOK'
<1> USE DEF DiskInv, TypeOK
<1>1. KernelTypeOK' /\ SynchTypeOK'
    BY DEF SynchInv, ThreadInv, PlaceInv, LockInv
<1>2. ASSUME NEW t \in Clients, ReadOrWriteSector(t) PROVE TypeOK'
    <2>1. /\ request' \in [Clients -> Requests \cup {NULL}]
          /\ step' \in [Clients -> {"idle", "request", "wait", "release"}]
        BY <1>2 DEF ReadOrWriteSector
    <2>2. calls' \in [Clients -> 0 .. MaxCalls]
        BY <1>2, DiskAssumption DEF ReadOrWriteSector
    <2> QED BY <1>1, <1>2, <2>1, <2>2 DEF ReadOrWriteSector, diskVars
<1>3. ASSUME NEW t \in Clients, DiskRequest(t) PROVE TypeOK'
    <2>1. CASE active
        BY <1>1, <1>3, <2>1 DEF DiskRequest, diskVars, clientVars
    <2>2. CASE ~ active
        <3>1. request[t] \in Requests
            BY <1>3 DEF DiskRequest, Turn
        <3>2. request[t].sector \in Sectors /\ request[t].data \in Values \cup {NULL}
            BY <3>1 DEF Requests
        <3>3. /\ sector' \in [Sectors -> Values] /\ data' \in [Clients -> Values \cup {NULL}]
            BY <1>3, <2>2, <3>2 DEF DiskRequest
        <3>4. step' \in [Clients -> {"idle", "request", "wait", "release"}]
            BY <1>3, <2>2 DEF DiskRequest
        <3> QED BY <1>1, <1>3, <2>2, <3>3, <3>4 DEF DiskRequest
    <2> QED BY <2>1, <2>2
<1>4. ASSUME NEW t \in Clients, WaitForInterrupt(t) PROVE TypeOK'
    BY <1>1, <1>4 DEF WaitForInterrupt, diskVars
<1>5. ASSUME NEW t \in Clients, ReleaseDisk(t) PROVE TypeOK'
    BY <1>1, <1>5 DEF ReleaseDisk, diskVars
<1>6. ASSUME NEW t \in Clients, FinishStep(t) PROVE TypeOK'
    BY <1>1, <1>6 DEF FinishStep, diskVars, clientVars
<1>7. ASSUME NEW t \in Threads, YieldStep(t) PROVE TypeOK'
    <2>1. yields' \in 0 .. MaxYields
        BY <1>7, DiskAssumption DEF YieldStep
    <2> QED BY <1>1, <1>7, <2>1 DEF YieldStep, diskVars, clientVars
<1>8. MainStep \/ System \/ UNCHANGED vars => TypeOK'
    BY <1>1 DEF MainStep, System, vars, diskVars, clientVars
<1>9. DiskDone => TypeOK'
    BY <1>1 DEF DiskDone, clientVars
<1> QED BY <1>2, <1>3, <1>4, <1>5, <1>6, <1>7, <1>8, <1>9 DEF Next, ClientStep

-----------------------------------------------------------------------------
(* A step in which no client enters or leaves P, and that touches neither the *)
(* disk nor the semaphores.                                                   *)
LEMMA TurnKept ==
    ASSUME DiskInv,
           UNCHANGED <<value, lockOwner, waitsOn, active, inFlight, request, step>>,
           \A t \in Threads : pc'[t] = "P" <=> pc[t] = "P"
    PROVE  Turn' /\ Owed'
<1>1. Turn'
    BY DiskConstants DEF DiskInv, Turn
<1>2. \A t \in Clients : Expects(t)' <=> Expects(t)
    BY DiskConstants DEF Expects
<1>3. Owed'
    BY <1>2 DEF DiskInv, Owed
<1> QED BY <1>1, <1>3

(* P on the lock, tested for the first time or again: nobody expects anything *)
(* while the lock is free.                                                    *)
LEMMA TakeLock ==
    ASSUME DiskInv, NEW t \in Clients, NEW saved, AcquireValue(t, lock, saved),
           step' = [step EXCEPT ![t] = "request"], request'[t] # NULL,
           \A u \in Clients : u # t => request'[u] = request[u],
           UNCHANGED <<active, inFlight>>,
           \/ step[t] = "idle" /\ pc[t] = "client"
           \/ step[t] = "request" /\ pc[t] = "P"
    PROVE  Turn' /\ Owed'
<1>0. /\ pc \in [Threads -> PCs] /\ step \in [Clients -> {"idle", "request", "wait", "release"}]
      /\ value \in [AllSemaphores -> Nat] /\ waitsOn \in [Threads -> Queues \cup {NULL}]
      /\ lockOwner \in [Locks -> Threads \cup {NULL}]
    BY DEF DiskInv, TypeOK, KernelTypeOK, SynchTypeOK
<1>1. \A u \in Clients : u # t => step'[u] = step[u]
    BY <1>0
<1>2. step'[t] = "request"
    BY <1>0
<1>3. CASE value[lock] # 0
    <2>1. lockOwner[lock] = NULL
        BY <1>3, DiskConstants DEF DiskInv, SynchInv, ThreadInv, PlaceInv, LockInv, FreeOrBusy
    <2>2. /\ value'[semaphore] = value[semaphore] /\ lockOwner'[lock] = t
          /\ pc'[t] = "client"
          /\ \A u \in Threads : u # t => pc'[u] = pc[u] /\ waitsOn'[u] = waitsOn[u]
        BY <1>0, <1>3, DiskConstants DEF AcquireValue
    <2>3. \A u \in Clients : ~ Expects(u) /\ ~ Expects(u)'
        BY <1>1, <1>2, <2>1, <2>2, DiskConstants DEF Expects
    <2>4. \A u \in Clients : u # t => step[u] = "idle" \/ (pc[u] = "P" /\ step[u] = "request")
        BY <2>1, DiskConstants DEF DiskInv, Turn
    <2>5. Turn'
        BY <1>1, <1>2, <2>2, <2>4, DiskConstants DEF DiskInv, Turn
    <2>6. Owed'
        BY <2>1, <2>2, <2>3, DiskConstants DEF DiskInv, Owed, TypeOK, SynchTypeOK
    <2> QED BY <2>5, <2>6
<1>4. CASE value[lock] = 0
    <2>1. /\ value' = value /\ lockOwner' = lockOwner
          /\ pc'[t] = "P" /\ waitsOn'[t] = lock
          /\ \A u \in Threads : u # t => pc'[u] = pc[u] /\ waitsOn'[u] = waitsOn[u]
        BY <1>0, <1>4, DiskConstants DEF AcquireValue
    <2>2. \A u \in Clients : Expects(u)' <=> Expects(u)
        BY <1>1, <1>2, <2>1, DiskConstants DEF Expects
    <2>3. Turn'
        BY <1>1, <1>2, <2>1, DiskConstants DEF DiskInv, Turn
    <2> QED BY <2>1, <2>2, <2>3 DEF DiskInv, Owed
<1> QED BY <1>3, <1>4

(* P on the semaphore by the owner of the lock. *)
LEMMA TakeAnswer ==
    ASSUME DiskInv, NEW t \in Clients, NEW saved, AcquireValue(t, semaphore, saved),
           Expects(t), step' = [step EXCEPT ![t] = "release"],
           UNCHANGED <<active, inFlight, request>>
    PROVE  Turn' /\ Owed'
<1>0. /\ pc \in [Threads -> PCs] /\ step \in [Clients -> {"idle", "request", "wait", "release"}]
      /\ value \in [AllSemaphores -> Nat] /\ waitsOn \in [Threads -> Queues \cup {NULL}]
      /\ lockOwner \in [Locks -> Threads \cup {NULL}]
    BY DEF DiskInv, TypeOK, KernelTypeOK, SynchTypeOK
<1>1. /\ step'[t] = "release" /\ \A u \in Clients : u # t => step'[u] = step[u]
      /\ step[t] # "idle" /\ lockOwner[lock] = t /\ lockOwner'[lock] = t
    BY <1>0, DiskConstants DEF Expects, AcquireValue
<1>2. CASE value[semaphore] # 0
    <2>1. /\ value'[semaphore] = value[semaphore] - 1 /\ pc'[t] = "client"
          /\ \A u \in Threads : u # t => pc'[u] = pc[u] /\ waitsOn'[u] = waitsOn[u]
        BY <1>0, <1>2, DiskConstants DEF AcquireValue
    <2>2. \A u \in Clients : ~ Expects(u)'
        BY <1>1, <2>1 DEF Expects
    <2>3. value[semaphore] \in Nat
        BY <1>0, DiskConstants
    <2>4. Turn'
        BY <1>1, <2>1, DiskConstants DEF DiskInv, Turn
    <2> QED BY <1>1, <1>2, <2>1, <2>2, <2>3, <2>4 DEF DiskInv, Owed
<1>3. CASE value[semaphore] = 0
    <2>1. /\ value' = value
          /\ pc'[t] = "P" /\ waitsOn'[t] = semaphore
          /\ \A u \in Threads : u # t => pc'[u] = pc[u] /\ waitsOn'[u] = waitsOn[u]
        BY <1>0, <1>3, DiskConstants DEF AcquireValue
    <2>2. \A u \in Clients : Expects(u)' <=> Expects(u)
        BY <1>1, <2>1, DiskConstants DEF Expects
    <2>3. Turn'
        BY <1>1, <2>1, DiskConstants DEF DiskInv, Turn
    <2> QED BY <1>1, <2>1, <2>2, <2>3 DEF DiskInv, Owed
<1> QED BY <1>2, <1>3

LEMMA ClientTurn ==
    ASSUME DiskInv, SynchInv', NEW t \in Clients, ClientStep(t)
    PROVE  Turn' /\ Owed' /\ machine' # "aborted"
<1>0. /\ pc \in [Threads -> PCs] /\ step \in [Clients -> {"idle", "request", "wait", "release"}]
      /\ value \in [AllSemaphores -> Nat] /\ request \in [Clients -> Requests \cup {NULL}]
      /\ lockOwner \in [Locks -> Threads \cup {NULL}] /\ active \in BOOLEAN
    BY DEF DiskInv, TypeOK, KernelTypeOK, SynchTypeOK
<1>1. CASE ReadOrWriteSector(t)
    <2>1. /\ AcquireValue(t, lock, "Off") /\ pc[t] = "client" /\ step[t] = "idle"
          /\ UNCHANGED <<active, inFlight, machine>>
          /\ step' = [step EXCEPT ![t] = "request"]
        BY <1>1 DEF ReadOrWriteSector, Acquire, Executing, diskVars
    <2>2. request'[t] # NULL /\ \A u \in Clients : u # t => request'[u] = request[u]
        BY <1>0, <1>1, DiskConstants DEF ReadOrWriteSector
    <2> QED BY <2>1, <2>2, TakeLock DEF DiskInv
<1>2. CASE DiskRequest(t)
    <2>1. pc[t] = "client" /\ step[t] = "request" /\ lockOwner[lock] = t
        BY <1>2 DEF DiskRequest, Executing, DiskInv, Turn
    <2>2. \A u \in Clients : ~ Expects(u)
        BY <2>1 DEF Expects
    <2>3. value[semaphore] = 0 /\ ~ active
        BY <1>0, <2>2, DiskConstants DEF DiskInv, Owed
    <2>4. /\ active' = TRUE /\ inFlight' = t /\ step' = [step EXCEPT ![t] = "wait"]
          /\ UNCHANGED <<kernelVars, synchVars, request>>
        BY <1>2, <2>3 DEF DiskRequest
    <2>5. Turn'
        BY <1>0, <2>1, <2>4, DiskConstants DEF DiskInv, Turn, kernelVars, synchVars
    <2>6. Expects(t)'
        BY <1>0, <2>1, <2>4 DEF Expects, synchVars
    <2>7. Owed'
        BY <2>1, <2>3, <2>4, <2>6 DEF Owed, synchVars
    <2> QED BY <2>4, <2>5, <2>7 DEF DiskInv, kernelVars
<1>3. CASE WaitForInterrupt(t)
    <2>1. /\ AcquireValue(t, semaphore, level) /\ step[t] = "wait" /\ pc[t] = "client"
          /\ step' = [step EXCEPT ![t] = "release"]
          /\ UNCHANGED <<active, inFlight, request, machine>>
        BY <1>3 DEF WaitForInterrupt, P, Executing, diskVars
    <2>2. Expects(t)
        BY <2>1 DEF DiskInv, Turn, Expects
    <2> QED BY <2>1, <2>2, TakeAnswer DEF DiskInv
<1>4. CASE ReleaseDisk(t)
    <2>1. /\ step[t] = "release" /\ pc[t] = "client" /\ lockOwner[lock] = t
          /\ UNCHANGED <<active, inFlight, pc, waitsOn, machine>>
          /\ step' = [step EXCEPT ![t] = "idle"]
          /\ request' = [request EXCEPT ![t] = NULL]
        BY <1>4 DEF ReleaseDisk, Release, Executing, DiskInv, Turn, diskVars
    <2>2. lockOwner'[lock] = NULL /\ value'[semaphore] = value[semaphore]
        BY <1>0, <1>4, <2>1, DiskConstants DEF ReleaseDisk, Release, ReleaseValue
    <2>3. \A u \in Clients : ~ Expects(u)
        BY <2>1 DEF Expects
    <2>4. \A u \in Clients : ~ Expects(u)'
        BY <2>2, DiskConstants DEF Expects
    <2>5. value[semaphore] = 0 /\ ~ active
        BY <1>0, <2>3, DiskConstants DEF DiskInv, Owed
    <2>6. Owed'
        BY <2>1, <2>2, <2>3, <2>4, <2>5 DEF DiskInv, Owed
    <2>7. Turn'
        BY <1>0, <2>1, <2>2, DiskConstants DEF DiskInv, Turn
    <2> QED BY <2>1, <2>6, <2>7 DEF DiskInv
<1>5. CASE FinishStep(t)
    <2>1. /\ UNCHANGED <<value, lockOwner, waitsOn, active, inFlight, request, step, machine>>
          /\ \A u \in Threads : pc'[u] = "P" <=> pc[u] = "P"
        BY <1>0, <1>5 DEF FinishStep, Finish, Executing, synchVars, diskVars, clientVars
    <2> QED BY <2>1, TurnKept DEF DiskInv
<1> QED BY <1>1, <1>2, <1>3, <1>4, <1>5 DEF ClientStep

(* A client goes on with its P, on the lock or on the semaphore. *)
LEMMA ResumeTurn ==
    ASSUME DiskInv, NEW t \in Threads, ResumeP(t) \/ ResumeWait(t),
           UNCHANGED <<diskVars, clientVars>>
    PROVE  Turn' /\ Owed' /\ machine' # "aborted"
<1>0. machine' # "aborted"
    BY DEF ResumeP, ResumeWait, DiskInv
<1>1. CASE ResumeP(t)
    <2>1. t \in Clients /\ pc[t] = "P" /\ AcquireValue(t, waitsOn[t], oldLevel[t])
        BY <1>1, DiskAssumption DEF ResumeP, DiskInv, Turn
    <2>2. UNCHANGED <<active, inFlight, request, step>>
        BY DEF diskVars, clientVars
    <2>3. CASE step[t] = "request" /\ waitsOn[t] = lock
        <3>1. request[t] # NULL /\ step' = [step EXCEPT ![t] = "request"]
            BY <2>1, <2>2, <2>3 DEF DiskInv, TypeOK, Turn
        <3> QED BY <1>0, <2>1, <2>2, <2>3, <3>1, TakeLock
    <2>4. CASE step[t] = "release" /\ waitsOn[t] = semaphore
        <3>1. Expects(t) /\ step' = [step EXCEPT ![t] = "release"]
            BY <2>1, <2>2, <2>4 DEF DiskInv, TypeOK, Turn, Expects
        <3> QED BY <1>0, <2>1, <2>2, <2>4, <3>1, TakeAnswer
    <2> QED BY <2>1, <2>3, <2>4 DEF DiskInv, Turn
<1>2. CASE ResumeWait(t)
    BY <1>2, DiskConstants
    DEF ResumeWait, DiskInv, SynchInv, ThreadInv, PlaceInv, LockInv, WaitsWell
<1> QED BY <1>1, <1>2

LEMMA DiskDoneTurn ==
    ASSUME DiskInv, DiskDone
    PROVE  Turn' /\ Owed' /\ machine' # "aborted"
<1>1. /\ active /\ active' = FALSE /\ inFlight' = NULL
      /\ UNCHANGED <<pc, waitsOn, lockOwner, machine, request, step>>
    BY DEF DiskDone, clientVars
<1>2. value[semaphore] \in Nat /\ value'[semaphore] = value[semaphore] + 1
    BY DiskConstants DEF DiskDone, ReleaseValue, DiskInv, TypeOK, SynchTypeOK
<1>3. Turn'
    BY <1>1 DEF DiskInv, Turn
<1>4. \A u \in Clients : Expects(u)' <=> Expects(u)
    BY <1>1 DEF Expects
<1>5. Owed'
    BY <1>1, <1>2, <1>4 DEF DiskInv, Owed
<1> QED BY <1>1, <1>3, <1>5 DEF DiskInv

LEMMA DiskInvariant == Spec => []DiskInv
<1>1. Init => DiskInv
    <2> SUFFICES ASSUME Init PROVE DiskInv
        OBVIOUS
    <2>1. SynchInv
        BY RoutineInit DEF Init
    <2>2. TypeOK
        <3>1. KernelTypeOK /\ SynchTypeOK
            BY <2>1 DEF SynchInv, ThreadInv, PlaceInv, LockInv
        <3>2. 0 \in 0 .. MaxCalls /\ 0 \in 0 .. MaxYields
            BY DiskAssumption
        <3> QED BY <3>1, <3>2 DEF Init, TypeOK
    <2>3. Turn
        BY DiskConstants DEF Init, KernelInit, Turn
    <2>4. Owed
        BY DiskConstants, DiskAssumption DEF Init, SynchInit, Owed, Expects
    <2> QED BY <2>1, <2>2, <2>3, <2>4 DEF Init, KernelInit, DiskInv
<1>2. DiskInv /\ [Next]_vars => DiskInv'
    <2> SUFFICES ASSUME DiskInv, [Next]_vars PROVE DiskInv'
        OBVIOUS
    <2>1. SynchInv' /\ TypeOK'
        BY DiskIsRoutine, RoutineStepInv, DiskTypeStep DEF DiskInv
    <2> DEFINE Goal == Turn' /\ Owed' /\ machine' # "aborted"
    <2>2. pc \in [Threads -> PCs]
        BY DEF DiskInv, TypeOK, KernelTypeOK
    <2>3. ASSUME NEW t \in Clients, ClientStep(t) PROVE Goal
        BY <2>1, <2>3, ClientTurn
    <2>4. ASSUME DiskDone PROVE Goal
        BY <2>4, DiskDoneTurn
    <2>5. ASSUME NEW t \in Threads, ResumeP(t) \/ ResumeWait(t), UNCHANGED <<diskVars, clientVars>>
          PROVE Goal
        BY <2>5, ResumeTurn
    <2>6. ASSUME UNCHANGED <<synchVars, diskVars, clientVars>>, machine' # "aborted",
                 \A t \in Threads : pc'[t] = "P" <=> pc[t] = "P"
          PROVE  Goal
        BY <2>6, TurnKept DEF synchVars, diskVars, clientVars
    <2>7. ASSUME MainStep PROVE Goal
        BY <2>2, <2>6, <2>7 DEF MainStep, Fork, Finish, Executing, DiskInv
    <2>8. ASSUME NEW t \in Threads, YieldStep(t) PROVE Goal
        BY <2>2, <2>6, <2>8 DEF YieldStep, Yield, Executing, DiskInv
    <2>9. ASSUME System PROVE Goal
        <3>1. CASE KernelStep /\ UNCHANGED synchVars
            BY <2>2, <2>6, <2>9, <3>1
            DEF System, KernelStep, Dispatch, ThreadRoot, YieldReturn, DiskInv
        <3>2. CASE \E t \in Threads : ResumeP(t) \/ ResumeWait(t)
            BY <2>5, <2>9, <3>2 DEF System
        <3>3. CASE (Idle \/ Stopped) /\ UNCHANGED synchVars
            BY <2>6, <2>9, <3>3 DEF System, Idle, Stopped, kernelVars, DiskInv
        <3> QED BY <2>9, <3>1, <3>2, <3>3 DEF System, SystemStep
    <2>10. ASSUME UNCHANGED vars PROVE Goal
        BY <2>6, <2>10 DEF vars, kernelVars, DiskInv
    <2> QED BY <2>1, <2>3, <2>4, <2>7, <2>8, <2>9, <2>10 DEF Next, DiskInv
<1> QED BY <1>1, <1>2, PTL DEF Spec

-----------------------------------------------------------------------------
(* Every variable keeps a value the code can hold. *)
THEOREM DiskTypes == Spec => []TypeOK
<1>1. DiskInv => TypeOK
    BY DEF DiskInv
<1> QED BY <1>1, DiskInvariant, PTL

(* Disk's ASSERT(!active) holds: SynchDisk's lock lets one request at a time  *)
(* through, however the clients, the timer and the disk interleave.           *)
THEOREM DiskNeverAborts == Spec => []NeverAborts
<1>1. DiskInv => NeverAborts
    BY DEF DiskInv, NeverAborts
<1> QED BY <1>1, DiskInvariant, PTL

(* The V of SynchDisk::RequestDone is always for the client that made the     *)
(* request, the one that owns the lock.                                       *)
THEOREM AnswersAreMine == Spec => []AnswerIsMine
<1>1. ASSUME DiskInv PROVE AnswerIsMine
    <2>1. value[semaphore] \in Nat /\ active \in BOOLEAN
        BY <1>1, DiskConstants DEF DiskInv, TypeOK, SynchTypeOK
    <2>2. \A t \in Clients : Expects(t) => lockOwner[lock] = t /\ (step[t] = "wait" \/ pc[t] = "P")
        BY DEF Expects
    <2> QED BY <1>1, <2>1, <2>2 DEF DiskInv, Owed, AnswerIsMine
<1> QED BY <1>1, DiskInvariant, PTL

-----------------------------------------------------------------------------
(* The refinement. How far a client has got, after the step of one of them. *)
LEMMA SameProgress ==
    ASSUME \A t \in Clients : Progress(t)' = Progress(t)
    PROVE  [t \in Clients |-> Progress(t)]' = [t \in Clients |-> Progress(t)]
OBVIOUS

LEMMA OneProgress ==
    ASSUME NEW t \in Clients, \A u \in Clients : u # t => Progress(u)' = Progress(u)
    PROVE  [u \in Clients |-> Progress(u)]' =
               [[u \in Clients |-> Progress(u)] EXCEPT ![t] = Progress(t)']
OBVIOUS

(* No client's request is being worked on when the disk is not active. *)
LEMMA IdleDisk ==
    ASSUME DiskInv, ~ active, NEW t \in Clients
    PROVE  inFlight # t /\ Progress(t) # "performed"
BY DiskConstants DEF DiskInv, Owed, Progress

LEMMA CallsAtomicDisk ==
    ASSUME DiskInv, NEW t \in Clients, ReadOrWriteSector(t)
    PROVE  Abstract!Call(t)
<1>1. /\ step \in [Clients -> {"idle", "request", "wait", "release"}]
      /\ step[t] = "idle" /\ step' = [step EXCEPT ![t] = "request"]
      /\ UNCHANGED <<inFlight, sector, data>>
    BY DEF ReadOrWriteSector, DiskInv, TypeOK, diskVars
<1>2. \A u \in Clients : Progress(u)' = Progress(u)
    BY <1>1 DEF Progress
<1>3. request[t] = NULL /\ \E r \in Requests : request' = [request EXCEPT ![t] = r]
    BY <1>1 DEF DiskInv, Turn, ReadOrWriteSector
<1> QED BY <1>1, <1>2, <1>3, SameProgress DEF Abstract!Call, Abstract!Requests, Requests

LEMMA PerformsAtomicDisk ==
    ASSUME DiskInv, NEW t \in Clients, DiskRequest(t)
    PROVE  Abstract!Perform(t)
<1>1. pc[t] = "client" /\ step[t] = "request"
    BY DEF DiskRequest, Executing
<1>2. ~ active
    <2>1. \A u \in Clients : ~ Expects(u)
        BY <1>1 DEF DiskInv, Turn, Expects
    <2> QED BY <2>1, DiskConstants DEF DiskInv, Owed, TypeOK, SynchTypeOK
<1>3. /\ inFlight' = t /\ step' = [step EXCEPT ![t] = "wait"] /\ request' = request
      /\ IF request[t].data = NULL
         THEN data' = [data EXCEPT ![t] = sector[request[t].sector]] /\ UNCHANGED sector
         ELSE sector' = [sector EXCEPT ![request[t].sector] = request[t].data] /\ UNCHANGED data
    BY <1>2 DEF DiskRequest
<1>4. step \in [Clients -> {"idle", "request", "wait", "release"}]
    BY DEF DiskInv, TypeOK
<1>5. \A u \in Clients : Progress(u) # "performed" /\ inFlight # u
    BY <1>2, IdleDisk
<1>6. Progress(t) = "called" /\ Progress(t)' = "performed" /\ request[t] # NULL
    BY <1>1, <1>3, <1>4 DEF Progress, DiskInv, Turn
<1>7. \A u \in Clients : u # t => Progress(u)' = Progress(u)
    BY <1>3, <1>4, <1>5 DEF Progress
<1>8. [u \in Clients |-> Progress(u)]' = [[u \in Clients |-> Progress(u)] EXCEPT ![t] = "performed"]
    BY <1>6, <1>7, OneProgress
<1> QED BY <1>3, <1>5, <1>6, <1>8 DEF Abstract!Perform

LEMMA ServesAtomicDisk ==
    ASSUME DiskInv, DiskDone
    PROVE  \E t \in Clients : Abstract!Serve(t)
<1>1. /\ active /\ inFlight' = NULL
      /\ UNCHANGED <<sector, request, step, data>>
    BY DEF DiskDone, clientVars
<1>2. PICK t \in Clients : Expects(t)
    <2>1. value[semaphore] \in Nat
        BY DiskConstants DEF DiskInv, TypeOK, SynchTypeOK
    <2> QED BY <1>1, <2>1 DEF DiskInv, Owed
<1>3. inFlight = t /\ step[t] \in {"wait", "release"}
    BY <1>1, <1>2 DEF DiskInv, Owed, Expects
<1>4. Progress(t) = "performed" /\ Progress(t)' = "served"
    BY <1>1, <1>3, DiskConstants DEF Progress
<1>5. \A u \in Clients : u # t => Progress(u)' = Progress(u)
    BY <1>1, <1>3, DiskConstants DEF Progress
<1>6. [u \in Clients |-> Progress(u)]' = [[u \in Clients |-> Progress(u)] EXCEPT ![t] = "served"]
    BY <1>4, <1>5, OneProgress
<1> QED BY <1>1, <1>4, <1>6 DEF Abstract!Serve

LEMMA ReturnsFromAtomicDisk ==
    ASSUME DiskInv, NEW t \in Clients, ReleaseDisk(t)
    PROVE  Abstract!Return(t)
<1>1. /\ step \in [Clients -> {"idle", "request", "wait", "release"}]
      /\ step[t] = "release" /\ pc[t] = "client" /\ step' = [step EXCEPT ![t] = "idle"]
      /\ request' = [request EXCEPT ![t] = NULL]
      /\ UNCHANGED <<inFlight, sector, data>>
    BY DEF ReleaseDisk, Release, Executing, DiskInv, TypeOK, diskVars
<1>2. \A u \in Clients : ~ Expects(u)
    BY <1>1 DEF DiskInv, Turn, Expects
<1>3. ~ active
    BY <1>2, DiskConstants DEF DiskInv, Owed, TypeOK, SynchTypeOK
<1>4. Progress(t) = "served" /\ Progress(t)' = "called" /\ request[t] # NULL
    BY <1>1, <1>3, IdleDisk DEF Progress, DiskInv, Turn
<1>5. \A u \in Clients : u # t => Progress(u)' = Progress(u)
    BY <1>1 DEF Progress
<1>6. [u \in Clients |-> Progress(u)]' = [[u \in Clients |-> Progress(u)] EXCEPT ![t] = "called"]
    BY <1>4, <1>5, OneProgress
<1> QED BY <1>1, <1>4, <1>6 DEF Abstract!Return

(* Everything else is invisible to the callers of the atomic disk. *)
LEMMA InvisibleToAtomicDisk ==
    ASSUME UNCHANGED <<sector, request, data>>,
           \A t \in Clients : Progress(t)' = Progress(t)
    PROVE  UNCHANGED Abstract!vars
BY SameProgress DEF Abstract!vars

(* SynchDisk's callers see an atomic disk: each request takes effect in one   *)
(* step between its call and its return, and no two of them at a time.        *)
THEOREM SynchDiskIsAtomic == Spec => ImplementsAtomicDisk
<1>1. Init => Abstract!Init
    <2> SUFFICES ASSUME Init PROVE Abstract!Init
        OBVIOUS
    <2>1. \A t \in Clients : Progress(t) = "called"
        BY DEF Init, Progress
    <2> QED BY <2>1 DEF Init, Abstract!Init
<1>2. DiskInv /\ [Next]_vars => [Abstract!Next]_(Abstract!vars)
    <2> SUFFICES ASSUME DiskInv, [Next]_vars PROVE [Abstract!Next]_(Abstract!vars)
        OBVIOUS
    <2>1. ASSUME UNCHANGED <<diskVars, clientVars>> PROVE UNCHANGED Abstract!vars
        BY <2>1, InvisibleToAtomicDisk DEF diskVars, clientVars, Progress
    <2>2. ASSUME NEW t \in Clients, ClientStep(t) PROVE [Abstract!Next]_(Abstract!vars)
        <3>1. CASE ReadOrWriteSector(t)
            BY <3>1, CallsAtomicDisk DEF Abstract!Next
        <3>2. CASE DiskRequest(t)
            BY <3>2, PerformsAtomicDisk DEF Abstract!Next
        <3>3. CASE WaitForInterrupt(t)
            <4>1. \A u \in Clients : Progress(u)' = Progress(u)
                BY <3>3 DEF WaitForInterrupt, diskVars, Progress, DiskInv, TypeOK
            <4> QED BY <3>3, <4>1, InvisibleToAtomicDisk DEF WaitForInterrupt, diskVars
        <3>4. CASE ReleaseDisk(t)
            BY <3>4, ReturnsFromAtomicDisk DEF Abstract!Next
        <3>5. CASE FinishStep(t)
            BY <2>1, <3>5 DEF FinishStep
        <3> QED BY <2>2, <3>1, <3>2, <3>3, <3>4, <3>5 DEF ClientStep
    <2>3. CASE DiskDone
        BY <2>3, ServesAtomicDisk DEF Abstract!Next
    <2>4. CASE MainStep \/ System \/ \E t \in Threads : YieldStep(t)
        BY <2>1, <2>4 DEF MainStep, System, YieldStep
    <2>5. CASE UNCHANGED vars
        BY <2>1, <2>5 DEF vars
    <2> QED BY <2>2, <2>3, <2>4, <2>5 DEF Next
<1> QED BY <1>1, <1>2, DiskInvariant, PTL DEF Spec, ImplementsAtomicDisk, Abstract!Spec
=============================================================================
