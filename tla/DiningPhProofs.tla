---------------------------- MODULE DiningPhProofs ----------------------------
(***************************************************************************)
(* The dining philosophers, for every number of them and of rounds:        *)
(* neighbours never eat together, pickup returns to a philosopher who eats, *)
(* and the table never deadlocks.                                          *)
(***************************************************************************)
EXTENDS DiningPh, NachosSynchProofs

InMonitor(i) == step[i] \in {"hungry", "test", "wait", "picked",
                             "thinking", "testLeft", "testRight", "put"}

(* A philosopher owns a lock just when he runs the statements it guards; the *)
(* statement at which he waits says what for.                                *)
MonitorOf(i) ==
    /\ lockOwner[dp] = i <=> InMonitor(i) /\ pc[i] \notin {"P", "Wait"}
    /\ lockOwner[lockCon(i)] = IF step[i] = "print" /\ pc[i] # "P" THEN i ELSE NULL
    /\ pc[i] = "P" => \/ step[i] = "print" /\ waitsOn[i] = lockCon(i)
                      \/ step[i] \in {"hungry", "thinking", "picked"} /\ waitsOn[i] = dp
    /\ pc[i] = "Wait" => step[i] = "picked" /\ waitsOn[i] = self(i) /\ relock[i] = dp
    /\ pc[i] = "new" => step[i] = "start"
    /\ pc[i] = "finish" => step[i] = "done"

Monitor ==
    /\ pc[Main] \notin {"P", "Wait", "new"}
    /\ lockOwner[dp] \in Philosophers \cup {NULL}
    /\ \A i \in Philosophers : MonitorOf(i)

Asleep(i) == pc[i] = "Wait" /\ status[i] = "BLOCKED"

(* The state at each statement; a hungry philosopher inside pickup's Wait is *)
(* one that nobody has signalled.                                            *)
StateOf(i) ==
    /\ step[i] \in {"test", "wait", "picked"} => state[i] \in {"Hungry", "Eating"}
    /\ step[i] \in {"eat", "putdown", "thinking"} => state[i] = "Eating"
    /\ step[i] \notin {"test", "wait", "picked", "eat", "putdown", "thinking"}
           => state[i] = "Thinking"
    /\ step[i] = "picked" => (state[i] = "Hungry" <=> Asleep(i))
    /\ round[i] < Rounds <=> step[i] # "done"

StateWell == \A i \in Philosophers : StateOf(i)

(* Somebody who will test for philosopher i. *)
Heard(i) ==
    \/ state[Left(i)] = "Eating" \/ step[Left(i)] \in {"testLeft", "testRight"}
    \/ state[Right(i)] = "Eating" \/ step[Right(i)] = "testLeft"

HungryHeard == \A i \in Philosophers :
    step[i] \in {"wait", "picked"} /\ state[i] = "Hungry" => Heard(i)

AllForked == pc[Main] = "finish" => \A i \in Philosophers : status[i] # "JUST_CREATED"

DiningInv ==
    /\ SynchInv /\ TypeOK /\ Monitor /\ StateWell
    /\ NeighboursDontEat /\ HungryHeard /\ AllForked /\ HaltsWhenDone

-----------------------------------------------------------------------------
(* What DiningAssumption says of the constants, in the words of NachosSynch. *)
LEMMA DiningConstants ==
    /\ Philosophers \subseteq Threads /\ Main \in Threads /\ Main \notin Philosophers
    /\ Threads = Philosophers \cup {Main} /\ NULL \notin Threads
    /\ dp \in Locks /\ dp \in AllSemaphores /\ Semaphores = {}
    /\ Locks = {dp} \cup {lockCon(i) : i \in Philosophers}
    /\ AllSemaphores = Locks
    /\ \A i \in Philosophers : /\ lockCon(i) \in Locks /\ lockCon(i) # dp
                               /\ self(i) \in Conditions
    /\ \A i, j \in Philosophers : (lockCon(i) = lockCon(j) \/ self(i) = self(j)) => i = j
    /\ \A c \in Conditions : \E i \in Philosophers : c = self(i)
    /\ Locks \cap Conditions = {}
<1>1. \A i \in Philosophers : lockCon(i) # dp
    BY DEF lockCon, dp
<1>2. \A i, j \in Philosophers : (lockCon(i) = lockCon(j) \/ self(i) = self(j)) => i = j
    BY DEF lockCon, self
<1> QED BY <1>1, <1>2, DiningAssumption, KernelAssumption, SynchAssumption DEF AllSemaphores

LEMMA SmallRemainder ==
    ASSUME NEW n \in Nat \ {0}, NEW a \in 0 .. n - 1
    PROVE  a % n = a /\ (a + n) % n = a
OBVIOUS

(* The table is round. *)
LEMMA RoundTable ==
    ASSUME NEW i \in Philosophers
    PROVE  /\ Left(i) \in Philosophers /\ Right(i) \in Philosophers
           /\ Left(Right(i)) = i /\ Right(Left(i)) = i
           /\ Left(i) # i /\ Right(i) # i
<1>0. N \in Nat \ {0, 1} /\ i \in 0 .. N - 1
    BY DiningAssumption DEF Philosophers
<1>1. Right(i) = IF i = N - 1 THEN 0 ELSE i + 1
    <2>1. CASE i = N - 1
        <3>1. (0 + N) % N = 0 /\ i + 1 = 0 + N
            BY <1>0, <2>1, SmallRemainder
        <3> QED BY <2>1, <3>1 DEF Right
    <2>2. CASE i # N - 1
        BY <1>0, <2>2, SmallRemainder DEF Right
    <2> QED BY <2>1, <2>2
<1>2. \A j \in 0 .. N - 1 : Left(j) = IF j = 0 THEN N - 1 ELSE j - 1
    <2> TAKE j \in 0 .. N - 1
    <2>1. CASE j = 0
        BY <1>0, <2>1, SmallRemainder DEF Left
    <2>2. CASE j # 0
        <3>1. j - 1 \in 0 .. N - 1 /\ j + N - 1 = (j - 1) + N
            BY <1>0, <2>2
        <3>2. ((j - 1) + N) % N = j - 1
            BY <1>0, <3>1, SmallRemainder
        <3> QED BY <2>2, <3>1, <3>2 DEF Left
    <2> QED BY <2>1, <2>2
<1>3. Right(Left(i)) = i
    <2>1. CASE i = 0
        <3>1. Left(i) = N - 1 /\ (N - 1) + 1 = 0 + N /\ (0 + N) % N = 0
            BY <1>0, <1>2, <2>1, SmallRemainder
        <3> QED BY <2>1, <3>1 DEF Right
    <2>2. CASE i # 0
        <3>1. Left(i) = i - 1
            BY <1>0, <1>2, <2>2
        <3>2. i % N = i
            BY <1>0, SmallRemainder
        <3>3. (i - 1) + 1 = i
            BY <1>0
        <3> QED BY <3>1, <3>2, <3>3 DEF Right
    <2> QED BY <2>1, <2>2
<1> QED BY <1>0, <1>1, <1>2, <1>3 DEF Philosophers

(* Philosophers, main and timer do nothing to the kernel but call its routines. *)
LEMMA DiningIsRoutine ==
    ASSUME SynchInv, [Next]_vars
    PROVE  RoutineStep
<1>0. machine \in {"up", "halted", "aborted"}
    BY DEF SynchInv, ThreadInv, PlaceInv, LockInv, KernelTypeOK
<1>1. ASSUME UNCHANGED <<kernelVars, synchVars>> PROVE RoutineStep
    BY <1>0, <1>1 DEF kernelVars, RoutineStep, MachineStep
<1>2. ThreadTest => RoutineStep
    BY DiningConstants DEF ThreadTest, RoutineStep, RoutineCall
<1>3. ASSUME NEW i \in Philosophers, Philo(i) PROVE RoutineStep
    <2>1. CASE YieldStep(i) \/ FinishStep(i)
        BY <2>1, DiningConstants DEF YieldStep, FinishStep, RoutineStep, RoutineCall
    <2>2. CASE LockStep(i)
        BY <2>2, DiningConstants DEF LockStep, RoutineStep, RoutineCall
    <2>3. CASE SetState(i)
        BY <1>1, <2>3 DEF SetState
    <2>4. CASE TestStep(i)
        <3>1. PICK k \in Philosophers : Test(i, k)
            BY <2>4, RoundTable DEF TestStep
        <3> QED BY <1>1, <3>1, DiningConstants DEF Test, RoutineStep, RoutineCall
    <2>5. CASE WaitStep(i)
        BY <1>1, <2>5, DiningConstants DEF WaitStep, RoutineStep, RoutineCall
    <2> QED BY <1>3, <2>1, <2>2, <2>3, <2>4, <2>5 DEF Philo
<1>4. ASSUME NEW t \in Threads, TimeSlice(t) PROVE RoutineStep
    BY <1>4 DEF TimeSlice, RoutineStep, RoutineCall
<1>5. System \/ UNCHANGED vars => RoutineStep
    BY <1>0 DEF System, Idle, Stopped, vars, kernelVars, RoutineStep, MachineStep
<1> QED BY <1>2, <1>3, <1>4, <1>5 DEF Next

-----------------------------------------------------------------------------
(* P on a lock: it is taken when it has no owner, else the thread sleeps. *)
LEMMA AcquireEffect ==
    ASSUME SynchInv, NEW i \in Philosophers, NEW l \in Locks, NEW saved,
           AcquireValue(i, l, saved)
    PROVE  /\ \A u \in Threads : u # i => Kept(u) /\ status'[u] = status[u]
           /\ \A k \in Locks : k # l => lockOwner'[k] = lockOwner[k]
           /\ lockOwner[l] = NULL => lockOwner'[l] = i /\ pc'[i] = "client"
           /\ lockOwner[l] # NULL =>
                  lockOwner'[l] = lockOwner[l] /\ pc'[i] = "P" /\ waitsOn'[i] = l
           /\ status'[i] = "JUST_CREATED" => status[i] = "JUST_CREATED"
<1>0. /\ pc \in [Threads -> PCs] /\ waitsOn \in [Threads -> Queues \cup {NULL}]
      /\ relock \in [Threads -> Locks \cup {NULL}]
      /\ value[l] = IF lockOwner[l] = NULL THEN 1 ELSE 0
      /\ i \in Threads
    BY DiningConstants
    DEF SynchInv, ThreadInv, PlaceInv, LockInv, KernelTypeOK, SynchTypeOK, FreeOrBusy
<1>1. CASE lockOwner[l] = NULL
    BY <1>0, <1>1 DEF AcquireValue, Kept
<1>2. CASE lockOwner[l] # NULL
    BY <1>0, <1>2, EmptyRange DEF AcquireValue, Kept, ReadyToRunAndSleep
<1> QED BY <1>1, <1>2

(* The condition of philosopher k has nobody else on it, so a signal wakes k *)
(* if he sleeps in pickup and nobody otherwise.                              *)
LEMMA SignalEffect ==
    ASSUME SynchInv, Monitor, NEW i \in Philosophers, NEW k \in Philosophers,
           Signal(i, self(k))
    PROVE  /\ \A u \in Threads : u # k => status'[u] = status[u]
           /\ ~ Asleep(k)' /\ (~ Asleep(k) => status'[k] = status[k])
           /\ status'[k] = "JUST_CREATED" => status[k] = "JUST_CREATED"
<1> DEFINE c == self(k)
<1>0. c \in Queues /\ c \in Conditions /\ k \in Threads
    BY DiningConstants DEF Queues
<1>1. /\ ReadyToRun(First(c)) /\ pc' = pc
    BY DEF Signal
<1>2. queue[c] \in Seq(Threads) /\ First(c) = IF queue[c] = <<>> THEN <<>> ELSE <<Head(queue[c])>>
    BY <1>0 DEF SynchInv, ThreadInv, PlaceInv, LockInv, SynchTypeOK, First
<1>3. \A u \in Threads : u \in Range(queue[c]) <=> u = k /\ Asleep(k)
    <2>1. \A u \in Threads : u \in Range(queue[c]) <=>
              status[u] = "BLOCKED" /\ pc[u] # "finish" /\ waitsOn[u] = c
        BY <1>0 DEF SynchInv, ThreadInv, PlaceInv, Placed
    <2>2. ASSUME NEW u \in Threads, status[u] = "BLOCKED", pc[u] # "finish", waitsOn[u] = c
          PROVE  u = k /\ pc[u] = "Wait"
        <3>1. pc[u] \in {"P", "Wait"}
            BY <2>2 DEF SynchInv, ThreadInv, PlaceInv, Placed
        <3>2. u \in Philosophers /\ MonitorOf(u)
            BY <3>1, DiningConstants DEF Monitor
        <3>3. pc[u] # "P"
            BY <1>0, <2>2, <3>1, SynchAssumption
            DEF SynchInv, ThreadInv, PlaceInv, LockInv, WaitsWell
        <3> QED BY <2>2, <3>1, <3>2, <3>3, DiningConstants DEF MonitorOf
    <2>3. Asleep(k) => status[k] = "BLOCKED" /\ pc[k] # "finish" /\ waitsOn[k] = c
        BY DEF Asleep, Monitor, MonitorOf
    <2> QED BY <1>0, <2>1, <2>2, <2>3 DEF Asleep
<1>4. \A u \in Threads : u \in Range(First(c)) <=> u = k /\ Asleep(k)
    <2>1. CASE queue[c] = <<>>
        <3>1. Range(queue[c]) = {} /\ Range(First(c)) = {}
            BY <1>2, <2>1, EmptyRange
        <3> QED BY <1>3, <3>1
    <2>2. CASE queue[c] # <<>>
        <3> DEFINE h == Head(queue[c])
        <3>1. h \in Range(queue[c]) /\ h \in Threads
            BY <1>2, <2>2, TailRange, HeadTailProperties
        <3>2. h = k /\ Asleep(k)
            BY <1>3, <3>1
        <3>3. Range(First(c)) = {h}
            BY <1>2, <2>2, SingleRange
        <3> QED BY <3>2, <3>3
    <2> QED BY <2>1, <2>2
<1> HIDE DEF c
<1>5. \A u \in Threads : status'[u] = IF u = k /\ Asleep(k) THEN "READY" ELSE status[u]
    BY <1>1, <1>4 DEF ReadyToRun
<1> QED BY <1>0, <1>1, <1>5 DEF Asleep

-----------------------------------------------------------------------------
(* A step of one thread t leaves the others' part of the invariant alone. *)
LEMMA MonitorKept ==
    ASSUME Monitor, NEW t \in Threads,
           \A u \in Threads : u # t => Kept(u),
           \A j \in Philosophers : j # t =>
               step'[j] = step[j] /\ lockOwner'[lockCon(j)] = lockOwner[lockCon(j)],
           \/ lockOwner'[dp] = lockOwner[dp]
           \/ lockOwner'[dp] \in {t, NULL} /\ lockOwner[dp] \in {t, NULL},
           lockOwner'[dp] \in Philosophers \cup {NULL},
           t \in Philosophers => MonitorOf(t)',
           t = Main => pc'[Main] \notin {"P", "Wait", "new"}
    PROVE  Monitor'
<1>1. ASSUME NEW j \in Philosophers, j # t PROVE MonitorOf(j)'
    <2>1. /\ MonitorOf(j) /\ Kept(j) /\ step'[j] = step[j]
          /\ lockOwner'[lockCon(j)] = lockOwner[lockCon(j)]
          /\ lockOwner'[dp] = j <=> lockOwner[dp] = j
        BY <1>1, DiningConstants DEF Monitor
    <2> QED BY <2>1 DEF MonitorOf, InMonitor, Kept
<1>2. pc'[Main] \notin {"P", "Wait", "new"}
    BY DiningConstants DEF Monitor, Kept
<1> QED BY <1>1, <1>2 DEF Monitor

LEMMA StatesKept ==
    ASSUME StateWell, NEW t \in Threads,
           \A j \in Philosophers : j # t =>
               /\ step'[j] = step[j] /\ state'[j] = state[j] /\ round'[j] = round[j]
               /\ step[j] = "picked" => (Asleep(j)' <=> Asleep(j)),
           t \in Philosophers => StateOf(t)'
    PROVE  StateWell'
<1>1. ASSUME NEW j \in Philosophers, j # t PROVE StateOf(j)'
    BY <1>1 DEF StateWell, StateOf
<1> QED BY <1>1 DEF StateWell

(* The tables of who eats and of who is heard change with state and step only. *)
LEMMA TableKept ==
    ASSUME UNCHANGED <<state, step>>, NeighboursDontEat, HungryHeard
    PROVE  NeighboursDontEat' /\ HungryHeard'
BY DEF NeighboursDontEat, HungryHeard, Heard, Left, Right

(* Whoever is heard stays heard while nobody eats less or leaves a test. *)
LEMMA HeardKept ==
    ASSUME HungryHeard, UNCHANGED state,
           \A j \in Philosophers :
               /\ step'[j] \in {"wait", "picked"} => step[j] \in {"wait", "picked"}
               /\ step[j] = "testLeft" => step'[j] = "testLeft"
               /\ step[j] = "testRight" => step'[j] = "testRight"
    PROVE  HungryHeard'
<1> SUFFICES ASSUME NEW j \in Philosophers, step'[j] \in {"wait", "picked"}, state'[j] = "Hungry"
             PROVE  Heard(j)'
    BY DEF HungryHeard
<1>1. Heard(j)
    BY DEF HungryHeard
<1>2. /\ Left(j) \in Philosophers /\ Right(j) \in Philosophers
      /\ Left(j)' = Left(j) /\ Right(j)' = Right(j)
    BY RoundTable DEF Left, Right
<1> QED BY <1>1, <1>2 DEF Heard

-----------------------------------------------------------------------------
Table == Monitor /\ StateWell /\ NeighboursDontEat /\ HungryHeard

(* Steps of the kernel alone, at most one thread's. *)
LEMMA KernelKeepsTable ==
    ASSUME SynchInv, Table, NEW t \in Threads,
           UNCHANGED <<lockOwner, waitsOn, relock, state, step, round>>,
           \A u \in Threads : u # t => pc'[u] = pc[u],
           \/ pc'[t] = pc[t]
           \/ pc[t] \notin {"P", "Wait"} /\ pc'[t] \in {"client", "yield", "finish"},
           t \in Philosophers /\ pc'[t] = "finish" => step[t] = "done",
           \A u \in Threads : status'[u] = "BLOCKED" /\ pc[u] = "Wait" <=>
                              status[u] = "BLOCKED" /\ pc[u] = "Wait"
    PROVE  Table'
<1>1. Monitor'
    <2>1. t \in Philosophers => MonitorOf(t)'
        BY DEF Table, Monitor, MonitorOf, InMonitor
    <2>2. t = Main => pc'[Main] \notin {"P", "Wait", "new"}
        BY DEF Table, Monitor
    <2> QED BY <2>1, <2>2, MonitorKept DEF Table, Monitor, Kept
<1>2. StateWell'
    <2>1. \A u \in Philosophers : Asleep(u)' <=> Asleep(u)
        BY DiningConstants DEF Asleep
    <2> QED BY <2>1, StatesKept DEF Table, StateWell, StateOf
<1> QED BY <1>1, <1>2, TableKept DEF Table

LEMMA ThreadTestTable ==
    ASSUME SynchInv, Table, ThreadTest
    PROVE  Table'
<1>1. UNCHANGED <<lockOwner, waitsOn, relock, state, step, round>>
    BY DEF ThreadTest, synchVars, diningVars
<1>2. ASSUME NEW u \in Philosophers, Fork(Main, u) PROVE Table'
    <2>1. pc' = pc /\ status[u] = "JUST_CREATED"
          /\ \A v \in Threads : status'[v] = IF v = u THEN "READY" ELSE status[v]
        BY <1>2, ForkEffect, DiningConstants
    <2> QED BY <1>1, <2>1, KernelKeepsTable, DiningConstants
<1>3. CASE Finish(Main)
    BY <1>1, <1>3, FinishEffect, KernelKeepsTable, DiningConstants
<1> QED BY <1>2, <1>3 DEF ThreadTest

LEMMA SystemTable ==
    ASSUME SynchInv, Table, KernelStep \/ Idle \/ Stopped,
           UNCHANGED <<synchVars, diningVars>>
    PROVE  Table'
<1>1. UNCHANGED <<lockOwner, waitsOn, relock, state, step, round>>
    BY DEF synchVars, diningVars
<1>2. CASE Dispatch
    <2>1. \A u \in Threads : SameStatus(u) /\ pc'[u] = pc[u]
        BY <1>2, DispatchEffect
    <2> QED BY <1>1, <2>1, KernelKeepsTable, DiningConstants DEF SameStatus, Table, Monitor
<1>3. ASSUME NEW t \in Threads, ThreadRoot(t) \/ YieldReturn(t) PROVE Table'
    <2>1. pc' = [pc EXCEPT ![t] = "client"] /\ status' = status /\ pc[t] \in {"new", "yield"}
        BY <1>3 DEF ThreadRoot, YieldReturn
    <2>2. pc \in [Threads -> PCs]
        BY DEF SynchInv, ThreadInv, PlaceInv, LockInv, KernelTypeOK
    <2> QED BY <1>1, <2>1, <2>2, KernelKeepsTable
<1>4. CASE Idle \/ Stopped
    <2>1. pc' = pc /\ status' = status
        BY <1>4 DEF Idle, Stopped, kernelVars
    <2> QED BY <1>1, <2>1, KernelKeepsTable, DiningConstants DEF Table, Monitor
<1> QED BY <1>2, <1>3, <1>4 DEF KernelStep

LEMMA FinishTable ==
    ASSUME SynchInv, Table, NEW i \in Philosophers, FinishStep(i)
    PROVE  Table'
<1>1. UNCHANGED <<lockOwner, waitsOn, relock, state, step, round>>
    BY DEF FinishStep, synchVars, diningVars
<1> QED BY <1>1, FinishEffect, KernelKeepsTable, DiningConstants DEF FinishStep

LEMMA SliceTable ==
    ASSUME SynchInv, Table, NEW t \in Threads, TimeSlice(t)
    PROVE  Table'
<1>1. UNCHANGED <<lockOwner, waitsOn, relock, state, step, round>>
    BY DEF TimeSlice, synchVars
<1>2. \A u \in Threads : SameStatus(u) /\
          (pc'[u] = pc[u] \/ (u = t /\ pc[u] = "client" /\ pc'[u] = "yield"))
    <2>1. \A u \in Threads : u # t => pc'[u] = pc[u]
        BY DEF TimeSlice, Yield, SynchInv, ThreadInv, PlaceInv, LockInv, KernelTypeOK
    <2> QED BY <2>1, YieldEffect DEF TimeSlice
<1>3. t \in Philosophers /\ pc'[t] = "finish" => step[t] = "done"
    BY <1>2 DEF Table, Monitor, MonitorOf
<1> QED BY <1>1, <1>2, <1>3, KernelKeepsTable DEF SameStatus

(* The yields of a round: the philosopher is outside the monitor. *)
LEMMA YieldTable ==
    ASSUME SynchInv, TypeOK, Table, NEW i \in Philosophers, YieldStep(i)
    PROVE  Table'
<1>0. /\ UNCHANGED <<lockOwner, waitsOn, relock, state>>
      /\ step \in [Philosophers -> Steps] /\ round \in [Philosophers -> 0 .. Rounds]
      /\ i \in Threads /\ Rounds \in Nat
    BY DiningConstants, DiningAssumption DEF YieldStep, synchVars, TypeOK
<1>1. \A u \in Threads : SameStatus(u) /\
          (pc'[u] = pc[u] \/ (u = i /\ pc[u] = "client" /\ pc'[u] = "yield"))
    <2>1. \A u \in Threads : u # i => pc'[u] = pc[u]
        BY DEF YieldStep, Yield, SynchInv, ThreadInv, PlaceInv, LockInv, KernelTypeOK
    <2> QED BY <1>0, <2>1, YieldEffect DEF YieldStep
<1>2. pc[i] = "client" /\ pc'[i] \in {"client", "yield"}
    BY <1>0, <1>1 DEF YieldStep, Yield, Executing
<1>3. /\ \A j \in Philosophers : j # i => step'[j] = step[j] /\ round'[j] = round[j]
      /\ \/ step[i] = "start" /\ step'[i] = "con" /\ round'[i] = round[i]
         \/ step[i] = "eat" /\ step'[i] = "putdown" /\ round'[i] = round[i]
         \/ step[i] = "think" /\ round'[i] = round[i] + 1
            /\ step'[i] = IF round[i] + 1 = Rounds THEN "done" ELSE "con"
    BY <1>0 DEF YieldStep, Goto
<1>4. Monitor'
    <2>1. MonitorOf(i)'
        <3>1. MonitorOf(i) /\ ~ InMonitor(i) /\ ~ InMonitor(i)' /\ step[i] # "print" /\ step'[i] # "print"
            BY <1>3 DEF Table, Monitor, InMonitor
        <3> QED BY <1>0, <1>2, <3>1 DEF MonitorOf
    <2> QED BY <1>0, <1>1, <1>3, <2>1, MonitorKept, DiningConstants DEF Table, Monitor, Kept
<1>5. StateWell'
    <2>1. StateOf(i)'
        <3>1. StateOf(i) /\ round[i] \in 0 .. Rounds
            BY <1>0 DEF Table, StateWell
        <3> QED BY <1>0, <1>3, <3>1 DEF StateOf
    <2>2. \A u \in Philosophers : u # i => (Asleep(u)' <=> Asleep(u))
        BY <1>1, DiningConstants DEF Asleep, SameStatus
    <2> QED BY <1>0, <1>3, <2>1, <2>2, StatesKept DEF Table
<1>6. NeighboursDontEat'
    BY <1>0 DEF Table, NeighboursDontEat, Right
<1>7. HungryHeard'
    BY <1>0, <1>3, HeardKept DEF Table
<1> QED BY <1>4, <1>5, <1>6, <1>7 DEF Table

(* The lock whose turn it is, taken by philosopher i or waited for by him: by *)
(* Acquire at the statement `from`, or by the rest of P and Wait.            *)
LEMMA TakeTable ==
    ASSUME SynchInv, TypeOK, Table, NEW i \in Philosophers, NEW l \in Locks, NEW saved,
           AcquireValue(i, l, saved), UNCHANGED <<state, round>>,
           \A j \in Philosophers : j # i => step'[j] = step[j],
           lockOwner[l] # i,
           \/ l = lockCon(i) /\ step'[i] = "print" /\ step[i] \in {"con", "print"}
           \/ l = dp /\ step'[i] = "hungry" /\ step[i] \in {"pickup", "hungry"}
           \/ l = dp /\ step'[i] = "thinking" /\ step[i] \in {"putdown", "thinking"}
           \/ l = dp /\ step'[i] = "picked" /\ step[i] = "picked" /\ ~ Asleep(i),
           lockOwner[lockCon(i)] = NULL, lockOwner[dp] # i
    PROVE  Table'
<1>0. i \in Threads /\ i # NULL /\ dp \in Locks /\ lockCon(i) \in Locks /\ lockCon(i) # dp
      /\ step \in [Philosophers -> Steps]
    BY DiningConstants DEF TypeOK
<1>1. /\ \A u \in Threads : u # i => Kept(u) /\ status'[u] = status[u]
      /\ \A k \in Locks : k # l => lockOwner'[k] = lockOwner[k]
      /\ lockOwner[l] = NULL => lockOwner'[l] = i /\ pc'[i] = "client"
      /\ lockOwner[l] # NULL =>
                  lockOwner'[l] = lockOwner[l] /\ pc'[i] = "P" /\ waitsOn'[i] = l
    BY AcquireEffect
<1>2. Monitor'
    <2>1. MonitorOf(i)'
        BY <1>0, <1>1 DEF MonitorOf, InMonitor
    <2>2. \A j \in Philosophers : j # i => lockCon(j) # l /\ lockCon(j) \in Locks
        BY DiningConstants
    <2>3. lockOwner'[dp] \in Philosophers \cup {NULL}
        BY <1>0, <1>1 DEF Table, Monitor
    <2>4. \/ lockOwner'[dp] = lockOwner[dp]
          \/ lockOwner'[dp] \in {i, NULL} /\ lockOwner[dp] \in {i, NULL}
        BY <1>0, <1>1
    <2> QED BY <1>0, <1>1, <2>1, <2>2, <2>3, <2>4, MonitorKept, DiningConstants DEF Table
<1>3. StateWell'
    <2>1. StateOf(i)'
        <3>1. StateOf(i) /\ ~ Asleep(i)'
            BY <1>1 DEF Table, StateWell, Asleep
        <3> QED BY <3>1 DEF StateOf
    <2>2. \A u \in Philosophers : u # i => (Asleep(u)' <=> Asleep(u))
        BY <1>1, DiningConstants DEF Asleep, Kept
    <2> QED BY <1>0, <2>1, <2>2, StatesKept DEF Table
<1>4. NeighboursDontEat'
    BY DEF Table, NeighboursDontEat, Right
<1>5. HungryHeard'
    BY <1>0, HeardKept DEF Table
<1> QED BY <1>2, <1>3, <1>4, <1>5 DEF Table

(* The lock given back by its owner, philosopher i, who goes on. *)
LEMMA GiveTable ==
    ASSUME SynchInv, TypeOK, Table, NEW i \in Philosophers, NEW l \in Locks,
           Release(i, l), UNCHANGED <<state, round>>,
           \A j \in Philosophers : j # i => step'[j] = step[j],
           \/ l = lockCon(i) /\ step[i] = "print" /\ step'[i] = "pickup"
           \/ l = dp /\ step[i] = "picked" /\ step'[i] = "eat"
           \/ l = dp /\ step[i] = "put" /\ step'[i] = "think"
    PROVE  Table'
<1>0. i \in Threads /\ i # NULL /\ dp \in Locks /\ lockCon(i) \in Locks /\ lockCon(i) # dp
      /\ step \in [Philosophers -> Steps] /\ lockOwner \in [Locks -> Threads \cup {NULL}]
    BY DiningConstants DEF TypeOK, SynchTypeOK
<1>1. pc[i] = "client" /\ MonitorOf(i) /\ lockOwner[l] = i
    BY DEF Release, Executing, Table, Monitor, MonitorOf, InMonitor
<1>2. /\ UNCHANGED <<pc, waitsOn, relock>>
      /\ lockOwner' = [lockOwner EXCEPT ![l] = NULL]
      /\ \A u \in Threads : pc[u] = "Wait" => status'[u] = status[u]
    <2>1. \A u \in Range(First(l)) : pc[u] = "P"
        BY ReleaseWakes, DiningConstants
    <2> QED BY <1>1, <2>1 DEF Release, ReleaseValue, ReadyToRun
<1>3. Monitor'
    <2>1. MonitorOf(i)'
        BY <1>0, <1>1, <1>2 DEF MonitorOf, InMonitor
    <2>2. \A j \in Philosophers : j # i => lockCon(j) # l /\ lockCon(j) \in Locks
        BY DiningConstants
    <2>3. lockOwner'[dp] \in Philosophers \cup {NULL}
        BY <1>0, <1>2 DEF Table, Monitor
    <2>4. \/ lockOwner'[dp] = lockOwner[dp]
          \/ lockOwner'[dp] \in {i, NULL} /\ lockOwner[dp] \in {i, NULL}
        BY <1>0, <1>1, <1>2
    <2> QED BY <1>0, <1>2, <2>1, <2>2, <2>3, <2>4, MonitorKept, DiningConstants DEF Table, Kept
<1>4. StateWell'
    <2>1. StateOf(i)'
        <3>1. StateOf(i) /\ ~ Asleep(i)
            BY <1>1 DEF Table, StateWell, Asleep
        <3>2. state[i] \in {"Hungry", "Eating", "Thinking"}
            BY DEF TypeOK
        <3> QED BY <3>1, <3>2 DEF StateOf
    <2>2. \A u \in Philosophers : u # i => (Asleep(u)' <=> Asleep(u))
        BY <1>2, DiningConstants DEF Asleep
    <2> QED BY <1>0, <2>1, <2>2, StatesKept DEF Table
<1>5. NeighboursDontEat'
    BY DEF Table, NeighboursDontEat, Right
<1>6. HungryHeard'
    BY <1>0, HeardKept DEF Table
<1> QED BY <1>3, <1>4, <1>5, <1>6 DEF Table

LEMMA LockTable ==
    ASSUME SynchInv, TypeOK, Table, NEW i \in Philosophers, LockStep(i)
    PROVE  Table'
<1>0. /\ dp \in Locks /\ lockCon(i) \in Locks /\ i # NULL /\ MonitorOf(i)
      /\ step \in [Philosophers -> Steps] /\ UNCHANGED <<state, round>>
    BY DiningConstants DEF Table, Monitor, LockStep, TypeOK
<1>1. \A j \in Philosophers : j # i => step'[j] = step[j]
    BY <1>0 DEF LockStep, Goto
<1>2. ASSUME NEW l \in Locks, Acquire(i, l),
             \/ Goto(i, "con", "print") /\ l = lockCon(i)
             \/ Goto(i, "pickup", "hungry") /\ l = dp
             \/ Goto(i, "putdown", "thinking") /\ l = dp
      PROVE  Table'
    <2>1. AcquireValue(i, l, "Off")
        BY <1>2 DEF Acquire
    <2>2. \/ l = lockCon(i) /\ step'[i] = "print" /\ step[i] = "con"
          \/ l = dp /\ step'[i] = "hungry" /\ step[i] = "pickup"
          \/ l = dp /\ step'[i] = "thinking" /\ step[i] = "putdown"
        BY <1>0, <1>2 DEF Goto
    <2>3. lockOwner[lockCon(i)] = NULL /\ lockOwner[dp] # i
        BY <1>0, <2>2 DEF MonitorOf, InMonitor
    <2> QED BY <1>0, <1>1, <2>1, <2>2, <2>3, TakeTable
<1>3. ASSUME NEW l \in Locks, Release(i, l),
             \/ Goto(i, "print", "pickup") /\ l = lockCon(i)
             \/ Goto(i, "picked", "eat") /\ l = dp
             \/ Goto(i, "put", "think") /\ l = dp
      PROVE  Table'
    <2>1. \/ l = lockCon(i) /\ step[i] = "print" /\ step'[i] = "pickup"
          \/ l = dp /\ step[i] = "picked" /\ step'[i] = "eat"
          \/ l = dp /\ step[i] = "put" /\ step'[i] = "think"
        BY <1>0, <1>3 DEF Goto
    <2> QED BY <1>0, <1>1, <1>3, <2>1, GiveTable
<1> QED BY <1>0, <1>2, <1>3 DEF LockStep

(* P and Wait, when SWITCH returns. *)
LEMMA ResumeTable ==
    ASSUME SynchInv, TypeOK, Table, NEW t \in Threads, ResumeP(t) \/ ResumeWait(t),
           UNCHANGED diningVars
    PROVE  Table'
<1>1. pc[t] \in {"P", "Wait"} /\ status[t] = "RUNNING" /\ UNCHANGED <<state, step, round>>
    BY DEF ResumeP, ResumeWait, Resuming, diningVars
<1>2. t \in Philosophers /\ MonitorOf(t) /\ ~ Asleep(t)
    BY <1>1, DiningConstants DEF Table, Monitor, Asleep
<1>3. dp \in Locks /\ lockCon(t) \in Locks /\ t # NULL /\ dp # lockCon(t)
    BY <1>2, DiningConstants
<1>4. lockOwner[lockCon(t)] = NULL /\ lockOwner[dp] # t
    BY <1>1, <1>2 DEF MonitorOf
<1>5. CASE ResumeP(t)
    <2>1. PICK l, saved : l \in Locks /\ AcquireValue(t, l, saved) /\
              \/ l = lockCon(t) /\ step[t] = "print"
              \/ l = dp /\ step[t] \in {"hungry", "thinking", "picked"}
        BY <1>2, <1>3, <1>5 DEF ResumeP, MonitorOf
    <2>2. \/ l = lockCon(t) /\ step'[t] = "print" /\ step[t] = "print"
          \/ l = dp /\ step'[t] = "hungry" /\ step[t] = "hungry"
          \/ l = dp /\ step'[t] = "thinking" /\ step[t] = "thinking"
          \/ l = dp /\ step'[t] = "picked" /\ step[t] = "picked" /\ ~ Asleep(t)
        BY <1>1, <1>2, <2>1
    <2>3. lockOwner[l] # t
        BY <1>3, <1>4, <2>1
    <2> QED BY <1>1, <1>2, <1>4, <2>1, <2>2, <2>3, TakeTable
<1>6. CASE ResumeWait(t)
    <2>1. AcquireValue(t, dp, "Off") /\ step[t] = "picked"
        BY <1>2, <1>6 DEF ResumeWait, MonitorOf
    <2> QED BY <1>1, <1>2, <1>3, <1>4, <2>1, TakeTable
<1> QED BY <1>5, <1>6

(* pickup and putdown enter the table what the philosopher wants. *)
LEMMA SetTable ==
    ASSUME SynchInv, TypeOK, Table, NEW i \in Philosophers, SetState(i)
    PROVE  Table'
<1>0. /\ i \in Threads /\ pc[i] = "client" /\ MonitorOf(i) /\ StateOf(i)
      /\ step \in [Philosophers -> Steps] /\ round' = round
      /\ state \in [Philosophers -> {"Thinking", "Hungry", "Eating"}]
      /\ UNCHANGED <<pc, status, lockOwner, waitsOn, relock>>
    BY DiningConstants
    DEF Table, Monitor, StateWell, SetState, Executing, TypeOK, kernelVars, synchVars
<1>1. /\ \A j \in Philosophers : j # i => step'[j] = step[j] /\ state'[j] = state[j]
      /\ \/ step[i] = "hungry" /\ step'[i] = "test" /\ state'[i] = "Hungry"
         \/ step[i] = "thinking" /\ step'[i] = "testLeft" /\ state'[i] = "Thinking"
    BY <1>0 DEF SetState, Goto
<1>2. Monitor'
    <2>1. MonitorOf(i)'
        BY <1>0, <1>1 DEF MonitorOf, InMonitor
    <2> QED BY <1>0, <1>1, <2>1, MonitorKept, DiningConstants DEF Table, Kept, Monitor
<1>3. StateWell'
    <2>1. StateOf(i)'
        BY <1>0, <1>1 DEF StateOf
    <2>2. \A u \in Philosophers : u # i => (Asleep(u)' <=> Asleep(u))
        BY <1>0 DEF Asleep
    <2> QED BY <1>0, <1>1, <2>1, <2>2, StatesKept DEF Table
<1>4. NeighboursDontEat'
    <2>1. \A j \in Philosophers : state'[j] = "Eating" => state[j] = "Eating"
        BY <1>1
    <2>2. \A j \in Philosophers : Right(j) \in Philosophers /\ Right(j)' = Right(j)
        BY RoundTable DEF Right
    <2> QED BY <2>1, <2>2 DEF Table, NeighboursDontEat
<1>5. HungryHeard'
    <2> SUFFICES ASSUME NEW j \in Philosophers, step'[j] \in {"wait", "picked"}, state'[j] = "Hungry"
                 PROVE  Heard(j)'
        BY DEF HungryHeard
    <2>1. j # i /\ Heard(j)
        BY <1>1 DEF Table, HungryHeard
    <2>2. /\ Left(j) \in Philosophers /\ Right(j) \in Philosophers
          /\ Left(j)' = Left(j) /\ Right(j)' = Right(j)
        BY RoundTable DEF Left, Right
    <2>3. ASSUME NEW k \in Philosophers
          PROVE  /\ state[k] = "Eating" => state'[k] = "Eating" \/ step'[k] = "testLeft"
                 /\ step[k] = "testLeft" => step'[k] = "testLeft"
                 /\ step[k] = "testRight" => step'[k] = "testRight"
        BY <1>0, <1>1 DEF StateOf
    <2> QED BY <2>1, <2>2, <2>3 DEF Heard
<1> QED BY <1>2, <1>3, <1>4, <1>5 DEF Table

(* test(k), called by the owner of the monitor: if k is hungry and may eat, he *)
(* eats and is woken; if he is still hungry, a neighbour of his eats.         *)
LEMMA TestTable ==
    ASSUME SynchInv, TypeOK, Table, NEW i \in Philosophers, NEW k \in Philosophers,
           Test(i, k), UNCHANGED round,
           \/ Goto(i, "test", "wait") /\ k = i
           \/ Goto(i, "testLeft", "testRight") /\ k = Left(i)
           \/ Goto(i, "testRight", "put") /\ k = Right(i)
    PROVE  Table'
<1> DEFINE MayEat == state[Left(k)] # "Eating" /\ state[k] = "Hungry" /\ state[Right(k)] # "Eating"
<1>0. /\ i \in Threads /\ pc[i] = "client" /\ MonitorOf(i) /\ StateOf(i) /\ StateOf(k)
      /\ step \in [Philosophers -> Steps]
      /\ state \in [Philosophers -> {"Thinking", "Hungry", "Eating"}]
      /\ UNCHANGED <<pc, lockOwner, waitsOn, relock>>
    BY DiningConstants
    DEF Table, Monitor, StateWell, Test, Signal, Executing, TypeOK, kernelVars, synchVars
<1>1. /\ \A j \in Philosophers : j # i => step'[j] = step[j]
      /\ \/ step[i] = "test" /\ step'[i] = "wait" /\ k = i
         \/ step[i] = "testLeft" /\ step'[i] = "testRight" /\ k = Left(i)
         \/ step[i] = "testRight" /\ step'[i] = "put" /\ k = Right(i)
    BY <1>0 DEF Goto
<1>2. \A j \in Philosophers : /\ Left(j) \in Philosophers /\ Right(j) \in Philosophers
                              /\ Left(j)' = Left(j) /\ Right(j)' = Right(j)
                              /\ Left(Right(j)) = j /\ Right(Left(j)) = j
                              /\ Left(j) # j /\ Right(j) # j
    BY RoundTable DEF Left, Right
<1>3. /\ \A j \in Philosophers : j # k => state'[j] = state[j] /\ (Asleep(j)' <=> Asleep(j))
      /\ MayEat => state'[k] = "Eating" /\ ~ Asleep(k)'
      /\ ~ MayEat => state'[k] = state[k] /\ (Asleep(k)' <=> Asleep(k))
    <2>1. CASE MayEat
        <3>1. Signal(i, self(k)) /\ state' = [state EXCEPT ![k] = "Eating"]
            BY <2>1 DEF Test
        <3>2. \A u \in Threads : u # k => status'[u] = status[u]
            BY <3>1, SignalEffect DEF Table
        <3>3. ~ Asleep(k)'
            BY <3>1, SignalEffect DEF Table
        <3> QED BY <1>0, <2>1, <3>1, <3>2, <3>3, DiningConstants DEF Asleep
    <2>2. CASE ~ MayEat
        BY <2>2 DEF Test, Asleep, kernelVars
    <2> QED BY <2>1, <2>2
<1> HIDE DEF MayEat
<1>4. Monitor'
    <2>1. MonitorOf(i)'
        BY <1>0, <1>1 DEF MonitorOf, InMonitor
    <2> QED BY <1>0, <1>1, <2>1, MonitorKept, DiningConstants DEF Table, Kept, Monitor
<1>5. StateWell'
    <2>1. ASSUME NEW j \in Philosophers PROVE StateOf(j)'
        <3>1. StateOf(j)
            BY DEF Table, StateWell
        <3>2. CASE j # i /\ j # k
            BY <1>1, <1>3, <3>1, <3>2 DEF StateOf
        <3>3. CASE j = k /\ j # i
            <4>1. MayEat => step[k] \in {"test", "wait", "picked"}
                BY <1>0 DEF MayEat, StateOf
            <4> QED BY <1>1, <1>3, <3>1, <3>3, <4>1 DEF StateOf
        <3>4. CASE j = i /\ k # i
            BY <1>0, <1>1, <1>3, <3>1, <3>4 DEF StateOf
        <3>5. CASE j = i /\ k = i
            BY <1>0, <1>1, <1>2, <1>3, <3>1, <3>5 DEF StateOf
        <3> QED BY <3>2, <3>3, <3>4, <3>5
    <2> QED BY <2>1 DEF StateWell
<1>6. NeighboursDontEat'
    <2> SUFFICES ASSUME NEW j \in Philosophers
                 PROVE  ~ (state'[j] = "Eating" /\ state'[Right(j)] = "Eating")
        BY <1>2 DEF NeighboursDontEat
    <2>1. ~ (state[j] = "Eating" /\ state[Right(j)] = "Eating")
        BY DEF Table, NeighboursDontEat
    <2> QED BY <1>2, <1>3, <2>1 DEF MayEat
<1>7. HungryHeard'
    <2> SUFFICES ASSUME NEW j \in Philosophers, step'[j] \in {"wait", "picked"}, state'[j] = "Hungry"
                 PROVE  Heard(j)'
        BY DEF HungryHeard
    <2>1. \A m \in Philosophers : state[m] = "Eating" => state'[m] = "Eating"
        BY <1>3
    <2>2. CASE j = k
        <3>1. state[Left(k)] = "Eating" \/ state[Right(k)] = "Eating"
            BY <1>3, <2>2 DEF MayEat
        <3> QED BY <1>2, <2>1, <2>2, <3>1 DEF Heard
    <2>3. CASE j # k
        <3>1. Heard(j)
            BY <1>1, <1>3, <2>3 DEF Table, HungryHeard
        <3>2. step[Left(j)] \in {"testLeft", "testRight"} => step'[Left(j)] \in {"testLeft", "testRight"}
            BY <1>1, <1>2, <2>3
        <3>3. step[Right(j)] = "testLeft" => step'[Right(j)] = "testLeft"
            BY <1>1, <1>2, <2>3
        <3> QED BY <1>2, <2>1, <3>1, <3>2, <3>3 DEF Heard
    <2> QED BY <2>2, <2>3
<1> QED BY <1>4, <1>5, <1>6, <1>7 DEF Table

(* pickup's if: a philosopher who may not eat gives the lock back and sleeps *)
(* on his condition, in one step.                                            *)
LEMMA WaitTable ==
    ASSUME SynchInv, TypeOK, Table, NEW i \in Philosophers, WaitStep(i)
    PROVE  Table'
<1>0. /\ i \in Threads /\ pc[i] = "client" /\ MonitorOf(i) /\ StateOf(i) /\ i # NULL
      /\ step \in [Philosophers -> Steps] /\ pc \in [Threads -> PCs]
      /\ step[i] = "wait" /\ UNCHANGED <<state, round>>
      /\ lockOwner \in [Locks -> Threads \cup {NULL}]
      /\ waitsOn \in [Threads -> Queues \cup {NULL}] /\ relock \in [Threads -> Locks \cup {NULL}]
    BY DiningConstants
    DEF Table, Monitor, StateWell, WaitStep, Goto, Executing, TypeOK, KernelTypeOK, SynchTypeOK
<1>1. step'[i] = "picked" /\ \A j \in Philosophers : j # i => step'[j] = step[j]
    BY <1>0 DEF WaitStep, Goto
<1>2. lockOwner[dp] = i
    BY <1>0 DEF MonitorOf, InMonitor
<1>3. CASE state[i] = "Hungry"
    <2>1. Wait(i, self(i), dp)
        BY <1>3 DEF WaitStep
    <2>2. /\ lockOwner' = [lockOwner EXCEPT ![dp] = NULL]
          /\ ReadyToRunAndSleep(i, First(dp))
          /\ pc' = [pc EXCEPT ![i] = "Wait"]
          /\ waitsOn' = [waitsOn EXCEPT ![i] = self(i)]
          /\ relock' = [relock EXCEPT ![i] = dp]
        BY <1>0, <1>2, <2>1 DEF Wait
    <2>3. \A u \in Range(First(dp)) : u # i /\ pc[u] = "P"
        BY <1>0, ReleaseWakes, DiningConstants
    <2>4. Asleep(i)' /\ \A u \in Philosophers : u # i => (Asleep(u)' <=> Asleep(u))
        BY <1>0, <2>2, <2>3, DiningConstants DEF Asleep, ReadyToRunAndSleep
    <2>5. Monitor'
        <3>1. MonitorOf(i)'
            <4>1. lockOwner'[dp] = NULL /\ lockOwner'[lockCon(i)] = lockOwner[lockCon(i)]
                  /\ pc'[i] = "Wait" /\ waitsOn'[i] = self(i) /\ relock'[i] = dp
                BY <1>0, <2>2, DiningConstants
            <4> QED BY <1>0, <1>1, <4>1 DEF MonitorOf
        <3>2. \A u \in Threads : u # i => Kept(u)
            BY <1>0, <2>2 DEF Kept
        <3>3. lockOwner'[dp] = NULL /\ \A j \in Philosophers : lockOwner'[lockCon(j)] = lockOwner[lockCon(j)]
            BY <1>0, <2>2, DiningConstants
        <3> QED BY <1>0, <1>1, <1>2, <3>1, <3>2, <3>3, MonitorKept, DiningConstants DEF Table
    <2>6. StateWell'
        <3>1. StateOf(i)'
            BY <1>0, <1>1, <1>3, <2>4 DEF StateOf
        <3> QED BY <1>0, <1>1, <2>4, <3>1, StatesKept DEF Table
    <2> QED BY <1>0, <1>1, <2>5, <2>6, HeardKept DEF Table, NeighboursDontEat, Right
<1>4. CASE state[i] # "Hungry"
    <2>1. UNCHANGED <<pc, status, lockOwner, waitsOn, relock>>
        BY <1>4 DEF WaitStep, kernelVars, synchVars
    <2>2. Monitor'
        <3>1. MonitorOf(i)'
            BY <1>0, <1>1, <2>1 DEF MonitorOf, InMonitor
        <3> QED BY <1>0, <1>1, <2>1, <3>1, MonitorKept, DiningConstants DEF Table, Kept, Monitor
    <2>3. StateWell'
        <3>1. StateOf(i)'
            BY <1>0, <1>1, <1>4, <2>1 DEF StateOf, Asleep
        <3>2. \A u \in Philosophers : u # i => (Asleep(u)' <=> Asleep(u))
            BY <2>1 DEF Asleep
        <3> QED BY <1>0, <1>1, <3>1, <3>2, StatesKept DEF Table
    <2> QED BY <1>0, <1>1, <2>2, <2>3, HeardKept DEF Table, NeighboursDontEat, Right
<1> QED BY <1>3, <1>4

LEMMA NextTable ==
    ASSUME SynchInv, TypeOK, Table, [Next]_vars
    PROVE  Table'
<1>1. ASSUME NEW i \in Philosophers, Philo(i) PROVE Table'
    <2>1. ASSUME TestStep(i) PROVE Table'
        <3>1. PICK k \in Philosophers :
                  /\ Test(i, k)
                  /\ \/ Goto(i, "test", "wait") /\ k = i
                     \/ Goto(i, "testLeft", "testRight") /\ k = Left(i)
                     \/ Goto(i, "testRight", "put") /\ k = Right(i)
            BY <2>1, RoundTable DEF TestStep
        <3>2. UNCHANGED round
            BY <2>1 DEF TestStep
        <3> QED BY <3>1, <3>2, TestTable
    <2> QED BY <1>1, <2>1, YieldTable, LockTable, SetTable, WaitTable, FinishTable DEF Philo
<1>2. CASE System
    <2>1. CASE \E t \in Threads : ResumeP(t) \/ ResumeWait(t)
        BY <1>2, <2>1, ResumeTable DEF System
    <2>2. CASE (KernelStep \/ Idle \/ Stopped) /\ UNCHANGED synchVars
        BY <1>2, <2>2, SystemTable DEF System
    <2> QED BY <1>2, <2>1, <2>2 DEF System, SystemStep
<1>3. CASE UNCHANGED vars
    <2>1. /\ UNCHANGED <<lockOwner, waitsOn, relock, state, step, round>>
          /\ UNCHANGED <<pc, status>>
        BY <1>3 DEF vars, kernelVars, synchVars, diningVars
    <2>2. Main \in Philosophers /\ pc'[Main] = "finish" => step[Main] = "done"
        BY DiningConstants
    <2> QED BY <2>1, <2>2, KernelKeepsTable, DiningConstants
<1> QED BY <1>1, <1>2, <1>3, ThreadTestTable, SliceTable DEF Next

LEMMA NextTypes ==
    ASSUME SynchInv, SynchInv', TypeOK, Table, [Next]_vars
    PROVE  TypeOK'
<1> USE DEF TypeOK
<1>1. KernelTypeOK' /\ SynchTypeOK'
    BY DEF SynchInv, ThreadInv, PlaceInv, LockInv
<1>2. step' \in [Philosophers -> Steps]
    <2>1. ASSUME NEW i, NEW from, NEW to \in Steps, Goto(i, from, to)
          PROVE  step' \in [Philosophers -> Steps]
        BY <2>1 DEF Goto
    <2>2. {"con", "putdown", "done", "print", "pickup", "hungry", "eat", "thinking", "think",
           "test", "testLeft", "testRight", "put", "wait", "picked"} \subseteq Steps
        BY DEF Steps
    <2>3. ASSUME NEW i \in Philosophers, Philo(i) PROVE step' \in [Philosophers -> Steps]
        <3>1. CASE YieldStep(i)
            BY <2>1, <2>2, <3>1 DEF YieldStep
        <3>2. CASE LockStep(i)
            BY <2>1, <2>2, <3>2 DEF LockStep
        <3>3. CASE SetState(i) \/ TestStep(i) \/ WaitStep(i)
            BY <2>1, <2>2, <3>3 DEF SetState, TestStep, WaitStep
        <3>4. CASE FinishStep(i)
            BY <3>4 DEF FinishStep, diningVars
        <3> QED BY <2>3, <3>1, <3>2, <3>3, <3>4 DEF Philo
    <2>4. ThreadTest \/ System \/ UNCHANGED vars => step' = step
        BY DEF ThreadTest, System, vars, diningVars
    <2> QED BY <2>3, <2>4 DEF Next, TimeSlice
<1>3. state' \in [Philosophers -> {"Thinking", "Hungry", "Eating"}]
    <2>1. ASSUME NEW i \in Philosophers, Philo(i)
          PROVE  state' \in [Philosophers -> {"Thinking", "Hungry", "Eating"}]
        BY <2>1 DEF Philo, YieldStep, LockStep, SetState, TestStep, Test, WaitStep, FinishStep, diningVars
    <2>2. ThreadTest \/ System \/ UNCHANGED vars => state' = state
        BY DEF ThreadTest, System, vars, diningVars
    <2> QED BY <2>1, <2>2 DEF Next, TimeSlice
<1>4. round' \in [Philosophers -> 0 .. Rounds]
    <2>1. ASSUME NEW i \in Philosophers, YieldStep(i)
          PROVE  round' \in [Philosophers -> 0 .. Rounds]
        <3>1. CASE UNCHANGED round
            BY <3>1
        <3>2. CASE step[i] = "think" /\ round' = [round EXCEPT ![i] = @ + 1]
            <4>1. round[i] < Rounds /\ round[i] \in 0 .. Rounds /\ Rounds \in Nat
                BY <3>2, DiningAssumption DEF Table, StateWell, StateOf
            <4>2. round[i] + 1 \in 0 .. Rounds
                BY <4>1
            <4> QED BY <3>2, <4>2
        <3> QED BY <2>1, <3>1, <3>2 DEF YieldStep, Goto
    <2>2. ASSUME NEW i \in Philosophers, Philo(i)
          PROVE  round' \in [Philosophers -> 0 .. Rounds]
        BY <2>1, <2>2 DEF Philo, LockStep, SetState, TestStep, WaitStep, FinishStep, diningVars
    <2>3. ThreadTest \/ System \/ UNCHANGED vars => round' = round
        BY DEF ThreadTest, System, vars, diningVars
    <2> QED BY <2>2, <2>3 DEF Next, TimeSlice
<1>5. slices' \in 0 .. MaxSlices
    <2>1. ASSUME NEW t \in Threads, TimeSlice(t) PROVE slices' \in 0 .. MaxSlices
        BY <2>1, DiningAssumption DEF TimeSlice
    <2>2. ASSUME NEW i \in Philosophers, Philo(i) PROVE slices' = slices
        BY <2>2 DEF Philo, YieldStep, LockStep, SetState, TestStep, WaitStep, FinishStep, diningVars
    <2>3. ThreadTest \/ System \/ UNCHANGED vars => slices' = slices
        BY DEF ThreadTest, System, vars, diningVars
    <2> QED BY <2>1, <2>2, <2>3 DEF Next
<1> QED BY <1>1, <1>2, <1>3, <1>4, <1>5

(* Nothing makes a thread unborn, and main finishes after the last Fork. *)
LEMMA NextForked ==
    ASSUME SynchInv, TypeOK, Table, AllForked, [Next]_vars
    PROVE  AllForked'
<1>0. RoutineStep /\ pc \in [Threads -> PCs] /\ Main \in Threads
    BY DiningIsRoutine, DiningConstants DEF TypeOK, KernelTypeOK
<1>1. \A u \in Threads : status[u] # "JUST_CREATED" => status'[u] # "JUST_CREATED"
    BY <1>0, CreatedForGood
<1>2. ASSUME pc'[Main] = "finish", pc[Main] # "finish"
      PROVE  \A i \in Philosophers : status[i] # "JUST_CREATED"
    <2>1. CASE ThreadTest
        BY <1>2, <2>1 DEF ThreadTest, Fork
    <2>2. ASSUME NEW i \in Philosophers, Philo(i) PROVE FALSE
        <3>0. i # Main /\ i \in Threads
            BY DiningConstants
        <3>1. CASE YieldStep(i)
            BY <1>0, <1>2, <3>0, <3>1 DEF YieldStep, Yield
        <3>2. CASE LockStep(i)
            BY <1>0, <1>2, <3>0, <3>2 DEF LockStep, Acquire, AcquireValue, Release
        <3>3. CASE SetState(i) \/ TestStep(i)
            BY <1>0, <1>2, <3>0, <3>3 DEF SetState, TestStep, Test, Signal, kernelVars
        <3>4. CASE WaitStep(i)
            BY <1>0, <1>2, <3>0, <3>4 DEF WaitStep, Wait, Abort, kernelVars
        <3>5. CASE FinishStep(i)
            BY <1>0, <1>2, <3>0, <3>5 DEF FinishStep, Finish
        <3> QED BY <2>2, <3>1, <3>2, <3>3, <3>4, <3>5 DEF Philo
    <2>3. ASSUME NEW t \in Threads, TimeSlice(t) PROVE FALSE
        BY <1>0, <1>2, <2>3 DEF TimeSlice, Yield
    <2>4. CASE System
        <3>1. CASE KernelStep
            BY <1>0, <1>2, <3>1 DEF KernelStep, Dispatch, ThreadRoot, YieldReturn
        <3>2. ASSUME NEW t \in Threads, ResumeP(t) \/ ResumeWait(t) PROVE FALSE
            BY <1>0, <1>2, <3>2 DEF ResumeP, ResumeWait, AcquireValue
        <3>3. CASE Idle \/ Stopped
            BY <1>2, <3>3 DEF Idle, Stopped, kernelVars
        <3> QED BY <2>4, <3>1, <3>2, <3>3 DEF System, SystemStep
    <2>5. CASE UNCHANGED vars
        BY <1>2, <2>5 DEF vars, kernelVars
    <2> QED BY <2>1, <2>2, <2>3, <2>4, <2>5 DEF Next
<1>3. ASSUME pc'[Main] = "finish", NEW i \in Philosophers PROVE status'[i] # "JUST_CREATED"
    BY <1>1, <1>2, <1>3, DiningConstants DEF AllForked
<1> QED BY <1>3 DEF AllForked

(* The ready list is empty and nobody runs: then nobody can be waiting.  Dp is *)
(* free, for its owner could run; so nobody is in P.  And who sleeps in pickup *)
(* is hungry and heard by somebody who could run, or who sleeps and is hungry, *)
(* which is not eating.                                                        *)
LEMMA IdleMeansDone ==
    ASSUME SynchInv, TypeOK, Table, AllForked, Idle
    PROVE  \A i \in Philosophers : round[i] = Rounds /\ pc[i] = "finish"
<1>1. \A t \in Threads : status[t] \in {"BLOCKED", "JUST_CREATED"}
    <2>1. status \in [Threads -> Statuses] /\ Range(readyList) = {} /\ status[currentThread] # "RUNNING"
        BY EmptyRange DEF TypeOK, KernelTypeOK, Idle, Sleeping
    <2> QED BY <2>1 DEF Statuses, SynchInv, ThreadInv, PlaceInv, Placed
<1>2. pc[Main] = "finish"
    BY <1>1, DiningConstants DEF Table, Monitor, SynchInv, ThreadInv, PlaceInv, Placed
<1>3. \A i \in Philosophers : status[i] = "BLOCKED" /\ pc[i] \in {"P", "Wait", "finish"}
    BY <1>1, <1>2, DiningConstants DEF AllForked, SynchInv, ThreadInv, PlaceInv, Placed
<1>4. \A i \in Philosophers : MonitorOf(i) /\ StateOf(i)
    BY DEF Table, Monitor, StateWell
<1>5. ASSUME NEW i \in Philosophers, pc[i] = "P" PROVE FALSE
    <2> DEFINE l == waitsOn[i]
    <2>0. MonitorOf(i)
        BY <1>4
    <2>1. l \in Locks /\ l \in AllSemaphores /\ l \in Queues /\ (l = dp \/ l = lockCon(i))
        <3>1. l = dp \/ l = lockCon(i)
            BY <1>5, <2>0 DEF MonitorOf
        <3> QED BY <3>1, DiningConstants DEF Queues
    <2>2. i \in Threads /\ i \in Range(queue[l])
        BY <1>3, <1>5, <2>1, DiningConstants DEF SynchInv, ThreadInv, PlaceInv, Placed
    <2>3. queue[l] # <<>>
        BY <2>2, EmptyRange
    <2>4. WokenFor(l) = {}
        <3>1. \A t \in Threads : pc[t] = "P" /\ waitsOn[t] = l => t \in Range(queue[l])
            <4> SUFFICES ASSUME NEW t \in Threads, pc[t] = "P", waitsOn[t] = l
                         PROVE  t \in Range(queue[l])
                OBVIOUS
            <4>1. t \in Philosophers
                BY <1>2, DiningConstants
            <4> QED BY <1>3, <2>1, <4>1 DEF SynchInv, ThreadInv, PlaceInv, Placed
        <3> QED BY <3>1 DEF WokenFor
    <2>5. value[l] = 0
        <3>1. value[l] <= Cardinality(WokenFor(l)) /\ value[l] \in Nat
            BY <2>1, <2>3 DEF SynchInv, WokenSuffice, TypeOK, SynchTypeOK
        <3> QED BY <2>4, <3>1, FS_EmptySet
    <2>6. lockOwner[l] # NULL
        BY <2>1, <2>5 DEF SynchInv, ThreadInv, PlaceInv, LockInv, FreeOrBusy
    <2>7. l = dp
        BY <1>5, <2>0, <2>1, <2>6 DEF MonitorOf
    <2>8. PICK o \in Philosophers : lockOwner[dp] = o
        BY <2>6, <2>7 DEF Table, Monitor
    <2>9. InMonitor(o) /\ pc[o] = "finish"
        BY <1>3, <1>4, <2>8 DEF MonitorOf
    <2> QED BY <1>4, <2>9 DEF MonitorOf, InMonitor
<1>6. \A i \in Philosophers : \/ pc[i] = "finish" /\ step[i] = "done" /\ state[i] = "Thinking"
                              \/ pc[i] = "Wait" /\ step[i] = "picked" /\ state[i] = "Hungry"
    <2> TAKE i \in Philosophers
    <2>1. CASE pc[i] = "finish"
        BY <1>4, <2>1 DEF MonitorOf, StateOf
    <2>2. CASE pc[i] = "Wait"
        BY <1>3, <1>4, <2>2 DEF MonitorOf, StateOf, Asleep
    <2> QED BY <1>3, <1>5, <2>1, <2>2
<1>7. ASSUME NEW i \in Philosophers, pc[i] = "Wait" PROVE FALSE
    <2>1. Heard(i)
        BY <1>6, <1>7 DEF Table, HungryHeard
    <2> QED BY <1>6, <2>1, RoundTable DEF Heard
<1>8. \A i \in Philosophers : round[i] = Rounds
    <2> TAKE i \in Philosophers
    <2>1. ~ (round[i] < Rounds) /\ round[i] \in 0 .. Rounds /\ Rounds \in Nat
        BY <1>4, <1>6, <1>7, DiningAssumption DEF StateOf, TypeOK
    <2> QED BY <2>1
<1> QED BY <1>6, <1>7, <1>8

LEMMA NextHalts ==
    ASSUME SynchInv, TypeOK, Table, AllForked, HaltsWhenDone, [Next]_vars
    PROVE  HaltsWhenDone'
<1>1. ASSUME UNCHANGED <<machine, pc, round>> PROVE HaltsWhenDone'
    BY <1>1 DEF HaltsWhenDone
<1>2. ASSUME machine' = "up" PROVE HaltsWhenDone'
    BY <1>2 DEF HaltsWhenDone
<1>3. CASE System
    <2>1. CASE Idle
        <3>1. machine' = "halted" /\ pc' = pc /\ round' = round
            BY <1>3, <2>1 DEF System, Idle, SystemStep, KernelStep, Dispatch, diningVars
        <3> QED BY <2>1, <3>1, IdleMeansDone DEF HaltsWhenDone
    <2>2. CASE Stopped
        BY <1>1, <1>3, <2>2 DEF System, Stopped, kernelVars, diningVars
    <2>3. CASE SystemStep
        BY <1>2, <2>3 DEF SystemStep, KernelStep, Dispatch, ThreadRoot, YieldReturn, ResumeP,
                          ResumeWait, Sleeping, Resuming
    <2> QED BY <1>3, <2>1, <2>2, <2>3 DEF System
<1>4. ASSUME NEW i \in Philosophers, Philo(i) PROVE HaltsWhenDone'
    <2>1. CASE YieldStep(i) \/ FinishStep(i)
        BY <1>2, <2>1 DEF YieldStep, Yield, FinishStep, Finish, Executing
    <2>2. CASE LockStep(i)
        BY <1>2, <2>2 DEF LockStep, Acquire, Release, Executing
    <2>3. CASE SetState(i) \/ TestStep(i)
        BY <1>2, <2>3 DEF SetState, TestStep, Test, Signal, Executing, kernelVars
    <2>4. CASE WaitStep(i)
        <3>1. pc[i] = "client" /\ step[i] = "wait" /\ MonitorOf(i)
            BY <2>4 DEF WaitStep, Executing, Goto, Table, Monitor
        <3>2. lockOwner[dp] = i /\ i # NULL
            BY <3>1, DiningConstants DEF MonitorOf, InMonitor
        <3> QED BY <1>2, <2>4, <3>2 DEF WaitStep, Wait, Executing, kernelVars
    <2> QED BY <1>4, <2>1, <2>2, <2>3, <2>4 DEF Philo
<1>5. CASE ThreadTest \/ \E t \in Threads : TimeSlice(t)
    BY <1>2, <1>5 DEF ThreadTest, Fork, Finish, TimeSlice, Yield, Executing
<1>6. CASE UNCHANGED vars
    BY <1>1, <1>6 DEF vars, kernelVars, diningVars
<1> QED BY <1>3, <1>4, <1>5, <1>6 DEF Next

-----------------------------------------------------------------------------
LEMMA DiningInit == Init => DiningInv
<1> SUFFICES ASSUME Init PROVE DiningInv
    OBVIOUS
<1>1. SynchInv
    BY RoutineInit DEF Init
<1>2. TypeOK
    <2>1. KernelTypeOK /\ SynchTypeOK
        BY <1>1 DEF SynchInv, ThreadInv, PlaceInv, LockInv
    <2> QED BY <2>1, DiningAssumption DEF Init, TypeOK, Steps
<1>3. \A i \in Philosophers : pc[i] = "new" /\ step[i] = "start" /\ state[i] = "Thinking" /\ round[i] = 0
    BY DiningConstants DEF Init, KernelInit
<1>4. Monitor
    <2>1. pc[Main] = "client" /\ \A l \in Locks : lockOwner[l] = NULL
        BY DiningConstants DEF Init, KernelInit, SynchInit
    <2>2. ASSUME NEW i \in Philosophers PROVE MonitorOf(i)
        BY <1>3, <2>1, DiningConstants DEF MonitorOf, InMonitor
    <2> QED BY <2>1, <2>2, DiningConstants DEF Monitor
<1>5. StateWell
    BY <1>3, DiningAssumption DEF StateWell, StateOf
<1>6. NeighboursDontEat /\ HungryHeard
    BY <1>3 DEF NeighboursDontEat, HungryHeard
<1>7. AllForked /\ HaltsWhenDone
    BY DiningConstants DEF Init, KernelInit, AllForked, HaltsWhenDone
<1> QED BY <1>1, <1>2, <1>4, <1>5, <1>6, <1>7 DEF DiningInv

LEMMA DiningStep == DiningInv /\ [Next]_vars => DiningInv'
<1> SUFFICES ASSUME DiningInv, [Next]_vars PROVE DiningInv'
    OBVIOUS
<1>1. SynchInv /\ TypeOK /\ Table /\ AllForked /\ HaltsWhenDone
    BY DEF DiningInv, Table
<1>2. SynchInv'
    BY <1>1, DiningIsRoutine, RoutineStepInv
<1>3. TypeOK' /\ Table' /\ AllForked' /\ HaltsWhenDone'
    BY <1>1, <1>2, NextTypes, NextTable, NextForked, NextHalts
<1> QED BY <1>2, <1>3 DEF DiningInv, Table

LEMMA DiningInvariant == Spec => []DiningInv
BY DiningInit, DiningStep, PTL DEF Spec

(* The variables of the table and of the kernel keep their types. *)
THEOREM DiningTypes == Spec => []TypeOK
<1>1. DiningInv => TypeOK
    BY DEF DiningInv
<1> QED BY <1>1, DiningInvariant, PTL

(* However many sit at the table and however the timer cuts, two neighbours *)
(* are never both in state Eating.                                          *)
THEOREM NeighboursNeverEatTogether == Spec => []NeighboursDontEat
<1>1. DiningInv => NeighboursDontEat
    BY DEF DiningInv
<1> QED BY <1>1, DiningInvariant, PTL

(* pickup's single if is enough: whoever returns from pickup is eating, though *)
(* Wait gave the lock away in between.                                        *)
THEOREM PickupReturnsEating == Spec => []PickupMeansEating
<1>1. DiningInv => PickupMeansEating
    BY DEF DiningInv, StateWell, StateOf, Asleep, TypeOK, PickupMeansEating
<1> QED BY <1>1, DiningInvariant, PTL

(* Every statement between Acquire and Release of dp is executed by its owner. *)
THEOREM MonitorHasOwner == Spec => []MonitorIsLocked
<1>1. DiningInv => MonitorIsLocked
    BY DEF DiningInv, Monitor, MonitorOf, InMonitor, MonitorIsLocked
<1> QED BY <1>1, DiningInvariant, PTL

(* The table cannot deadlock, nor Wait fail its ASSERT: NachOS stops only by *)
(* halting, when every philosopher has eaten all his rounds and finished.    *)
THEOREM TableNeverDeadlocks == Spec => []HaltsWhenDone
<1>1. DiningInv => HaltsWhenDone
    BY DEF DiningInv
<1> QED BY <1>1, DiningInvariant, PTL
=============================================================================
