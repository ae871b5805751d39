------------------------------- MODULE DiningPh -------------------------------
(***************************************************************************)
(* The dining philosophers monitor (threads/diningph.cc) and the threads   *)
(* that use it (Philo and ThreadTest in threads/threadtest.cc), running on *)
(* the kernel's threads, locks and condition variables.                    *)
(***************************************************************************)
EXTENDS NachosSynch, Integers

CONSTANTS
    N,       \* philosophers (5 in the code)
    Rounds,  \* times a philosopher eats (10 in the code)
    MaxSlices  \* time slices the timer ends, at most

Philosophers == 0 .. N - 1
Left(i) == (i + N - 1) % N
Right(i) == (i + 1) % N

dp == <<"dp", 0>>                \* DiningPh::dp
self(i) == <<"self", i>>         \* DiningPh::self
lockCon(i) == <<"lock_con", i>>  \* the local lock of each Philo

ASSUME DiningAssumption ==
    /\ N \in Nat \ {0, 1} /\ Rounds \in Nat \ {0} /\ MaxSlices \in Nat
    /\ Threads = Philosophers \cup {Main} /\ Main \notin Philosophers
    /\ Semaphores = {}
    /\ Locks = {dp} \cup {lockCon(i) : i \in Philosophers}
    /\ Conditions = {self(i) : i \in Philosophers}

VARIABLES
    state,  \* DiningPh::state
    step,   \* the statement each philosopher is at
    round,  \* the loop counter of each Philo
    slices  \* time slices ended by the timer so far

diningVars == <<state, step, round, slices>>
vars == <<kernelVars, synchVars, diningVars>>

Steps == {"start", "con", "print", "pickup", "hungry", "test", "wait", "picked",
          "eat", "putdown", "thinking", "testLeft", "testRight", "put", "think", "done"}

Init ==
    /\ KernelInit /\ SynchInit
    /\ state = [i \in Philosophers |-> "Thinking"]
    /\ step = [i \in Philosophers |-> "start"]
    /\ round = [i \in Philosophers |-> 0]
    /\ slices = 0

-----------------------------------------------------------------------------
(* ThreadTest forks the philosophers in order and main finishes. *)
ThreadTest ==
    /\ \/ \E i \in Philosophers :
             /\ \A j \in Philosophers : status[j] = "JUST_CREATED" <=> j >= i
             /\ Fork(Main, i)
       \/ (\A i \in Philosophers : status[i] # "JUST_CREATED") /\ Finish(Main)
    /\ UNCHANGED <<synchVars, diningVars>>

(* Philosopher i goes from one statement of Philo to the next. *)
Goto(i, from, to) == step[i] = from /\ step' = [step EXCEPT ![i] = to]

YieldStep(i) ==
    /\ Yield(i)
    /\ \/ Goto(i, "start", "con") /\ UNCHANGED round
       \/ Goto(i, "eat", "putdown") /\ UNCHANGED round
       \/ /\ Goto(i, "think", IF round[i] + 1 = Rounds THEN "done" ELSE "con")
          /\ round' = [round EXCEPT ![i] = @ + 1]
    /\ UNCHANGED <<synchVars, state, slices>>

LockStep(i) ==
    /\ \/ Goto(i, "con", "print") /\ Acquire(i, lockCon(i))
       \/ Goto(i, "print", "pickup") /\ Release(i, lockCon(i))
       \/ Goto(i, "pickup", "hungry") /\ Acquire(i, dp)
       \/ Goto(i, "picked", "eat") /\ Release(i, dp)
       \/ Goto(i, "putdown", "thinking") /\ Acquire(i, dp)
       \/ Goto(i, "put", "think") /\ Release(i, dp)
    /\ UNCHANGED <<state, round, slices>>

(* Mutant of SetState: putdown leaves the philosopher Eating. *)
SetStateHungryOnly(i) ==
    /\ Executing(i)
    /\ \/ Goto(i, "hungry", "test") /\ state' = [state EXCEPT ![i] = "Hungry"]
       \/ Goto(i, "thinking", "testLeft") /\ UNCHANGED state
    /\ UNCHANGED <<kernelVars, synchVars, round, slices>>

SetState(i) ==
    /\ Executing(i)
    /\ \/ Goto(i, "hungry", "test") /\ state' = [state EXCEPT ![i] = "Hungry"]
       \/ Goto(i, "thinking", "testLeft") /\ state' = [state EXCEPT ![i] = "Thinking"]
    /\ UNCHANGED <<kernelVars, synchVars, round, slices>>

(* Mutants of Test: the left neighbour is not looked at; the signal is sent *)
(* to a hungry philosopher who may not eat.                                 *)
TestOneSide(i, k) ==
    /\ Executing(i)
    /\ IF state[k] = "Hungry" /\ state[Right(k)] # "Eating"
       THEN state' = [state EXCEPT ![k] = "Eating"] /\ Signal(i, self(k))
       ELSE UNCHANGED <<kernelVars, synchVars, state>>

TestAlwaysSignals(i, k) ==
    /\ IF state[Left(k)] # "Eating" /\ state[k] = "Hungry" /\ state[Right(k)] # "Eating"
       THEN state' = [state EXCEPT ![k] = "Eating"]
       ELSE UNCHANGED state
    /\ Signal(i, self(k))

(* DiningPh::test(k), called by philosopher i. *)
Test(i, k) ==
    /\ Executing(i)
    /\ IF state[Left(k)] # "Eating" /\ state[k] = "Hungry" /\ state[Right(k)] # "Eating"
       THEN state' = [state EXCEPT ![k] = "Eating"] /\ Signal(i, self(k))
       ELSE UNCHANGED <<kernelVars, synchVars, state>>

(* Mutant of TestStep: putdown tests the left neighbour only. *)
TestStepLeftOnly(i) ==
    /\ \/ Goto(i, "test", "wait") /\ Test(i, i)
       \/ Goto(i, "testLeft", "put") /\ Test(i, Left(i))
    /\ UNCHANGED <<round, slices>>

TestStep(i) ==
    /\ \/ Goto(i, "test", "wait") /\ Test(i, i)
       \/ Goto(i, "testLeft", "testRight") /\ Test(i, Left(i))
       \/ Goto(i, "testRight", "put") /\ Test(i, Right(i))
    /\ UNCHANGED <<round, slices>>

(* pickup waits with an "if": the state is not looked at again afterwards. *)
WaitStep(i) ==
    /\ Executing(i)
    /\ Goto(i, "wait", "picked")
    /\ IF state[i] = "Hungry" THEN Wait(i, self(i), dp)
       ELSE UNCHANGED <<kernelVars, synchVars>>
    /\ UNCHANGED <<state, round, slices>>

FinishStep(i) ==
    /\ step[i] = "done" /\ Finish(i)
    /\ UNCHANGED <<synchVars, diningVars>>

Philo(i) ==
    \/ YieldStep(i) \/ LockStep(i) \/ SetState(i)
    \/ TestStep(i) \/ WaitStep(i) \/ FinishStep(i)

(* The timer's time slice (nachos -rs) ends while interrupts are on. *)
TimeSlice(t) ==
    /\ level = "On" /\ readyList # <<>>
    /\ slices < MaxSlices /\ slices' = slices + 1
    /\ Yield(t) /\ UNCHANGED <<synchVars, state, step, round>>

System ==
    /\ \/ SystemStep
       \/ Idle /\ UNCHANGED synchVars
       \/ Stopped /\ UNCHANGED synchVars
    /\ UNCHANGED diningVars

Next ==
    \/ ThreadTest
    \/ \E i \in Philosophers : Philo(i)
    \/ \E t \in Threads : TimeSlice(t)
    \/ System

(* The CPU never stands still. *)
Spec == Init /\ [][Next]_vars /\ WF_vars(Next)

-----------------------------------------------------------------------------
TypeOK ==
    /\ KernelTypeOK /\ SynchTypeOK
    /\ state \in [Philosophers -> {"Thinking", "Hungry", "Eating"}]
    /\ step \in [Philosophers -> Steps]
    /\ round \in [Philosophers -> 0 .. Rounds]
    /\ slices \in 0 .. MaxSlices

(* Two neighbours never eat at the same time. *)
NeighboursDontEat == \A i \in Philosophers :
    ~ (state[i] = "Eating" /\ state[Right(i)] = "Eating")

(* A philosopher who comes back from pickup is eating, though pickup does   *)
(* not test again after Wait and the lock was free for others in between.   *)
PickupMeansEating == \A i \in Philosophers :
    pc[i] = "client" /\ step[i] \in {"picked", "eat", "putdown", "thinking"}
        => state[i] = "Eating"

(* Whoever runs a statement of the monitor owns dp. *)
MonitorIsLocked == \A i \in Philosophers :
    pc[i] = "client" /\ step[i] \in {"hungry", "test", "wait", "picked",
                                    "thinking", "testLeft", "testRight", "put"}
        => lockOwner[dp] = i

(* The ready list runs dry, and NachOS halts, only when everybody is done. *)
HaltsWhenDone == machine # "up" =>
    machine = "halted" /\ \A i \in Philosophers : round[i] = Rounds /\ pc[i] = "finish"

(* Every hungry philosopher eats, though the monitor keeps no order among    *)
(* the hungry: the neighbours' rounds run out and their last putdown tests   *)
(* for him.                                                                  *)
HungryEats == \A i \in Philosophers :
    state[i] = "Hungry" ~> state[i] = "Eating"
=============================================================================
