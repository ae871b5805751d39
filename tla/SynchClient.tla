----------------------------- MODULE SynchClient -----------------------------
(***************************************************************************)
(* Threads that call the kernel's thread and synchronization routines in   *)
(* every possible order: the most general client of threads/synch.cc.      *)
(***************************************************************************)
EXTENDS NachosSynch, FiniteSets

CONSTANT MaxValue   \* the client does no V on a semaphore that holds this much

routineVars == <<kernelVars, synchVars>>

ClientInit == KernelInit /\ SynchInit

ThreadCall(t) ==
    \/ Yield(t) /\ UNCHANGED synchVars
    \/ Finish(t) /\ UNCHANGED synchVars
    \/ \E u \in Threads : Fork(t, u) /\ UNCHANGED synchVars

SemaphoreCall(t) == \E s \in Semaphores :
    \/ P(t, s)
    \/ value[s] < MaxValue /\ V(t, s)
    \/ Destroy(t, s)

(* Nothing in Mutex::Unlock asks for the owner: the convention is kept here. *)
LockCall(t) == \E l \in Locks :
    \/ Acquire(t, l)
    \/ Release(t, l)
    \/ lockOwner[l] = t /\ Unlock(t, l)

ConditionCall(t) == \E c \in Conditions :
    \/ \E l \in Locks : Wait(t, c, l)
    \/ Signal(t, c)
    \/ Broadcast(t, c)

ClientCall(t) == ThreadCall(t) \/ SemaphoreCall(t) \/ LockCall(t) \/ ConditionCall(t)

ClientNext ==
    \/ \E t \in Threads : ClientCall(t)
    \/ SystemStep
    \/ Idle /\ UNCHANGED synchVars
    \/ Stopped /\ UNCHANGED synchVars

ClientSpec == ClientInit /\ [][ClientNext]_routineVars

-----------------------------------------------------------------------------
ClientTypeOK == KernelTypeOK /\ SynchTypeOK

Occurrences(q, t) == Cardinality({i \in DOMAIN q : q[i] = t})

(* Every thread is in one place: the CPU, the ready list (once), the queue  *)
(* of the object its routine waits for (once), or finished.  A thread lost  *)
(* by a wakeup, or queued twice, would break it.                            *)
OnePlace == \A t \in Threads :
    /\ status[t] = "RUNNING" => currentThread = t
    /\ Occurrences(readyList, t) = IF status[t] = "READY" THEN 1 ELSE 0
    /\ \A q \in Queues : Occurrences(queue[q], t) =
            IF status[t] = "BLOCKED" /\ pc[t] # "finish" /\ waitsOn[t] = q
            THEN 1 ELSE 0
    /\ status[t] = "BLOCKED" => pc[t] \in {"P", "Wait", "finish"}
    /\ status[t] = "JUST_CREATED" => pc[t] = "new"

(* The threads V has taken out of the queue of s that have not run since. *)
Woken(s) == {t \in Threads : /\ pc[t] = "P" /\ waitsOn[t] = s
                             /\ \A i \in DOMAIN queue[s] : queue[s][i] # t}

(* While threads sleep on a semaphore, every unit of its value has a woken *)
(* thread coming for it, although V wakes one thread at a time, a woken    *)
(* thread can find the value gone and a newcomer can take it first.        *)
NoLostWakeup == \A s \in AllSemaphores :
    queue[s] # <<>> => value[s] <= Cardinality(Woken(s))

(* A lock is FREE (value 1) or BUSY (value 0), and it is BUSY exactly when *)
(* it has an owner.                                                        *)
LockState == \A l \in Locks : value[l] = IF lockOwner[l] = NULL THEN 1 ELSE 0

(* A lock only leaves its owner by the owner's own Release or Wait: no step *)
(* hands a lock from one thread to another or takes it from a thread that   *)
(* does not have the CPU.                                                   *)
OwnerKeepsLock == [][\A l \in Locks :
    lockOwner[l] # NULL /\ lockOwner'[l] # lockOwner[l] =>
        lockOwner'[l] = NULL /\ currentThread = lockOwner[l]]_routineVars

(* The owner of a lock runs with interrupts off until it gives the CPU away *)
(* itself, and again when it gets it back: Acquire leaves them off, so no   *)
(* time slice ever ends inside a critical section.                          *)
OwnerUninterrupted == \A l \in Locks : \A t \in Threads :
    lockOwner[l] = t =>
        /\ currentThread = t /\ pc[t] = "client" => level = "Off"
        /\ pc[t] \in {"yield", "P"} => oldLevel[t] = "Off"

(* ~Thread only runs for threads that can never run again (its ASSERT). *)
DestroyedIsGone == \A t \in destroyed \cup ({threadToBeDestroyed} \ {NULL}) :
    /\ pc[t] = "finish" /\ status[t] = "BLOCKED"
    /\ t \in destroyed => currentThread # t
=============================================================================
