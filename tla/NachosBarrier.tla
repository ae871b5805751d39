----------------------------- MODULE NachosBarrier -----------------------------
(***************************************************************************)
(* The class Barrier of threads/synch.cc and threads that meet at it once. *)
(* Its sem_lock never makes anybody wait: P, the code between and V run    *)
(* with interrupts off and do not sleep, so its value is 1 at every call   *)
(* and is left out.                                                        *)
(***************************************************************************)
EXTENDS NachosSynch

CONSTANT barrierCount   \* how many threads the barrier waits for

VARIABLES
    barrierCountCurrent,  \* Barrier::barrierCountCurrent
    arrived               \* the threads that have called Barrier::Wait

barrierVars == <<barrierCountCurrent, arrived>>
vars == <<kernelVars, synchVars, barrierVars>>

Init ==
    /\ KernelInit /\ SynchInit
    /\ barrierCountCurrent = 0
    /\ arrived = {}

(* Barrier::Wait. The last thread to arrive only resets the count; the     *)
(* others go to sleep without being on any queue.                          *)
BarrierWait(t) ==
    /\ Executing(t)
    /\ t \notin arrived /\ arrived' = arrived \cup {t}
    /\ IF barrierCountCurrent + 1 = barrierCount
       THEN /\ barrierCountCurrent' = 0
            /\ UNCHANGED kernelVars
       ELSE /\ barrierCountCurrent' = barrierCountCurrent + 1
            /\ ReadyToRunAndSleep(t, <<>>)
            /\ oldLevel' = [oldLevel EXCEPT ![t] = level]
            /\ pc' = [pc EXCEPT ![t] = "Barrier"]
            /\ UNCHANGED <<currentThread, threadToBeDestroyed, destroyed, machine>>
    /\ UNCHANGED synchVars

(* Barrier::Wait when SWITCH returns. *)
BarrierReturn(t) ==
    /\ Resuming(t)
    /\ pc[t] = "Barrier"
    /\ DeleteCarcass
    /\ level' = oldLevel[t]
    /\ pc' = [pc EXCEPT ![t] = "client"]
    /\ UNCHANGED <<currentThread, status, readyList, oldLevel, machine>>
    /\ UNCHANGED <<synchVars, barrierVars>>

ThreadCall(t) ==
    /\ \/ Yield(t)
       \/ t \in arrived /\ Finish(t)
       \/ \E u \in Threads : Fork(t, u)
    /\ UNCHANGED <<synchVars, barrierVars>>

System ==
    /\ \/ SystemStep
       \/ Idle /\ UNCHANGED synchVars
       \/ Stopped /\ UNCHANGED synchVars
    /\ UNCHANGED barrierVars

Next ==
    \/ \E t \in Threads : BarrierWait(t) \/ BarrierReturn(t) \/ ThreadCall(t)
    \/ System

Spec == Init /\ [][Next]_vars /\ WF_vars(Next)

-----------------------------------------------------------------------------
(* synch.h:161-162: once the required threads arrive at the barrier point,  *)
(* they can continue. All of them have arrived when the count is 0 again.   *)
BarrierOpens == \A t \in Threads :
    pc[t] = "Barrier" /\ barrierCountCurrent = 0 ~> pc[t] # "Barrier"
=============================================================================
