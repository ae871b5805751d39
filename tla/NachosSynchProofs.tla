--------------------------- MODULE NachosSynchProofs ---------------------------
(***************************************************************************)
(* What the routines of NachosKernel and NachosSynch preserve, whoever     *)
(* calls them: the facts every module built on them starts from.  At the   *)
(* end, what they guarantee the threads of SynchClient.                    *)
(***************************************************************************)
EXTENDS SynchClient, SequenceTheorems, FiniteSetTheorems, TLAPS

(* A thread inside P or Wait knows the object it has to go on with. *)
WaitsWell == \A t \in Threads :
    /\ pc[t] = "P" => waitsOn[t] \in AllSemaphores
    /\ pc[t] = "Wait" => waitsOn[t] \in Conditions /\ relock[t] \in Locks

(* A lock is FREE (value 1) without an owner and BUSY (value 0) with one. *)
FreeOrBusy == \A l \in Locks : value[l] = IF lockOwner[l] = NULL THEN 1 ELSE 0

LockInv == KernelTypeOK /\ SynchTypeOK /\ WaitsWell /\ FreeOrBusy

-----------------------------------------------------------------------------
(* What List::Remove takes out and leaves is a list of threads. *)
LEMMA FirstRestType ==
    ASSUME SynchTypeOK, NEW q \in Queues
    PROVE  First(q) \in Seq(Threads) /\ Rest(q) \in Seq(Threads)
<1>1. queue[q] \in Seq(Threads)
    BY DEF SynchTypeOK
<1>2. CASE queue[q] = <<>>
    BY <1>1, <1>2 DEF First, Rest
<1>3. CASE queue[q] # <<>>
    BY <1>1, <1>3, HeadTailProperties DEF First, Rest
<1> QED BY <1>2, <1>3

(* Readying threads keeps the ready list and the statuses well typed. *)
LEMMA ReadyToRunType ==
    ASSUME KernelTypeOK, NEW woken \in Seq(Threads), ReadyToRun(woken)
    PROVE  readyList' \in Seq(Threads) /\ status' \in [Threads -> Statuses]
<1>1. readyList' \in Seq(Threads)
    BY ConcatProperties DEF KernelTypeOK, ReadyToRun
<1>2. status' \in [Threads -> Statuses]
    BY DEF KernelTypeOK, ReadyToRun, Statuses
<1> QED BY <1>1, <1>2

LEMMA ReadyToRunAndSleepType ==
    ASSUME KernelTypeOK, NEW t \in Threads, NEW woken \in Seq(Threads),
           ReadyToRunAndSleep(t, woken)
    PROVE  /\ readyList' \in Seq(Threads) /\ status' \in [Threads -> Statuses]
           /\ level' \in Levels
<1>1. readyList' \in Seq(Threads)
    BY ConcatProperties DEF KernelTypeOK, ReadyToRunAndSleep
<1>2. status' \in [Threads -> Statuses]
    BY DEF KernelTypeOK, ReadyToRunAndSleep, Statuses
<1>3. level' \in Levels
    BY DEF ReadyToRunAndSleep, Levels
<1> QED BY <1>1, <1>2, <1>3

(* The destructor's bookkeeping is well typed. *)
LEMMA DeleteCarcassType ==
    ASSUME KernelTypeOK, DeleteCarcass
    PROVE  threadToBeDestroyed' \in Threads \cup {NULL} /\ destroyed' \subseteq Threads
BY DEF KernelTypeOK, DeleteCarcass

(* P's test, or its retest, preserves the invariant. *)
LEMMA AcquireValueInv ==
    ASSUME LockInv, NEW t \in Threads, NEW s \in AllSemaphores, NEW saved \in Levels,
           AcquireValue(t, s, saved),
           UNCHANGED <<currentThread, machine>>,
           threadToBeDestroyed' \in Threads \cup {NULL}, destroyed' \subseteq Threads
    PROVE  LockInv'
<1> USE DEF LockInv
<1>1. CASE value[s] # 0
    <2>1. KernelTypeOK'
        BY <1>1 DEF AcquireValue, KernelTypeOK, PCs
    <2>2. SynchTypeOK'
        <3>1. value' \in [AllSemaphores -> Nat]
            <4>1. value[s] - 1 \in Nat
                BY <1>1 DEF SynchTypeOK
            <4> QED BY <1>1, <4>1 DEF AcquireValue, SynchTypeOK
        <3>2. lockOwner' \in [Locks -> Threads \cup {NULL}]
            BY <1>1 DEF AcquireValue, SynchTypeOK
        <3>3. /\ waitsOn' \in [Threads -> Queues \cup {NULL}]
              /\ relock' \in [Threads -> Locks \cup {NULL}]
              /\ queue' \in [Queues -> Seq(Threads)]
            BY <1>1 DEF AcquireValue, SynchTypeOK
        <3> QED BY <3>1, <3>2, <3>3 DEF SynchTypeOK
    <2>3. WaitsWell'
        BY <1>1 DEF AcquireValue, WaitsWell, KernelTypeOK, SynchTypeOK
    <2>4. FreeOrBusy'
        BY <1>1, KernelAssumption, SynchAssumption
        DEF AcquireValue, FreeOrBusy, SynchTypeOK, AllSemaphores
    <2> QED BY <2>1, <2>2, <2>3, <2>4
<1>2. CASE value[s] = 0
    <2>0. <<>> \in Seq(Threads)
        OBVIOUS
    <2>1. KernelTypeOK'
        BY <1>2, <2>0, ReadyToRunAndSleepType DEF AcquireValue, KernelTypeOK, PCs
    <2>2. SynchTypeOK'
        <3>1. Append(queue[s], t) \in Seq(Threads)
            BY AppendProperties DEF SynchTypeOK, Queues
        <3>2. s \in Queues
            BY DEF Queues
        <3> QED BY <1>2, <3>1, <3>2 DEF AcquireValue, SynchTypeOK
    <2>3. WaitsWell'
        BY <1>2 DEF AcquireValue, WaitsWell, KernelTypeOK, SynchTypeOK
    <2>4. FreeOrBusy'
        BY <1>2 DEF AcquireValue, FreeOrBusy
    <2> QED BY <2>1, <2>2, <2>3, <2>4
<1> QED BY <1>1, <1>2

(* V's effect on the queues, the values and the ready list is well typed. *)
LEMMA ReleaseValueType ==
    ASSUME KernelTypeOK, SynchTypeOK, NEW s \in AllSemaphores, ReleaseValue(s)
    PROVE  /\ value' \in [AllSemaphores -> Nat]
           /\ queue' \in [Queues -> Seq(Threads)]
           /\ readyList' \in Seq(Threads) /\ status' \in [Threads -> Statuses]
<1>0. s \in Queues
    BY DEF Queues
<1>1. First(s) \in Seq(Threads) /\ Rest(s) \in Seq(Threads)
    BY <1>0, FirstRestType
<1>2. value' \in [AllSemaphores -> Nat]
    BY DEF ReleaseValue, SynchTypeOK
<1>3. queue' \in [Queues -> Seq(Threads)]
    BY <1>0, <1>1 DEF ReleaseValue, SynchTypeOK
<1>4. readyList' \in Seq(Threads) /\ status' \in [Threads -> Statuses]
    BY <1>1, ReadyToRunType DEF ReleaseValue
<1> QED BY <1>2, <1>3, <1>4

(* Giving back a lock, by Release or Unlock, preserves the invariant if the *)
(* lock has an owner.                                                       *)
LEMMA ReleaseLockInv ==
    ASSUME LockInv, NEW l \in Locks, lockOwner[l] # NULL,
           ReleaseValue(l), lockOwner' = [lockOwner EXCEPT ![l] = NULL],
           UNCHANGED <<currentThread, level, oldLevel, pc, threadToBeDestroyed,
                       destroyed, machine, waitsOn, relock>>
    PROVE  LockInv'
<1> USE DEF LockInv
<1>0. l \in AllSemaphores
    BY DEF AllSemaphores
<1>1. KernelTypeOK'
    BY <1>0, ReleaseValueType DEF KernelTypeOK
<1>2. SynchTypeOK'
    <2>1. lockOwner' \in [Locks -> Threads \cup {NULL}]
        BY DEF SynchTypeOK
    <2> QED BY <1>0, <2>1, ReleaseValueType DEF SynchTypeOK
<1>3. WaitsWell'
    BY DEF WaitsWell
<1>4. FreeOrBusy'
    BY <1>0 DEF FreeOrBusy, ReleaseValue, SynchTypeOK, AllSemaphores
<1> QED BY <1>1, <1>2, <1>3, <1>4

(* Steps of the kernel alone preserve the invariant: no thread enters P or  *)
(* Wait by them.                                                            *)
LEMMA KernelInv ==
    ASSUME LockInv, UNCHANGED synchVars, KernelTypeOK',
           \A t \in Threads : pc'[t] \in {"P", "Wait"} => pc'[t] = pc[t]
    PROVE  LockInv'
<1> USE DEF LockInv, synchVars
<1>1. SynchTypeOK'
    BY DEF SynchTypeOK
<1>2. WaitsWell'
    BY DEF WaitsWell
<1>3. FreeOrBusy'
    BY DEF FreeOrBusy
<1> QED BY <1>1, <1>2, <1>3

LEMMA YieldInv ==
    ASSUME LockInv, NEW t \in Threads, Yield(t), UNCHANGED synchVars
    PROVE  LockInv'
<1>1. CASE readyList = <<>>
    BY <1>1, KernelInv DEF Yield, LockInv, KernelTypeOK
<1>2. CASE readyList # <<>>
    <2>1. Head(readyList) \in Threads /\ Append(Tail(readyList), t) \in Seq(Threads)
        BY <1>2, HeadTailProperties, AppendProperties DEF LockInv, KernelTypeOK
    <2>2. KernelTypeOK'
        BY <1>2, <2>1 DEF Yield, LockInv, KernelTypeOK, Statuses, PCs, Levels
    <2>3. \A u \in Threads : pc'[u] \in {"P", "Wait"} => pc'[u] = pc[u]
        BY <1>2 DEF Yield, LockInv, KernelTypeOK
    <2> QED BY <2>2, <2>3, KernelInv
<1> QED BY <1>1, <1>2

LEMMA FinishInv ==
    ASSUME LockInv, NEW t \in Threads, Finish(t), UNCHANGED synchVars
    PROVE  LockInv'
<1> USE DEF LockInv
<1>0. <<>> \in Seq(Threads)
    OBVIOUS
<1>1. KernelTypeOK'
    BY <1>0, ReadyToRunAndSleepType DEF Finish, KernelTypeOK, PCs
<1>2. \A u \in Threads : pc'[u] \in {"P", "Wait"} => pc'[u] = pc[u]
    BY DEF Finish, KernelTypeOK
<1> QED BY <1>1, <1>2, KernelInv

LEMMA ForkInv ==
    ASSUME LockInv, NEW t \in Threads, NEW u \in Threads, Fork(t, u), UNCHANGED synchVars
    PROVE  LockInv'
<1> USE DEF LockInv
<1>0. <<u>> \in Seq(Threads)
    OBVIOUS
<1>1. KernelTypeOK'
    BY <1>0, ReadyToRunType DEF Fork, KernelTypeOK
<1> QED BY <1>1, KernelInv DEF Fork

LEMMA KernelStepInv ==
    ASSUME LockInv, KernelStep, UNCHANGED synchVars
    PROVE  LockInv'
<1> USE DEF LockInv
<1>1. CASE Dispatch
    <2>1. Head(readyList) \in Threads /\ Tail(readyList) \in Seq(Threads)
        BY <1>1, HeadTailProperties DEF Dispatch, KernelTypeOK
    <2>2. KernelTypeOK'
        BY <1>1, <2>1 DEF Dispatch, KernelTypeOK, Statuses
    <2> QED BY <1>1, <2>2, KernelInv DEF Dispatch
<1>2. ASSUME NEW t \in Threads, ThreadRoot(t) PROVE LockInv'
    <2>1. KernelTypeOK'
        BY <1>2 DEF ThreadRoot, KernelTypeOK, Levels, PCs
    <2> QED BY <1>2, <2>1, KernelInv DEF ThreadRoot, KernelTypeOK
<1>3. ASSUME NEW t \in Threads, YieldReturn(t) PROVE LockInv'
    <2>1. KernelTypeOK'
        BY <1>3, DeleteCarcassType DEF YieldReturn, KernelTypeOK, PCs
    <2> QED BY <1>3, <2>1, KernelInv DEF YieldReturn, KernelTypeOK
<1> QED BY <1>1, <1>2, <1>3 DEF KernelStep

LEMMA WakeAllInv ==
    ASSUME LockInv, NEW t \in Threads, NEW q \in Queues, WakeAll(t, q)
    PROVE  LockInv'
<1> USE DEF LockInv
<1>1. queue[q] \in Seq(Threads) /\ queue' \in [Queues -> Seq(Threads)]
    BY DEF WakeAll, SynchTypeOK
<1>2. KernelTypeOK'
    BY <1>1, ReadyToRunType DEF WakeAll, KernelTypeOK
<1>3. SynchTypeOK'
    BY <1>1 DEF WakeAll, SynchTypeOK
<1>4. WaitsWell'
    BY DEF WakeAll, WaitsWell
<1>5. FreeOrBusy'
    BY DEF WakeAll, FreeOrBusy
<1> QED BY <1>2, <1>3, <1>4, <1>5

LEMMA SignalInv ==
    ASSUME LockInv, NEW t \in Threads, NEW c \in Conditions, Signal(t, c)
    PROVE  LockInv'
<1> USE DEF LockInv
<1>0. c \in Queues
    BY DEF Queues
<1>1. First(c) \in Seq(Threads) /\ Rest(c) \in Seq(Threads)
    BY <1>0, FirstRestType
<1>2. KernelTypeOK'
    BY <1>1, ReadyToRunType DEF Signal, KernelTypeOK
<1>3. SynchTypeOK'
    BY <1>0, <1>1 DEF Signal, SynchTypeOK
<1>4. WaitsWell'
    BY DEF Signal, WaitsWell
<1>5. FreeOrBusy'
    BY DEF Signal, FreeOrBusy
<1> QED BY <1>2, <1>3, <1>4, <1>5

LEMMA VInv ==
    ASSUME LockInv, NEW t \in Threads, NEW s \in Semaphores, V(t, s)
    PROVE  LockInv'
<1> USE DEF LockInv
<1>0. s \in AllSemaphores
    BY DEF AllSemaphores
<1>1. KernelTypeOK'
    BY <1>0, ReleaseValueType DEF V, KernelTypeOK
<1>2. SynchTypeOK'
    BY <1>0, ReleaseValueType DEF V, SynchTypeOK
<1>3. WaitsWell'
    BY DEF V, WaitsWell
<1>4. FreeOrBusy'
    BY SynchAssumption DEF V, ReleaseValue, FreeOrBusy, SynchTypeOK, AllSemaphores
<1> QED BY <1>1, <1>2, <1>3, <1>4

LEMMA ReleaseInv ==
    ASSUME LockInv, NEW t \in Threads, NEW l \in Locks, Release(t, l)
    PROVE  LockInv'
<1>1. CASE lockOwner[l] = t
    <2>1. lockOwner[l] # NULL
        BY <1>1, KernelAssumption
    <2> QED BY <1>1, <2>1, ReleaseLockInv DEF Release
<1>2. CASE lockOwner[l] # t
    BY <1>2, KernelInv DEF Release, LockInv, KernelTypeOK, synchVars
<1> QED BY <1>1, <1>2

(* The owner gives the lock back and queues itself on the condition. *)
LEMMA WaitInv ==
    ASSUME LockInv, NEW t \in Threads, NEW c \in Conditions, NEW l \in Locks, Wait(t, c, l)
    PROVE  LockInv'
<1>1. CASE lockOwner[l] = NULL
    <2>0. /\ level' = "Off"
          /\ UNCHANGED <<currentThread, status, readyList, oldLevel, pc,
                         threadToBeDestroyed, destroyed, machine>>
          /\ UNCHANGED synchVars
        BY <1>1, KernelAssumption DEF Wait
    <2>1. KernelTypeOK'
        BY <2>0 DEF LockInv, KernelTypeOK, Levels
    <2> QED BY <2>0, <2>1, KernelInv
<1>2. CASE lockOwner[l] \notin {NULL, t}
    <2>1. KernelTypeOK'
        BY <1>2 DEF Wait, Abort, LockInv, KernelTypeOK
    <2> QED BY <1>2, <2>1, KernelInv DEF Wait, Abort
<1>3. CASE lockOwner[l] = t
    <2> USE DEF LockInv
    <2>0. t # NULL /\ l # c /\ l \in AllSemaphores /\ l \in Queues /\ c \in Queues
        BY KernelAssumption, SynchAssumption DEF AllSemaphores, Queues
    <2>1. /\ Executing(t)
          /\ queue' = [queue EXCEPT ![c] = Append(@, t), ![l] = Rest(l)]
          /\ value' = [value EXCEPT ![l] = @ + 1]
          /\ lockOwner' = [lockOwner EXCEPT ![l] = NULL]
          /\ ReadyToRunAndSleep(t, First(l))
          /\ pc' = [pc EXCEPT ![t] = "Wait"]
          /\ waitsOn' = [waitsOn EXCEPT ![t] = c]
          /\ relock' = [relock EXCEPT ![t] = l]
          /\ UNCHANGED <<currentThread, oldLevel, threadToBeDestroyed, destroyed, machine>>
        BY <1>3, <2>0 DEF Wait
    <2>2. First(l) \in Seq(Threads) /\ Rest(l) \in Seq(Threads)
        BY <2>0, FirstRestType
    <2>3. Append(queue[c], t) \in Seq(Threads)
        BY <2>0, AppendProperties DEF SynchTypeOK
    <2>4. KernelTypeOK'
        BY <2>1, <2>2, ReadyToRunAndSleepType DEF KernelTypeOK, PCs
    <2>5. SynchTypeOK'
        <3>1. queue' \in [Queues -> Seq(Threads)]
            BY <2>0, <2>1, <2>2, <2>3 DEF SynchTypeOK
        <3>2. value' \in [AllSemaphores -> Nat] /\ lockOwner' \in [Locks -> Threads \cup {NULL}]
            <4>1. value[l] + 1 \in Nat
                BY <2>0 DEF SynchTypeOK
            <4> QED BY <2>1, <4>1 DEF SynchTypeOK
        <3> QED BY <2>0, <2>1, <3>1, <3>2 DEF SynchTypeOK
    <2>6. WaitsWell'
        BY <2>1 DEF WaitsWell, KernelTypeOK, SynchTypeOK
    <2>7. FreeOrBusy'
        BY <1>3, <2>0, <2>1 DEF FreeOrBusy, SynchTypeOK, AllSemaphores
    <2> QED BY <2>4, <2>5, <2>6, <2>7
<1> QED BY <1>1, <1>2, <1>3

LEMMA PInv ==
    ASSUME LockInv, NEW t \in Threads, NEW s \in AllSemaphores, P(t, s)
    PROVE  LockInv'
BY AcquireValueInv DEF P, LockInv, KernelTypeOK

LEMMA AcquireInv ==
    ASSUME LockInv, NEW t \in Threads, NEW l \in Locks, Acquire(t, l)
    PROVE  LockInv'
<1>1. l \in AllSemaphores /\ "Off" \in Levels
    BY DEF AllSemaphores, Levels
<1> QED BY <1>1, AcquireValueInv DEF Acquire, LockInv, KernelTypeOK

(* The two returns that end in P. *)
LEMMA ResumeInv ==
    ASSUME LockInv, NEW t \in Threads, ResumeP(t) \/ ResumeWait(t)
    PROVE  LockInv'
<1>1. threadToBeDestroyed' \in Threads \cup {NULL} /\ destroyed' \subseteq Threads
    BY DeleteCarcassType DEF ResumeP, ResumeWait, LockInv
<1>2. CASE ResumeP(t)
    <2>1. waitsOn[t] \in AllSemaphores /\ oldLevel[t] \in Levels
        BY <1>2 DEF ResumeP, LockInv, KernelTypeOK, WaitsWell
    <2> QED BY <1>1, <1>2, <2>1, AcquireValueInv DEF ResumeP
<1>3. CASE ResumeWait(t)
    <2>1. relock[t] \in AllSemaphores /\ "Off" \in Levels
        BY <1>3 DEF ResumeWait, LockInv, WaitsWell, AllSemaphores, Levels
    <2> QED BY <1>1, <1>3, <2>1, AcquireValueInv DEF ResumeWait
<1> QED BY <1>2, <1>3
-----------------------------------------------------------------------------
(* The elements of a sequence, and whether one occurs twice, through the    *)
(* three ways the lists of the kernel change.                               *)
LEMMA AppendRange ==
    ASSUME NEW S, NEW s \in Seq(S), NEW e \in S
    PROVE  /\ Range(Append(s, e)) = Range(s) \cup {e}
           /\ IsInjective(s) /\ e \notin Range(s) => IsInjective(Append(s, e))
<1> DEFINE a == Append(s, e)
<1>1. /\ a \in Seq(S) /\ Len(a) = Len(s) + 1 /\ a[Len(s) + 1] = e
      /\ \A i \in 1 .. Len(s) : a[i] = s[i]
    BY AppendProperties
<1>2. DOMAIN a = 1 .. Len(s) + 1 /\ DOMAIN s = 1 .. Len(s) /\ Len(s) \in Nat
    BY <1>1, LenProperties
<1> HIDE DEF a
<1>3. Range(a) = Range(s) \cup {e}
    BY <1>1, <1>2 DEF Range
<1>4. ASSUME IsInjective(s), e \notin Range(s) PROVE IsInjective(a)
    BY <1>1, <1>2, <1>4 DEF Range, IsInjective
<1> QED BY <1>3, <1>4 DEF a

LEMMA TailRange ==
    ASSUME NEW S, NEW s \in Seq(S), s # <<>>
    PROVE  /\ Head(s) \in Range(s)
           /\ Range(s) = Range(Tail(s)) \cup {Head(s)}
           /\ IsInjective(s) => IsInjective(Tail(s)) /\ Head(s) \notin Range(Tail(s))
<1> DEFINE r == Tail(s)
<1>1. /\ r \in Seq(S) /\ Len(r) = Len(s) - 1
      /\ \A i \in 1 .. Len(r) : r[i] = s[i + 1]
    BY HeadTailProperties
<1>2. /\ DOMAIN r = 1 .. Len(s) - 1 /\ DOMAIN s = 1 .. Len(s)
      /\ Len(s) \in Nat \ {0} /\ Head(s) = s[1]
    BY <1>1, LenProperties, EmptySeq
<1> HIDE DEF r
<1>3. Head(s) \in Range(s)
    BY <1>2 DEF Range
<1>4. Range(s) = Range(r) \cup {Head(s)}
    <2>1. ASSUME NEW i \in DOMAIN s, i # 1 PROVE s[i] \in Range(r)
        <3>1. i - 1 \in 1 .. Len(s) - 1 /\ (i - 1) + 1 = i
            BY <1>2, <2>1
        <3>2. r[i - 1] = s[i]
            BY <1>1, <3>1
        <3> QED BY <1>2, <3>1, <3>2 DEF Range
    <2>2. \A i \in DOMAIN r : r[i] = s[i + 1] /\ i + 1 \in DOMAIN s
        BY <1>1, <1>2
    <2> QED BY <1>2, <1>3, <2>1, <2>2 DEF Range
<1>5. ASSUME IsInjective(s) PROVE IsInjective(r)
    <2>1. \A i \in DOMAIN r : r[i] = s[i + 1] /\ i + 1 \in DOMAIN s /\ i \in Nat
        BY <1>1, <1>2
    <2>2. ASSUME NEW i \in DOMAIN r, NEW j \in DOMAIN r, r[i] = r[j] PROVE i = j
        <3>1. i + 1 = j + 1
            BY <1>5, <2>1, <2>2 DEF IsInjective
        <3> QED BY <2>1, <3>1
    <2> QED BY <2>2 DEF IsInjective
<1>6. ASSUME IsInjective(s) PROVE Head(s) \notin Range(r)
    <2>1. ASSUME NEW i \in DOMAIN r, r[i] = s[1] PROVE FALSE
        <3>1. i + 1 \in DOMAIN s /\ s[i + 1] = s[1] /\ 1 \in DOMAIN s /\ i + 1 # 1
            BY <1>1, <1>2, <2>1
        <3> QED BY <1>6, <3>1 DEF IsInjective
    <2> QED BY <1>2, <2>1 DEF Range
<1> QED BY <1>3, <1>4, <1>5, <1>6 DEF r

LEMMA ConcatRange ==
    ASSUME NEW S, NEW s \in Seq(S), NEW r \in Seq(S)
    PROVE  /\ Range(s \o r) = Range(s) \cup Range(r)
           /\ IsInjective(s) /\ IsInjective(r) /\ Range(s) \cap Range(r) = {}
                => IsInjective(s \o r)
<1> DEFINE c == s \o r
<1>1. /\ c \in Seq(S) /\ Len(c) = Len(s) + Len(r)
      /\ \A i \in 1 .. Len(s) + Len(r) : c[i] =
             IF i <= Len(s) THEN s[i] ELSE r[i - Len(s)]
    BY ConcatProperties
<1>2. /\ DOMAIN c = 1 .. Len(s) + Len(r) /\ DOMAIN s = 1 .. Len(s) /\ DOMAIN r = 1 .. Len(r)
      /\ Len(s) \in Nat /\ Len(r) \in Nat
    BY <1>1, LenProperties
<1>3. Range(c) = Range(s) \cup Range(r)
    BY RangeConcatenation
<1> HIDE DEF c
<1>4. ASSUME IsInjective(s), IsInjective(r), Range(s) \cap Range(r) = {},
             NEW i \in DOMAIN c, NEW j \in DOMAIN c, c[i] = c[j]
      PROVE  i = j
    <2>1. CASE i <= Len(s) /\ j <= Len(s)
        BY <1>1, <1>2, <1>4, <2>1 DEF IsInjective
    <2>2. CASE i > Len(s) /\ j > Len(s)
        <3>1. i - Len(s) \in DOMAIN r /\ j - Len(s) \in DOMAIN r
              /\ r[i - Len(s)] = r[j - Len(s)]
            BY <1>1, <1>2, <1>4, <2>2
        <3>2. i - Len(s) = j - Len(s)
            BY <1>4, <3>1 DEF IsInjective
        <3> QED BY <1>2, <3>2
    <2>3. CASE i <= Len(s) /\ j > Len(s)
        <3>1. i \in DOMAIN s /\ j - Len(s) \in DOMAIN r /\ s[i] = r[j - Len(s)]
            BY <1>1, <1>2, <1>4, <2>3
        <3> QED BY <1>4, <3>1 DEF Range
    <2>4. CASE i > Len(s) /\ j <= Len(s)
        <3>1. j \in DOMAIN s /\ i - Len(s) \in DOMAIN r /\ s[j] = r[i - Len(s)]
            BY <1>1, <1>2, <1>4, <2>4
        <3> QED BY <1>4, <3>1 DEF Range
    <2> QED BY <1>2, <2>1, <2>2, <2>3, <2>4
<1>5. IsInjective(s) /\ IsInjective(r) /\ Range(s) \cap Range(r) = {} => IsInjective(c)
    BY <1>4 DEF IsInjective
<1> QED BY <1>3, <1>5 DEF c

LEMMA EmptyRange == Range(<<>>) = {} /\ IsInjective(<<>>)
BY DEF Range, IsInjective

LEMMA SingleRange ==
    ASSUME NEW e
    PROVE  Range(<<e>>) = {e} /\ IsInjective(<<e>>)
BY DEF Range, IsInjective
-----------------------------------------------------------------------------
(* Where every thread is: RUNNING only with the CPU, on the ready list (once) *)
(* exactly when READY, on one queue (once) exactly when it waits for it; and  *)
(* the routine it is inside agrees with that.                                 *)
Placed ==
    /\ IsInjective(readyList)
    /\ \A q \in Queues : IsInjective(queue[q])
    /\ \A t \in Threads :
         /\ status[t] = "RUNNING" => currentThread = t
         /\ t \in Range(readyList) <=> status[t] = "READY"
         /\ \A q \in Queues : t \in Range(queue[q]) <=>
                status[t] = "BLOCKED" /\ pc[t] # "finish" /\ waitsOn[t] = q
         /\ status[t] = "BLOCKED" => pc[t] \in {"P", "Wait", "finish"}
         /\ status[t] = "JUST_CREATED" => pc[t] = "new"
         /\ status[t] = "READY" => pc[t] \in {"new", "yield", "P", "Wait"}

PlaceInv == LockInv /\ Placed

(* First and Rest part a queue in two. *)
LEMMA FirstRestRange ==
    ASSUME PlaceInv, NEW q \in Queues
    PROVE  /\ First(q) \in Seq(Threads) /\ Rest(q) \in Seq(Threads)
           /\ Range(queue[q]) = Range(First(q)) \cup Range(Rest(q))
           /\ Range(First(q)) \cap Range(Rest(q)) = {}
           /\ IsInjective(First(q)) /\ IsInjective(Rest(q))
<1>1. queue[q] \in Seq(Threads) /\ IsInjective(queue[q])
    BY DEF PlaceInv, Placed, LockInv, SynchTypeOK
<1>2. First(q) \in Seq(Threads) /\ Rest(q) \in Seq(Threads)
    BY FirstRestType DEF PlaceInv, LockInv
<1>3. CASE queue[q] = <<>>
    BY <1>2, <1>3, EmptyRange DEF First, Rest
<1>4. CASE queue[q] # <<>>
    <2>1. First(q) = <<Head(queue[q])>> /\ Rest(q) = Tail(queue[q])
        BY <1>4 DEF First, Rest
    <2>2. Range(First(q)) = {Head(queue[q])} /\ IsInjective(First(q))
        BY <2>1, SingleRange
    <2>3. /\ Range(queue[q]) = Range(Rest(q)) \cup {Head(queue[q])}
          /\ IsInjective(Rest(q)) /\ Head(queue[q]) \notin Range(Rest(q))
        BY <1>1, <1>4, <2>1, TailRange
    <2> QED BY <1>2, <2>2, <2>3
<1> QED BY <1>3, <1>4

(* Threads that leave a queue for the ready list are in one place again. *)
LEMMA WakePlaced ==
    ASSUME PlaceInv, NEW q \in Queues,
           NEW woken \in Seq(Threads), NEW rest \in Seq(Threads),
           IsInjective(woken), IsInjective(rest),
           Range(queue[q]) = Range(woken) \cup Range(rest),
           Range(woken) \cap Range(rest) = {},
           ReadyToRun(woken), queue' = [queue EXCEPT ![q] = rest],
           UNCHANGED <<currentThread, pc, waitsOn>>
    PROVE  Placed'
<1>1. readyList \in Seq(Threads) /\ queue \in [Queues -> Seq(Threads)]
    BY DEF PlaceInv, LockInv, KernelTypeOK, SynchTypeOK
<1>2. \A t \in Range(woken) : t \in Threads /\ status[t] = "BLOCKED" /\ pc[t] \in {"P", "Wait"}
                              /\ waitsOn[t] = q
    BY RangeOfSeq DEF PlaceInv, Placed
<1>3. Range(woken) \cap Range(readyList) = {}
    BY <1>2 DEF PlaceInv, Placed
<1>4. Range(readyList') = Range(readyList) \cup Range(woken) /\ IsInjective(readyList')
    BY <1>1, <1>3, ConcatRange DEF ReadyToRun, PlaceInv, Placed
<1>5. \A p \in Queues : queue'[p] = IF p = q THEN rest ELSE queue[p]
    BY <1>1
<1>6. \A t \in Threads : status'[t] = IF t \in Range(woken) THEN "READY" ELSE status[t]
    BY DEF ReadyToRun
<1>7. \A p \in Queues : IsInjective(queue'[p])
    BY <1>5 DEF PlaceInv, Placed
<1>8. ASSUME NEW t \in Threads, NEW p \in Queues
      PROVE  t \in Range(queue'[p]) <=>
                status'[t] = "BLOCKED" /\ pc'[t] # "finish" /\ waitsOn'[t] = p
    <2>1. CASE p = q
        BY <1>5, <1>6, <2>1 DEF PlaceInv, Placed
    <2>2. CASE p # q
        BY <1>2, <1>5, <1>6, <2>2 DEF PlaceInv, Placed
    <2> QED BY <2>1, <2>2
<1> QED BY <1>2, <1>4, <1>6, <1>7, <1>8 DEF PlaceInv, Placed

(* A thread that queues itself and sleeps, in P. *)
LEMMA AcquireValuePlaced ==
    ASSUME PlaceInv, NEW t \in Threads, NEW s \in AllSemaphores, NEW saved,
           AcquireValue(t, s, saved), UNCHANGED currentThread,
           status[t] = "RUNNING"
    PROVE  Placed'
<1>0. s \in Queues
    BY DEF Queues
<1>1. CASE value[s] # 0
    BY <1>1 DEF AcquireValue, PlaceInv, Placed, LockInv, KernelTypeOK, SynchTypeOK
<1>2. CASE value[s] = 0
    <2>1. /\ queue' = [queue EXCEPT ![s] = Append(@, t)]
          /\ ReadyToRunAndSleep(t, <<>>)
          /\ pc' = [pc EXCEPT ![t] = "P"]
          /\ waitsOn' = [waitsOn EXCEPT ![t] = s]
        BY <1>2 DEF AcquireValue
    <2>2. readyList \in Seq(Threads) /\ queue \in [Queues -> Seq(Threads)]
          /\ pc \in [Threads -> PCs] /\ waitsOn \in [Threads -> Queues \cup {NULL}]
        BY DEF PlaceInv, LockInv, KernelTypeOK, SynchTypeOK
    <2>3. readyList' = readyList
        BY <2>1, <2>2, ConcatEmptySeq DEF ReadyToRunAndSleep
    <2>4. \A u \in Threads : status'[u] = IF u = t THEN "BLOCKED" ELSE status[u]
        BY <2>1, EmptyRange DEF ReadyToRunAndSleep
    <2>5. t \notin Range(queue[s]) /\ t \notin Range(readyList)
        BY <1>0 DEF PlaceInv, Placed
    <2>6. Range(queue'[s]) = Range(queue[s]) \cup {t} /\ IsInjective(queue'[s])
        BY <1>0, <2>1, <2>2, <2>5, AppendRange DEF PlaceInv, Placed
    <2>7. \A q \in Queues : q # s => queue'[q] = queue[q]
        BY <2>1, <2>2
    <2>8. ASSUME NEW u \in Threads, NEW q \in Queues
          PROVE  u \in Range(queue'[q]) <=>
                    status'[u] = "BLOCKED" /\ pc'[u] # "finish" /\ waitsOn'[u] = q
        <3>1. CASE u = t
            BY <2>1, <2>2, <2>4, <2>6, <2>7, <3>1 DEF PlaceInv, Placed
        <3>2. CASE u # t
            BY <2>1, <2>2, <2>4, <2>6, <2>7, <3>2 DEF PlaceInv, Placed
        <3> QED BY <3>1, <3>2
    <2>9. \A q \in Queues : IsInjective(queue'[q])
        BY <2>6, <2>7 DEF PlaceInv, Placed
    <2>10. \A u \in Threads :
         /\ status'[u] = "RUNNING" => currentThread' = u
         /\ u \in Range(readyList') <=> status'[u] = "READY"
         /\ status'[u] = "BLOCKED" => pc'[u] \in {"P", "Wait", "finish"}
         /\ status'[u] = "JUST_CREATED" => pc'[u] = "new"
         /\ status'[u] = "READY" => pc'[u] \in {"new", "yield", "P", "Wait"}
        BY <2>1, <2>2, <2>3, <2>4, <2>5 DEF PlaceInv, Placed
    <2> QED BY <2>3, <2>8, <2>9, <2>10 DEF PlaceInv, Placed
<1> QED BY <1>1, <1>2

(* Condition::Wait: the owner wakes a thread that waits for the lock, queues  *)
(* itself on the condition and sleeps.                                        *)
LEMMA WaitPlaced ==
    ASSUME PlaceInv, NEW t \in Threads, NEW c \in Conditions, NEW l \in Locks, Wait(t, c, l)
    PROVE  Placed'
<1>0. c # l /\ c \in Queues /\ l \in Queues /\ l \in AllSemaphores
    BY SynchAssumption DEF AllSemaphores, Queues
<1>1. CASE lockOwner[l] # t \/ t = NULL
    BY <1>1, KernelAssumption DEF Wait, Abort, synchVars, PlaceInv, Placed
<1>2. CASE lockOwner[l] = t /\ t # NULL
    <2>1. /\ status[t] = "RUNNING"
          /\ queue' = [queue EXCEPT ![c] = Append(@, t), ![l] = Rest(l)]
          /\ ReadyToRunAndSleep(t, First(l))
          /\ pc' = [pc EXCEPT ![t] = "Wait"]
          /\ waitsOn' = [waitsOn EXCEPT ![t] = c]
          /\ UNCHANGED currentThread
        BY <1>2 DEF Wait, Executing
    <2>2. readyList \in Seq(Threads) /\ queue \in [Queues -> Seq(Threads)]
          /\ pc \in [Threads -> PCs] /\ waitsOn \in [Threads -> Queues \cup {NULL}]
        BY DEF PlaceInv, LockInv, KernelTypeOK, SynchTypeOK
    <2> DEFINE woken == First(l)
               rest == Rest(l)
    <2>3. /\ woken \in Seq(Threads) /\ rest \in Seq(Threads)
          /\ Range(queue[l]) = Range(woken) \cup Range(rest)
          /\ Range(woken) \cap Range(rest) = {}
          /\ IsInjective(woken) /\ IsInjective(rest)
        BY <1>0, FirstRestRange
    <2>4. ReadyToRunAndSleep(t, woken) /\ queue' = [queue EXCEPT ![c] = Append(@, t), ![l] = rest]
        BY <2>1
    <2> HIDE DEF woken, rest
    <2>5. \A u \in Range(woken) : u \in Threads /\ status[u] = "BLOCKED" /\ pc[u] \in {"P", "Wait"}
                                  /\ waitsOn[u] = l
        BY <1>0, <2>3, RangeOfSeq DEF PlaceInv, Placed
    <2>6. Range(woken) \cap Range(readyList) = {} /\ t \notin Range(woken)
        BY <2>1, <2>5 DEF PlaceInv, Placed
    <2>7. Range(readyList') = Range(readyList) \cup Range(woken) /\ IsInjective(readyList')
        BY <2>2, <2>3, <2>4, <2>6, ConcatRange DEF ReadyToRunAndSleep, PlaceInv, Placed
    <2>8. \A u \in Threads : status'[u] = IF u \in Range(woken) THEN "READY"
                                          ELSE IF u = t THEN "BLOCKED" ELSE status[u]
        BY <2>4 DEF ReadyToRunAndSleep
    <2>9. t \notin Range(queue[c])
        BY <1>0, <2>1 DEF PlaceInv, Placed
    <2>10. \A q \in Queues : queue'[q] = IF q = c THEN Append(queue[c], t)
                                         ELSE IF q = l THEN rest ELSE queue[q]
        BY <1>0, <2>2, <2>4
    <2>11. Range(Append(queue[c], t)) = Range(queue[c]) \cup {t} /\ IsInjective(Append(queue[c], t))
        BY <1>0, <2>2, <2>9, AppendRange DEF PlaceInv, Placed
    <2>12. \A q \in Queues : IsInjective(queue'[q])
        BY <2>3, <2>10, <2>11 DEF PlaceInv, Placed
    <2>13. ASSUME NEW u \in Threads, NEW q \in Queues
           PROVE  u \in Range(queue'[q]) <=>
                     status'[u] = "BLOCKED" /\ pc'[u] # "finish" /\ waitsOn'[u] = q
        <3>0. pc'[u] = (IF u = t THEN "Wait" ELSE pc[u])
              /\ waitsOn'[u] = (IF u = t THEN c ELSE waitsOn[u])
            BY <2>1, <2>2
        <3>1. u \in Range(queue[q]) <=> status[u] = "BLOCKED" /\ pc[u] # "finish" /\ waitsOn[u] = q
            BY DEF PlaceInv, Placed
        <3>2. u \in Range(queue'[q]) <=>
                 IF q = c THEN u \in Range(queue[q]) \/ u = t
                 ELSE u \in Range(queue[q]) /\ u \notin Range(woken)
            <4>1. CASE q = c
                BY <2>10, <2>11, <4>1
            <4>2. CASE q = l
                BY <1>0, <2>3, <2>10, <4>2
            <4>3. CASE q # c /\ q # l
                BY <2>5, <2>10, <3>1, <4>3
            <4> QED BY <4>1, <4>2, <4>3
        <3>3. CASE u = t
            BY <2>1, <2>6, <2>8, <3>0, <3>1, <3>2, <3>3
        <3>4. CASE u \in Range(woken)
            BY <1>0, <2>5, <2>6, <2>8, <3>1, <3>2, <3>4
        <3>5. CASE u # t /\ u \notin Range(woken)
            BY <2>8, <3>0, <3>1, <3>2, <3>5
        <3> QED BY <3>3, <3>4, <3>5
    <2>14. \A u \in Threads :
         /\ status'[u] = "RUNNING" => currentThread' = u
         /\ u \in Range(readyList') <=> status'[u] = "READY"
         /\ status'[u] = "BLOCKED" => pc'[u] \in {"P", "Wait", "finish"}
         /\ status'[u] = "JUST_CREATED" => pc'[u] = "new"
         /\ status'[u] = "READY" => pc'[u] \in {"new", "yield", "P", "Wait"}
        BY <2>1, <2>2, <2>5, <2>6, <2>7, <2>8 DEF PlaceInv, Placed
    <2> QED BY <2>7, <2>12, <2>13, <2>14 DEF Placed
<1> QED BY <1>1, <1>2

(* The kernel's own steps: a thread that gives the CPU away goes to the end   *)
(* of the ready list, and the CPU goes to the first thread of it.             *)
LEMMA YieldPlaced ==
    ASSUME PlaceInv, NEW t \in Threads, Yield(t), UNCHANGED synchVars
    PROVE  Placed'
<1>1. CASE readyList = <<>>
    BY <1>1 DEF Yield, PlaceInv, Placed, synchVars
<1>2. CASE readyList # <<>>
    <2> DEFINE next == Head(readyList)
    <2>1. /\ status[t] = "RUNNING" /\ currentThread = t
          /\ readyList' = Append(Tail(readyList), t)
          /\ status' = [status EXCEPT ![t] = "READY", ![next] = "RUNNING"]
          /\ currentThread' = next
          /\ pc' = [pc EXCEPT ![t] = "yield"]
          /\ UNCHANGED <<queue, waitsOn>>
        BY <1>2 DEF Yield, Executing, synchVars
    <2>2. readyList \in Seq(Threads) /\ status \in [Threads -> Statuses] /\ pc \in [Threads -> PCs]
        BY DEF PlaceInv, LockInv, KernelTypeOK
    <2>3. /\ next \in Range(readyList)
          /\ Range(readyList) = Range(Tail(readyList)) \cup {next}
          /\ IsInjective(Tail(readyList)) /\ next \notin Range(Tail(readyList))
        BY <1>2, <2>2, TailRange DEF PlaceInv, Placed
    <2>4. next \in Threads /\ Tail(readyList) \in Seq(Threads)
        BY <1>2, <2>2, HeadTailProperties
    <2> HIDE DEF next
    <2>5. status[next] = "READY" /\ next # t /\ t \notin Range(readyList)
        BY <2>1, <2>3, <2>4 DEF PlaceInv, Placed
    <2> DEFINE rest == Tail(readyList)
    <2>6. readyList' = Append(rest, t) /\ rest \in Seq(Threads)
        BY <2>1, <2>4
    <2>7. /\ Range(readyList) = Range(rest) \cup {next}
          /\ IsInjective(rest) /\ next \notin Range(rest)
        BY <2>3
    <2> HIDE DEF rest
    <2>8. Range(readyList') = Range(rest) \cup {t} /\ IsInjective(readyList')
        BY <2>5, <2>6, <2>7, AppendRange
    <2>9. \A u \in Threads :
          /\ status'[u] = IF u = next THEN "RUNNING" ELSE IF u = t THEN "READY" ELSE status[u]
          /\ pc'[u] = IF u = t THEN "yield" ELSE pc[u]
        BY <2>1, <2>2, <2>4
    <2>10. ASSUME NEW u \in Threads
           PROVE  /\ status'[u] = "RUNNING" => currentThread' = u
                  /\ u \in Range(readyList') <=> status'[u] = "READY"
        BY <2>1, <2>5, <2>7, <2>8, <2>9 DEF PlaceInv, Placed
    <2>11. ASSUME NEW u \in Threads, NEW q \in Queues
          PROVE  u \in Range(queue'[q]) <=>
                    status'[u] = "BLOCKED" /\ pc'[u] # "finish" /\ waitsOn'[u] = q
        <3>1. queue' = queue /\ waitsOn' = waitsOn
            BY <2>1
        <3>2. u \in Range(queue[q]) <=> status[u] = "BLOCKED" /\ pc[u] # "finish" /\ waitsOn[u] = q
            BY DEF PlaceInv, Placed
        <3>3. status[t] = "RUNNING"
            BY <2>1
        <3> QED BY <2>5, <2>9, <3>1, <3>2, <3>3
    <2>12. ASSUME NEW u \in Threads
           PROVE  /\ status'[u] = "BLOCKED" => pc'[u] \in {"P", "Wait", "finish"}
                  /\ status'[u] = "JUST_CREATED" => pc'[u] = "new"
                  /\ status'[u] = "READY" => pc'[u] \in {"new", "yield", "P", "Wait"}
        BY <2>1, <2>5, <2>9 DEF PlaceInv, Placed
    <2> QED BY <2>1, <2>8, <2>10, <2>11, <2>12 DEF PlaceInv, Placed
<1> QED BY <1>1, <1>2

LEMMA FinishPlaced ==
    ASSUME PlaceInv, NEW t \in Threads, Finish(t), UNCHANGED synchVars
    PROVE  Placed'
<1>1. /\ status[t] = "RUNNING"
      /\ pc' = [pc EXCEPT ![t] = "finish"]
      /\ UNCHANGED <<currentThread, queue, waitsOn>>
    BY DEF Finish, Executing, synchVars
<1>2. readyList \in Seq(Threads) /\ pc \in [Threads -> PCs]
    BY DEF PlaceInv, LockInv, KernelTypeOK
<1>3. readyList' = readyList
    BY <1>2, ConcatEmptySeq DEF Finish, ReadyToRunAndSleep
<1>4. \A u \in Threads : /\ status'[u] = IF u = t THEN "BLOCKED" ELSE status[u]
                         /\ pc'[u] = IF u = t THEN "finish" ELSE pc[u]
    BY <1>1, <1>2, EmptyRange DEF Finish, ReadyToRunAndSleep
<1> QED BY <1>1, <1>3, <1>4 DEF PlaceInv, Placed

LEMMA ForkPlaced ==
    ASSUME PlaceInv, NEW t \in Threads, NEW u \in Threads, Fork(t, u), UNCHANGED synchVars
    PROVE  Placed'
<1>1. status[u] = "JUST_CREATED" /\ UNCHANGED <<currentThread, pc, queue, waitsOn>>
    BY DEF Fork, synchVars
<1> DEFINE one == <<u>>
<1>2. readyList \in Seq(Threads) /\ one \in Seq(Threads)
    BY DEF PlaceInv, LockInv, KernelTypeOK
<1>3. Range(one) = {u} /\ IsInjective(one)
    BY SingleRange
<1>6. ReadyToRun(one)
    BY DEF Fork
<1> HIDE DEF one
<1>4. Range(readyList') = Range(readyList) \cup {u} /\ IsInjective(readyList')
    <2>1. readyList' = readyList \o one
        BY <1>6 DEF ReadyToRun
    <2>2. IsInjective(readyList) /\ Range(readyList) \cap Range(one) = {}
        BY <1>1, <1>3 DEF PlaceInv, Placed
    <2> QED BY <1>2, <1>3, <2>1, <2>2, ConcatRange
<1>5. \A v \in Threads : status'[v] = IF v = u THEN "READY" ELSE status[v]
    BY <1>3, <1>6 DEF ReadyToRun
<1> QED BY <1>1, <1>4, <1>5 DEF PlaceInv, Placed

LEMMA DispatchPlaced ==
    ASSUME PlaceInv, Dispatch, UNCHANGED synchVars
    PROVE  Placed'
<1> DEFINE next == Head(readyList)
<1>1. /\ status[currentThread] # "RUNNING"
      /\ readyList' = Tail(readyList) /\ readyList # <<>>
      /\ status' = [status EXCEPT ![next] = "RUNNING"]
      /\ currentThread' = next
      /\ UNCHANGED <<pc, queue, waitsOn>>
    BY DEF Dispatch, Sleeping, synchVars
<1>2. readyList \in Seq(Threads) /\ status \in [Threads -> Statuses]
    BY DEF PlaceInv, LockInv, KernelTypeOK
<1>3. /\ next \in Range(readyList)
      /\ Range(readyList) = Range(Tail(readyList)) \cup {next}
      /\ IsInjective(Tail(readyList)) /\ next \notin Range(Tail(readyList))
    BY <1>1, <1>2, TailRange DEF PlaceInv, Placed
<1>4. next \in Threads
    BY <1>1, <1>2, HeadTailProperties
<1> HIDE DEF next
<1>5. \A u \in Threads : status'[u] = IF u = next THEN "RUNNING" ELSE status[u]
    BY <1>1, <1>2
<1>6. status[next] = "READY"
    BY <1>3, <1>4 DEF PlaceInv, Placed
<1>7. ASSUME NEW u \in Threads PROVE status'[u] = "RUNNING" => u = next
    BY <1>1, <1>5 DEF PlaceInv, Placed
<1> QED BY <1>1, <1>3, <1>5, <1>6, <1>7 DEF PlaceInv, Placed

(* A thread that goes on with its own routine stays where it is. *)
LEMMA ReturnPlaced ==
    ASSUME PlaceInv, NEW t \in Threads, ThreadRoot(t) \/ YieldReturn(t), UNCHANGED synchVars
    PROVE  Placed'
BY DEF ThreadRoot, YieldReturn, Resuming, PlaceInv, Placed, LockInv, KernelTypeOK, synchVars
-----------------------------------------------------------------------------
(* A thread that has finished is not woken again, and does not have the CPU  *)
(* by the time its carcass is destroyed.                                     *)
CarcassIsGone == \A t \in Threads : t \in destroyed \/ t = threadToBeDestroyed =>
    /\ pc[t] = "finish" /\ status[t] = "BLOCKED"
    /\ t \in destroyed => currentThread # t

(* Interrupts are off while the owner of a lock executes, and will be when it *)
(* does again; so they will for a thread that is on its way to own one.       *)
Uninterrupted == \A t \in Threads :
    /\ \A l \in Locks : lockOwner[l] = t =>
         /\ currentThread = t /\ pc[t] = "client" => level = "Off"
         /\ pc[t] \in {"yield", "P"} => oldLevel[t] = "Off"
         /\ pc[t] # "new"
    /\ pc[t] = "P" /\ waitsOn[t] \in Locks => oldLevel[t] = "Off"

ThreadInv == PlaceInv /\ CarcassIsGone /\ Uninterrupted

(* The carcass is destroyed by a thread that runs. *)
LEMMA DeleteCarcassGone ==
    ASSUME ThreadInv, NEW t \in Threads, Resuming(t), pc[t] # "finish", DeleteCarcass,
           UNCHANGED currentThread,
           \A u \in Threads : u # t => UNCHANGED <<pc[u], status[u]>>
    PROVE  CarcassIsGone'
<1>1. ASSUME NEW u \in Threads, u \in destroyed' \/ u = threadToBeDestroyed'
      PROVE  pc'[u] = "finish" /\ status'[u] = "BLOCKED" /\ currentThread' # u
    <2>1. u \in destroyed \/ u = threadToBeDestroyed
        BY <1>1, KernelAssumption DEF DeleteCarcass
    <2>2. pc[u] = "finish" /\ status[u] = "BLOCKED"
        BY <2>1 DEF ThreadInv, CarcassIsGone
    <2>3. currentThread = t /\ u # t
        BY <2>2 DEF Resuming
    <2> QED BY <2>2, <2>3
<1> QED BY <1>1 DEF CarcassIsGone

(* A step that destroys nothing and lets no finished thread go on. *)
LEMMA CarcassKept ==
    ASSUME ThreadInv, UNCHANGED <<threadToBeDestroyed, destroyed>>,
           \A u \in Threads : pc[u] = "finish" /\ status[u] = "BLOCKED" =>
                /\ pc'[u] = "finish" /\ status'[u] = "BLOCKED"
                /\ currentThread' = u => currentThread = u
    PROVE  CarcassIsGone'
BY DEF ThreadInv, CarcassIsGone

(* A thread that a wakeup readies has not finished. *)
LEMMA WakesUnfinished ==
    ASSUME PlaceInv, NEW q \in Queues, NEW woken \in Seq(Threads),
           Range(woken) \subseteq Range(queue[q])
    PROVE  \A u \in Range(woken) : u \in Threads /\ status[u] = "BLOCKED" /\ pc[u] # "finish"
BY RangeOfSeq DEF PlaceInv, Placed

(* P by the thread that has the CPU: what it saves is "Off" where it has to be. *)
LEMMA AcquireValueLevels ==
    ASSUME ThreadInv, NEW t \in Threads, NEW s \in AllSemaphores, NEW saved,
           AcquireValue(t, s, saved), currentThread = t, UNCHANGED currentThread,
           pc[t] \in {"client", "P", "Wait"},
           s \in Locks => saved = "Off",
           \A l \in Locks : lockOwner[l] = t => saved = "Off"
    PROVE  Uninterrupted'
<1>0. /\ pc \in [Threads -> PCs] /\ oldLevel \in [Threads -> Levels]
      /\ waitsOn \in [Threads -> Queues \cup {NULL}]
      /\ lockOwner \in [Locks -> Threads \cup {NULL}]
    BY DEF ThreadInv, PlaceInv, LockInv, KernelTypeOK, SynchTypeOK
<1>1. CASE value[s] # 0
    <2>1. /\ \A l \in Locks : lockOwner'[l] = IF l = s THEN t ELSE lockOwner[l]
          /\ level' = saved /\ oldLevel' = oldLevel
          /\ pc' = [pc EXCEPT ![t] = "client"]
          /\ waitsOn' = [waitsOn EXCEPT ![t] = NULL]
        BY <1>1 DEF AcquireValue
    <2>2. ASSUME NEW u \in Threads, u # t
          PROVE  pc'[u] = pc[u] /\ waitsOn'[u] = waitsOn[u] /\ oldLevel'[u] = oldLevel[u]
                 /\ currentThread' # u
        BY <1>0, <2>1, <2>2
    <2>3. pc'[t] = "client"
        BY <1>0, <2>1
    <2>4. ASSUME NEW l \in Locks, lockOwner'[l] = t PROVE level' = "Off"
        BY <2>1, <2>4
    <2> QED BY <2>1, <2>2, <2>3, <2>4 DEF ThreadInv, Uninterrupted
<1>2. CASE value[s] = 0
    <2>1. /\ level' = "Off" /\ lockOwner' = lockOwner
          /\ oldLevel' = [oldLevel EXCEPT ![t] = saved]
          /\ pc' = [pc EXCEPT ![t] = "P"]
          /\ waitsOn' = [waitsOn EXCEPT ![t] = s]
        BY <1>2 DEF AcquireValue, ReadyToRunAndSleep
    <2>2. ASSUME NEW u \in Threads, u # t
          PROVE  pc'[u] = pc[u] /\ waitsOn'[u] = waitsOn[u] /\ oldLevel'[u] = oldLevel[u]
                 /\ currentThread' # u
        BY <1>0, <2>1, <2>2
    <2>3. pc'[t] = "P" /\ waitsOn'[t] = s /\ oldLevel'[t] = saved
        BY <1>0, <2>1
    <2> QED BY <2>1, <2>2, <2>3 DEF ThreadInv, Uninterrupted
<1> QED BY <1>1, <1>2

(* A step that gives no lock an owner, and in which no thread enters P and no *)
(* thread becomes the one that executes.                                      *)
LEMMA LevelsKept ==
    ASSUME ThreadInv,
           \A l \in Locks : lockOwner'[l] # NULL => lockOwner'[l] = lockOwner[l],
           UNCHANGED oldLevel,
           level' = level \/ level' = "Off",
           \A u \in Threads :
              /\ currentThread' = u /\ pc'[u] = "client" => currentThread = u /\ pc[u] = "client"
              /\ pc'[u] # pc[u] => pc'[u] \in {"client", "Wait", "finish"}
              /\ pc'[u] = "P" => waitsOn'[u] = waitsOn[u]
    PROVE  Uninterrupted'
BY KernelAssumption DEF ThreadInv, Uninterrupted

LEMMA YieldLevels ==
    ASSUME ThreadInv, NEW t \in Threads, Yield(t), UNCHANGED synchVars
    PROVE  Uninterrupted'
<1>1. CASE readyList = <<>>
    BY <1>1 DEF Yield, ThreadInv, Uninterrupted, synchVars
<1>2. CASE readyList # <<>>
    <2>1. /\ currentThread = t /\ pc[t] = "client"
          /\ currentThread' = Head(readyList) /\ level' = "Off"
          /\ pc' = [pc EXCEPT ![t] = "yield"]
          /\ oldLevel' = [oldLevel EXCEPT ![t] = level]
          /\ UNCHANGED <<lockOwner, waitsOn>>
        BY <1>2 DEF Yield, Executing, synchVars
    <2>2. pc \in [Threads -> PCs] /\ oldLevel \in [Threads -> Levels]
        BY DEF ThreadInv, PlaceInv, LockInv, KernelTypeOK
    <2>3. /\ pc'[t] = "yield" /\ oldLevel'[t] = level
          /\ \A u \in Threads \ {t} : pc'[u] = pc[u] /\ oldLevel'[u] = oldLevel[u]
        BY <2>1, <2>2
    <2> QED BY <2>1, <2>3 DEF ThreadInv, Uninterrupted
<1> QED BY <1>1, <1>2

(* A thread that comes back from Yield gets the level it had. *)
LEMMA YieldReturnLevels ==
    ASSUME ThreadInv, NEW t \in Threads, YieldReturn(t), UNCHANGED synchVars
    PROVE  Uninterrupted'
<1>1. /\ currentThread = t /\ currentThread' = t /\ pc[t] = "yield"
      /\ level' = oldLevel[t] /\ oldLevel' = oldLevel
      /\ pc' = [pc EXCEPT ![t] = "client"]
      /\ UNCHANGED <<lockOwner, waitsOn>>
    BY DEF YieldReturn, Resuming, synchVars
<1>2. pc'[t] = "client" /\ \A u \in Threads \ {t} : pc'[u] = pc[u]
    BY <1>1 DEF ThreadInv, PlaceInv, LockInv, KernelTypeOK
<1> QED BY <1>1, <1>2 DEF ThreadInv, Uninterrupted

(* A thread that starts owns nothing. *)
LEMMA ThreadRootLevels ==
    ASSUME ThreadInv, NEW t \in Threads, ThreadRoot(t), UNCHANGED synchVars
    PROVE  Uninterrupted'
<1>1. /\ currentThread = t /\ currentThread' = t /\ pc[t] = "new"
      /\ pc' = [pc EXCEPT ![t] = "client"]
      /\ UNCHANGED <<lockOwner, waitsOn, oldLevel>>
    BY DEF ThreadRoot, Resuming, synchVars
<1>2. pc'[t] = "client" /\ \A u \in Threads \ {t} : pc'[u] = pc[u]
    BY <1>1 DEF ThreadInv, PlaceInv, LockInv, KernelTypeOK
<1>3. \A l \in Locks : lockOwner[l] # t
    BY <1>1 DEF ThreadInv, Uninterrupted
<1> QED BY <1>1, <1>2, <1>3 DEF ThreadInv, Uninterrupted
-----------------------------------------------------------------------------
(* The threads V has taken out of the queue of s and that have not run since. *)
WokenFor(s) == {t \in Threads : /\ pc[t] = "P" /\ waitsOn[t] = s
                                /\ t \notin Range(queue[s])}

Created == {t \in Threads : status[t] # "JUST_CREATED"}

(* Each unit of a semaphore on which threads sleep has a woken thread coming. *)
WokenSuffice == \A s \in AllSemaphores :
    queue[s] # <<>> => value[s] <= Cardinality(WokenFor(s))

SynchInv == ThreadInv /\ IsFiniteSet(Created) /\ WokenSuffice

(* One thread at a time is created. *)
LEMMA CreatedFinite ==
    ASSUME IsFiniteSet(Created), NEW u,
           \A t \in Threads : status'[t] # "JUST_CREATED" => status[t] # "JUST_CREATED" \/ t = u
    PROVE  IsFiniteSet(Created')
<1>1. Created' \subseteq Created \cup {u}
    BY DEF Created
<1>2. IsFiniteSet(Created \cup {u})
    BY FS_AddElement
<1> QED BY <1>1, <1>2, FS_Subset

LEMMA WokenFinite ==
    ASSUME SynchInv, NEW s
    PROVE  IsFiniteSet(WokenFor(s)) /\ Cardinality(WokenFor(s)) \in Nat
<1>1. WokenFor(s) \subseteq Created
    BY DEF WokenFor, Created, SynchInv, ThreadInv, PlaceInv, Placed
<1> QED BY <1>1, FS_Subset, FS_CardinalityType DEF SynchInv

(* For a semaphore that gets no value and whose woken threads stay woken. *)
LEMMA WokenKept ==
    ASSUME SynchInv, NEW s \in AllSemaphores, WokenFor(s)' = WokenFor(s),
           value'[s] = value[s], queue'[s] # <<>> => queue[s] # <<>>
    PROVE  queue'[s] # <<>> => value'[s] <= Cardinality(WokenFor(s)')
BY DEF SynchInv, WokenSuffice

LEMMA AcquireValueWoken ==
    ASSUME SynchInv, NEW t \in Threads, NEW s \in AllSemaphores, NEW saved,
           AcquireValue(t, s, saved), status[t] = "RUNNING",
           pc[t] \in {"client", "P", "Wait"}, pc[t] = "P" => waitsOn[t] = s,
           IsFiniteSet(Created')
    PROVE  WokenSuffice'
<1>0. /\ value \in [AllSemaphores -> Nat] /\ queue \in [Queues -> Seq(Threads)]
      /\ pc \in [Threads -> PCs] /\ waitsOn \in [Threads -> Queues \cup {NULL}]
      /\ AllSemaphores \subseteq Queues
    BY DEF SynchInv, ThreadInv, PlaceInv, LockInv, KernelTypeOK, SynchTypeOK, Queues
<1>1. ASSUME NEW p \in AllSemaphores, p # s
      PROVE  queue'[p] # <<>> => value'[p] <= Cardinality(WokenFor(p)')
    <2>1. queue'[p] = queue[p] /\ value'[p] = value[p]
        BY <1>0, <1>1 DEF AcquireValue
    <2>2. ASSUME NEW u \in Threads
          PROVE  pc'[u] = "P" /\ waitsOn'[u] = p <=> pc[u] = "P" /\ waitsOn[u] = p
        BY <1>0, <1>1 DEF AcquireValue
    <2>3. WokenFor(p)' = WokenFor(p)
        BY <2>1, <2>2 DEF WokenFor
    <2> QED BY <2>1, <2>3, WokenKept
<1>2. CASE value[s] # 0
    <2>1. queue' = queue /\ value'[s] = value[s] - 1 /\ value[s] \in Nat
        BY <1>0, <1>2 DEF AcquireValue
    <2>2. ASSUME NEW u \in Threads
          PROVE  u \in WokenFor(s)' <=> u \in WokenFor(s) /\ u # t
        <3>1. pc' = [pc EXCEPT ![t] = "client"] /\ waitsOn' = [waitsOn EXCEPT ![t] = NULL]
            BY <1>2 DEF AcquireValue
        <3>2. CASE u = t
            BY <1>0, <3>1, <3>2 DEF WokenFor
        <3>3. CASE u # t
            BY <1>0, <2>1, <3>1, <3>3 DEF WokenFor
        <3> QED BY <3>2, <3>3
    <2>3. WokenFor(s)' = WokenFor(s) \ {t}
        BY <2>2 DEF WokenFor
    <2>4. /\ IsFiniteSet(WokenFor(s)) /\ Cardinality(WokenFor(s)) \in Nat
          /\ Cardinality(WokenFor(s) \ {t}) =
                 IF t \in WokenFor(s) THEN Cardinality(WokenFor(s)) - 1
                 ELSE Cardinality(WokenFor(s))
        BY WokenFinite, FS_RemoveElement
    <2>5. queue[s] # <<>> => value[s] <= Cardinality(WokenFor(s))
        BY DEF SynchInv, WokenSuffice
    <2>6. queue'[s] # <<>> => value'[s] <= Cardinality(WokenFor(s)')
        BY <2>1, <2>3, <2>4, <2>5
    <2> QED BY <1>1, <2>6 DEF WokenSuffice
<1>3. CASE value[s] = 0
    <2>1. value'[s] = 0
        BY <1>3 DEF AcquireValue
    <2>2. WokenFor(s)' \subseteq Created'
        <3>1. \A u \in Threads : pc'[u] = "P" => status'[u] # "JUST_CREATED"
            <4>1. /\ pc' = [pc EXCEPT ![t] = "P"] /\ ReadyToRunAndSleep(t, <<>>)
                BY <1>3 DEF AcquireValue
            <4>2. \A u \in Threads : status'[u] = IF u = t THEN "BLOCKED" ELSE status[u]
                BY <4>1, EmptyRange DEF ReadyToRunAndSleep
            <4>3. \A u \in Threads : pc[u] = "P" => status[u] # "JUST_CREATED"
                BY DEF SynchInv, ThreadInv, PlaceInv, Placed
            <4> QED BY <1>0, <4>1, <4>2, <4>3
        <3> QED BY <3>1 DEF WokenFor, Created
    <2>3. Cardinality(WokenFor(s)') \in Nat
        BY <2>2, FS_Subset, FS_CardinalityType
    <2> QED BY <1>1, <2>1, <2>3 DEF WokenSuffice
<1> QED BY <1>2, <1>3

(* V: the thread it wakes comes for the unit it adds. *)
LEMMA ReleaseValueWoken ==
    ASSUME SynchInv, NEW s \in AllSemaphores, queue'[s] = Rest(s), value'[s] = value[s] + 1,
           \A p \in AllSemaphores \ {s} : queue'[p] = queue[p] /\ value'[p] = value[p],
           \A u \in Threads, p \in AllSemaphores :
              pc'[u] = "P" /\ waitsOn'[u] = p <=> pc[u] = "P" /\ waitsOn[u] = p
    PROVE  WokenSuffice'
<1>0. queue[s] \in Seq(Threads) /\ value[s] \in Nat /\ s \in Queues
    BY DEF SynchInv, ThreadInv, PlaceInv, LockInv, SynchTypeOK, Queues
<1>1. ASSUME NEW p \in AllSemaphores, p # s
      PROVE  queue'[p] # <<>> => value'[p] <= Cardinality(WokenFor(p)')
    <2>1. WokenFor(p)' = WokenFor(p)
        BY <1>1 DEF WokenFor
    <2> QED BY <1>1, <2>1, WokenKept
<1>2. ASSUME queue'[s] # <<>> PROVE value'[s] <= Cardinality(WokenFor(s)')
    <2> DEFINE h == Head(queue[s])
               rest == Tail(queue[s])
    <2>1. queue[s] # <<>> /\ queue'[s] = rest
        BY <1>2 DEF Rest
    <2>2. /\ Range(queue[s]) = Range(rest) \cup {h} /\ h \notin Range(rest)
          /\ h \in Range(queue[s])
        BY <1>0, <2>1, TailRange DEF SynchInv, ThreadInv, PlaceInv, Placed
    <2>3. h \in Threads
        BY <1>0, <2>1, HeadTailProperties
    <2> HIDE DEF h, rest
    <2>4. waitsOn[h] = s /\ pc[h] \in {"P", "Wait"}
        BY <1>0, <2>2, <2>3 DEF SynchInv, ThreadInv, PlaceInv, Placed
    <2>5. pc[h] = "P"
        BY <2>3, <2>4, SynchAssumption DEF SynchInv, ThreadInv, PlaceInv, LockInv, WaitsWell
    <2>6. WokenFor(s)' = WokenFor(s) \cup {h} /\ h \notin WokenFor(s)
        BY <2>1, <2>2, <2>3, <2>4, <2>5 DEF WokenFor
    <2>7. /\ Cardinality(WokenFor(s) \cup {h}) = Cardinality(WokenFor(s)) + 1
          /\ Cardinality(WokenFor(s)) \in Nat
        BY <2>6, WokenFinite, FS_AddElement
    <2>8. value[s] <= Cardinality(WokenFor(s))
        BY <2>1 DEF SynchInv, WokenSuffice
    <2> QED BY <1>0, <2>6, <2>7, <2>8
<1> QED BY <1>1, <1>2 DEF WokenSuffice

(* A step that touches no semaphore, and in which no thread enters or leaves P. *)
LEMMA SemaphoresKept ==
    ASSUME SynchInv,
           \A s \in AllSemaphores :
              value'[s] = value[s] /\ (queue'[s] = queue[s] \/ queue'[s] = <<>>),
           \A u \in Threads, s \in AllSemaphores :
              pc'[u] = "P" /\ waitsOn'[u] = s <=> pc[u] = "P" /\ waitsOn[u] = s
    PROVE  WokenSuffice'
<1>1. ASSUME NEW s \in AllSemaphores, queue'[s] # <<>>
      PROVE  value'[s] <= Cardinality(WokenFor(s)')
    <2>1. queue'[s] = queue[s] /\ value'[s] = value[s]
        BY <1>1
    <2>2. WokenFor(s)' = WokenFor(s)
        BY <2>1 DEF WokenFor
    <2> QED BY <1>1, <2>1, <2>2, WokenKept
<1> QED BY <1>1 DEF WokenSuffice
-----------------------------------------------------------------------------
(* Every routine, by the thread that calls it or goes on with it, preserves *)
(* the whole invariant.                                                     *)
LEMMA AcquireValueSynch ==
    ASSUME SynchInv, NEW t \in Threads, NEW s \in AllSemaphores, NEW saved \in Levels,
           AcquireValue(t, s, saved), UNCHANGED <<currentThread, machine>>,
           currentThread = t, status[t] = "RUNNING",
           pc[t] \in {"client", "P", "Wait"}, pc[t] = "P" => waitsOn[t] = s,
           s \in Locks => saved = "Off",
           \A l \in Locks : lockOwner[l] = t => saved = "Off",
           \/ UNCHANGED <<threadToBeDestroyed, destroyed>>
           \/ Resuming(t) /\ DeleteCarcass
    PROVE  SynchInv'
<1> USE DEF SynchInv, ThreadInv, PlaceInv
<1>0. \A u \in Threads \ {t} : pc'[u] = pc[u] /\ status'[u] = status[u]
    <2>1. pc \in [Threads -> PCs]
        BY DEF LockInv, KernelTypeOK
    <2> QED BY <2>1, EmptyRange DEF AcquireValue, ReadyToRunAndSleep
<1>1. threadToBeDestroyed' \in Threads \cup {NULL} /\ destroyed' \subseteq Threads
    BY DeleteCarcassType DEF LockInv, KernelTypeOK
<1>2. LockInv'
    BY <1>1, AcquireValueInv
<1>3. Placed'
    BY AcquireValuePlaced
<1>4. CarcassIsGone'
    <2>1. CASE UNCHANGED <<threadToBeDestroyed, destroyed>>
        BY <1>0, <2>1, CarcassKept
    <2>2. CASE Resuming(t) /\ DeleteCarcass
        BY <1>0, <2>2, DeleteCarcassGone
    <2> QED BY <2>1, <2>2
<1>5. Uninterrupted'
    BY AcquireValueLevels
<1>6. IsFiniteSet(Created')
    <2>1. \A u \in Threads : status'[u] # "JUST_CREATED" => status[u] # "JUST_CREATED" \/ u = t
        BY <1>0
    <2> QED BY <2>1, CreatedFinite
<1>7. WokenSuffice'
    BY <1>6, AcquireValueWoken
<1> QED BY <1>2, <1>3, <1>4, <1>5, <1>6, <1>7

LEMMA PSynch ==
    ASSUME SynchInv, NEW t \in Threads, NEW s \in Semaphores, P(t, s)
    PROVE  SynchInv'
<1>1. s \in AllSemaphores /\ s \notin Locks /\ level \in Levels
    BY SynchAssumption DEF AllSemaphores, SynchInv, ThreadInv, PlaceInv, LockInv, KernelTypeOK
<1>2. currentThread = t /\ status[t] = "RUNNING" /\ pc[t] = "client"
    BY DEF P, Executing
<1>3. \A l \in Locks : lockOwner[l] = t => level = "Off"
    BY <1>2 DEF SynchInv, ThreadInv, Uninterrupted
<1> QED BY <1>1, <1>2, <1>3, AcquireValueSynch DEF P

LEMMA AcquireSynch ==
    ASSUME SynchInv, NEW t \in Threads, NEW l \in Locks, Acquire(t, l)
    PROVE  SynchInv'
<1>1. l \in AllSemaphores /\ "Off" \in Levels
    BY DEF AllSemaphores, Levels
<1>2. currentThread = t /\ status[t] = "RUNNING" /\ pc[t] = "client"
    BY DEF Acquire, Executing
<1> QED BY <1>1, <1>2, AcquireValueSynch DEF Acquire

LEMMA ResumeSynch ==
    ASSUME SynchInv, NEW t \in Threads, ResumeP(t) \/ ResumeWait(t)
    PROVE  SynchInv'
<1>1. currentThread = t /\ status[t] = "RUNNING"
    BY DEF ResumeP, ResumeWait, Resuming
<1>2. CASE ResumeP(t)
    <2>1. waitsOn[t] \in AllSemaphores /\ oldLevel[t] \in Levels /\ pc[t] = "P"
        BY <1>2 DEF ResumeP, SynchInv, ThreadInv, PlaceInv, LockInv, KernelTypeOK, WaitsWell
    <2>2. /\ waitsOn[t] \in Locks => oldLevel[t] = "Off"
          /\ \A l \in Locks : lockOwner[l] = t => oldLevel[t] = "Off"
        BY <2>1 DEF SynchInv, ThreadInv, Uninterrupted
    <2> QED BY <1>1, <1>2, <2>1, <2>2, AcquireValueSynch DEF ResumeP
<1>3. CASE ResumeWait(t)
    <2>1. relock[t] \in AllSemaphores /\ "Off" \in Levels /\ pc[t] = "Wait"
        BY <1>3 DEF ResumeWait, SynchInv, ThreadInv, PlaceInv, LockInv, WaitsWell, AllSemaphores, Levels
    <2> QED BY <1>1, <1>3, <2>1, AcquireValueSynch DEF ResumeWait
<1> QED BY <1>2, <1>3

(* What all wakeups have in common. *)
LEMMA WakeThread ==
    ASSUME SynchInv, NEW q \in Queues,
           NEW woken \in Seq(Threads), Range(woken) \subseteq Range(queue[q]),
           ReadyToRun(woken),
           UNCHANGED <<currentThread, level, oldLevel, pc, threadToBeDestroyed,
                       destroyed, waitsOn>>,
           \A l \in Locks : lockOwner'[l] # NULL => lockOwner'[l] = lockOwner[l]
    PROVE  CarcassIsGone' /\ Uninterrupted' /\ IsFiniteSet(Created')
<1>1. \A u \in Range(woken) : u \in Threads /\ status[u] = "BLOCKED" /\ pc[u] # "finish"
    BY WakesUnfinished DEF SynchInv, ThreadInv
<1>2. \A u \in Threads : status'[u] = IF u \in Range(woken) THEN "READY" ELSE status[u]
    BY DEF ReadyToRun
<1>3. CarcassIsGone'
    BY <1>1, <1>2, CarcassKept DEF SynchInv
<1>4. Uninterrupted'
    BY LevelsKept DEF SynchInv
<1>5. IsFiniteSet(Created')
    <2>1. \A u \in Threads : status'[u] # "JUST_CREATED" => status[u] # "JUST_CREATED" \/ u = NULL
        BY <1>1, <1>2
    <2> QED BY <2>1, CreatedFinite DEF SynchInv
<1> QED BY <1>3, <1>4, <1>5

(* V by a thread or a handler, and the V inside Release and Unlock. *)
LEMMA ReleaseValueSynch ==
    ASSUME SynchInv, NEW s \in AllSemaphores, ReleaseValue(s), LockInv',
           UNCHANGED <<currentThread, level, oldLevel, pc, threadToBeDestroyed,
                       destroyed, waitsOn>>,
           \A l \in Locks : lockOwner'[l] # NULL => lockOwner'[l] = lockOwner[l]
    PROVE  SynchInv'
<1>0. s \in Queues /\ AllSemaphores \subseteq Queues
    BY DEF Queues
<1> DEFINE woken == First(s)
           rest == Rest(s)
<1>1. /\ woken \in Seq(Threads) /\ rest \in Seq(Threads)
      /\ Range(queue[s]) = Range(woken) \cup Range(rest)
      /\ Range(woken) \cap Range(rest) = {}
      /\ IsInjective(woken) /\ IsInjective(rest)
    BY <1>0, FirstRestRange DEF SynchInv, ThreadInv
<1>2. /\ ReadyToRun(woken) /\ queue' = [queue EXCEPT ![s] = rest]
      /\ value' = [value EXCEPT ![s] = @ + 1]
    BY DEF ReleaseValue
<1>3. WokenSuffice'
    <2>1. value \in [AllSemaphores -> Nat] /\ queue \in [Queues -> Seq(Threads)]
        BY DEF SynchInv, ThreadInv, PlaceInv, LockInv, SynchTypeOK
    <2>2. queue'[s] = Rest(s) /\ value'[s] = value[s] + 1
        BY <1>0, <1>2, <2>1
    <2>3. \A p \in AllSemaphores \ {s} : queue'[p] = queue[p] /\ value'[p] = value[p]
        BY <1>0, <1>2, <2>1
    <2> QED BY <2>2, <2>3, ReleaseValueWoken
<1> HIDE DEF woken, rest
<1>4. Placed'
    BY <1>0, <1>1, <1>2, WakePlaced DEF SynchInv, ThreadInv
<1>5. CarcassIsGone' /\ Uninterrupted' /\ IsFiniteSet(Created')
    BY <1>0, <1>1, <1>2, WakeThread
<1> QED BY <1>3, <1>4, <1>5 DEF SynchInv, ThreadInv, PlaceInv

LEMMA VSynch ==
    ASSUME SynchInv, NEW t \in Threads, NEW s \in Semaphores, V(t, s)
    PROVE  SynchInv'
<1>1. LockInv'
    BY VInv DEF SynchInv, ThreadInv, PlaceInv
<1> QED BY <1>1, ReleaseValueSynch DEF V, AllSemaphores

LEMMA GiveBackSynch ==
    ASSUME SynchInv, NEW l \in Locks, lockOwner[l] # NULL,
           ReleaseValue(l), lockOwner' = [lockOwner EXCEPT ![l] = NULL],
           UNCHANGED <<currentThread, level, oldLevel, pc, threadToBeDestroyed,
                       destroyed, machine, waitsOn, relock>>
    PROVE  SynchInv'
<1>1. LockInv'
    BY ReleaseLockInv DEF SynchInv, ThreadInv, PlaceInv
<1>2. \A k \in Locks : lockOwner'[k] # NULL => lockOwner'[k] = lockOwner[k]
    BY DEF SynchInv, ThreadInv, PlaceInv, LockInv, SynchTypeOK
<1> QED BY <1>1, <1>2, ReleaseValueSynch DEF AllSemaphores

(* A step that only stops the machine, or turns interrupts off. *)
LEMMA QuietSynch ==
    ASSUME SynchInv, machine' \in {"up", "halted", "aborted"}, level' \in {level, "Off"},
           UNCHANGED <<currentThread, status, readyList, oldLevel, pc,
                       threadToBeDestroyed, destroyed>>,
           UNCHANGED synchVars
    PROVE  SynchInv'
<1> USE DEF SynchInv, ThreadInv, PlaceInv, synchVars
<1>1. KernelTypeOK'
    BY DEF LockInv, KernelTypeOK, Levels
<1>2. LockInv'
    BY <1>1, KernelInv
<1>3. Placed'
    BY DEF Placed
<1>4. CarcassIsGone'
    BY DEF CarcassIsGone
<1>5. Uninterrupted'
    BY LevelsKept
<1>6. IsFiniteSet(Created')
    BY DEF Created
<1>7. WokenSuffice'
    BY DEF WokenSuffice, WokenFor
<1> QED BY <1>2, <1>3, <1>4, <1>5, <1>6, <1>7

LEMMA UnlockSynch ==
    ASSUME SynchInv, NEW t \in Threads, NEW l \in Locks, lockOwner[l] = t, Unlock(t, l)
    PROVE  SynchInv'
BY GiveBackSynch, KernelAssumption DEF Unlock

LEMMA ReleaseSynch ==
    ASSUME SynchInv, NEW t \in Threads, NEW l \in Locks, Release(t, l)
    PROVE  SynchInv'
<1>1. CASE lockOwner[l] = t
    BY <1>1, GiveBackSynch, KernelAssumption DEF Release
<1>2. CASE lockOwner[l] # t
    <2>1. machine \in {"up", "halted", "aborted"}
        BY DEF SynchInv, ThreadInv, PlaceInv, LockInv, KernelTypeOK
    <2> QED BY <1>2, <2>1, QuietSynch DEF Release, synchVars
<1> QED BY <1>1, <1>2

(* Semaphore::Destroy and Condition::Broadcast. *)
LEMMA WakeAllSynch ==
    ASSUME SynchInv, NEW t \in Threads, NEW q \in Queues, WakeAll(t, q)
    PROVE  SynchInv'
<1>0. LockInv'
    BY WakeAllInv DEF SynchInv, ThreadInv, PlaceInv
<1> DEFINE woken == queue[q]
           rest == <<>>
<1>1. queue \in [Queues -> Seq(Threads)]
    BY DEF SynchInv, ThreadInv, PlaceInv, LockInv, SynchTypeOK
<1>2. /\ woken \in Seq(Threads) /\ rest \in Seq(Threads)
      /\ Range(queue[q]) = Range(woken) \cup Range(rest)
      /\ Range(woken) \cap Range(rest) = {}
      /\ IsInjective(woken) /\ IsInjective(rest)
    BY <1>1, EmptyRange DEF SynchInv, ThreadInv, PlaceInv, Placed
<1>3. /\ ReadyToRun(woken) /\ queue' = [queue EXCEPT ![q] = rest]
      /\ UNCHANGED <<currentThread, level, oldLevel, pc, threadToBeDestroyed,
                     destroyed, waitsOn, lockOwner, value>>
    BY DEF WakeAll
<1>4. WokenSuffice'
    <2>1. \A s \in AllSemaphores :
              value'[s] = value[s] /\ (queue'[s] = queue[s] \/ queue'[s] = <<>>)
        BY <1>1, <1>3 DEF Queues
    <2> QED BY <1>3, <2>1, SemaphoresKept
<1> HIDE DEF woken, rest
<1>5. Placed'
    BY <1>2, <1>3, WakePlaced DEF SynchInv, ThreadInv
<1>6. CarcassIsGone' /\ Uninterrupted' /\ IsFiniteSet(Created')
    BY <1>2, <1>3, WakeThread
<1> QED BY <1>0, <1>4, <1>5, <1>6 DEF SynchInv, ThreadInv, PlaceInv

LEMMA SignalSynch ==
    ASSUME SynchInv, NEW t \in Threads, NEW c \in Conditions, Signal(t, c)
    PROVE  SynchInv'
<1>0. c \in Queues /\ \A s \in AllSemaphores : s \in Queues /\ s # c
    BY SynchAssumption DEF Queues
<1>1. LockInv'
    BY SignalInv DEF SynchInv, ThreadInv, PlaceInv
<1> DEFINE woken == First(c)
           rest == Rest(c)
<1>2. /\ woken \in Seq(Threads) /\ rest \in Seq(Threads)
      /\ Range(queue[c]) = Range(woken) \cup Range(rest)
      /\ Range(woken) \cap Range(rest) = {}
      /\ IsInjective(woken) /\ IsInjective(rest)
    BY <1>0, FirstRestRange DEF SynchInv, ThreadInv
<1>3. /\ ReadyToRun(woken) /\ queue' = [queue EXCEPT ![c] = rest]
      /\ UNCHANGED <<currentThread, level, oldLevel, pc, threadToBeDestroyed,
                     destroyed, waitsOn, lockOwner, value>>
    BY DEF Signal
<1> HIDE DEF woken, rest
<1>4. WokenSuffice'
    <2>1. queue \in [Queues -> Seq(Threads)]
        BY DEF SynchInv, ThreadInv, PlaceInv, LockInv, SynchTypeOK
    <2>2. \A s \in AllSemaphores : value'[s] = value[s] /\ queue'[s] = queue[s]
        BY <1>0, <1>3, <2>1
    <2> QED BY <1>3, <2>2, SemaphoresKept
<1>5. Placed'
    BY <1>0, <1>2, <1>3, WakePlaced DEF SynchInv, ThreadInv
<1>6. CarcassIsGone' /\ Uninterrupted' /\ IsFiniteSet(Created')
    BY <1>0, <1>2, <1>3, WakeThread
<1> QED BY <1>1, <1>4, <1>5, <1>6 DEF SynchInv, ThreadInv, PlaceInv

LEMMA WaitSynch ==
    ASSUME SynchInv, NEW t \in Threads, NEW c \in Conditions, NEW l \in Locks, Wait(t, c, l)
    PROVE  SynchInv'
<1>0. /\ t # NULL /\ c # l /\ c \in Queues /\ l \in Queues /\ l \in AllSemaphores
      /\ AllSemaphores \subseteq Queues /\ c \notin AllSemaphores
    BY KernelAssumption, SynchAssumption DEF AllSemaphores, Queues
<1>1. CASE lockOwner[l] # t
    <2>1. machine \in {"up", "halted", "aborted"}
        BY DEF SynchInv, ThreadInv, PlaceInv, LockInv, KernelTypeOK
    <2> QED BY <1>0, <1>1, <2>1, QuietSynch DEF Wait, Abort
<1>2. CASE lockOwner[l] = t
    <2>1. LockInv'
        BY WaitInv DEF SynchInv, ThreadInv, PlaceInv
    <2>2. Placed'
        BY WaitPlaced DEF SynchInv, ThreadInv
    <2>3. /\ status[t] = "RUNNING" /\ pc[t] = "client" /\ currentThread = t
          /\ queue' = [queue EXCEPT ![c] = Append(@, t), ![l] = Rest(l)]
          /\ value' = [value EXCEPT ![l] = @ + 1]
          /\ lockOwner' = [lockOwner EXCEPT ![l] = NULL]
          /\ ReadyToRunAndSleep(t, First(l))
          /\ pc' = [pc EXCEPT ![t] = "Wait"]
          /\ waitsOn' = [waitsOn EXCEPT ![t] = c]
          /\ UNCHANGED <<currentThread, oldLevel, threadToBeDestroyed, destroyed>>
        BY <1>0, <1>2 DEF Wait, Executing
    <2>4. /\ pc \in [Threads -> PCs] /\ waitsOn \in [Threads -> Queues \cup {NULL}]
          /\ value \in [AllSemaphores -> Nat] /\ queue \in [Queues -> Seq(Threads)]
          /\ lockOwner \in [Locks -> Threads \cup {NULL}]
        BY DEF SynchInv, ThreadInv, PlaceInv, LockInv, KernelTypeOK, SynchTypeOK
    <2> DEFINE woken == First(l)
    <2>5. \A u \in Range(woken) : u \in Threads /\ status[u] = "BLOCKED" /\ pc[u] # "finish"
        <3>1. woken \in Seq(Threads) /\ Range(woken) \subseteq Range(queue[l])
            BY <1>0, FirstRestRange DEF SynchInv, ThreadInv
        <3> HIDE DEF woken
        <3> QED BY <1>0, <3>1, WakesUnfinished DEF SynchInv, ThreadInv
    <2>6. \A u \in Threads : status'[u] = IF u \in Range(woken) THEN "READY"
                                          ELSE IF u = t THEN "BLOCKED" ELSE status[u]
        BY <2>3 DEF ReadyToRunAndSleep
    <2> HIDE DEF woken
    <2>7. \A u \in Threads : /\ pc'[u] = IF u = t THEN "Wait" ELSE pc[u]
                             /\ waitsOn'[u] = IF u = t THEN c ELSE waitsOn[u]
        BY <2>3, <2>4
    <2>8. CarcassIsGone'
        <3>1. \A u \in Threads : pc[u] = "finish" /\ status[u] = "BLOCKED" =>
                  u # t /\ u \notin Range(woken)
            BY <2>3, <2>5
        <3> QED BY <2>3, <2>6, <2>7, <3>1, CarcassKept DEF SynchInv
    <2>9. Uninterrupted'
        <3>1. level' = "Off"
            BY <2>3 DEF ReadyToRunAndSleep
        <3>2. \A k \in Locks : lockOwner'[k] # NULL => lockOwner'[k] = lockOwner[k]
            BY <2>3, <2>4
        <3> QED BY <2>3, <2>7, <3>1, <3>2, LevelsKept DEF SynchInv
    <2>10. IsFiniteSet(Created')
        <3>1. \A u \in Threads : status'[u] # "JUST_CREATED" => status[u] # "JUST_CREATED" \/ u = t
            BY <2>5, <2>6
        <3> QED BY <3>1, CreatedFinite DEF SynchInv
    <2>11. WokenSuffice'
        <3>1. queue'[l] = Rest(l) /\ value'[l] = value[l] + 1
            BY <1>0, <2>3, <2>4
        <3>2. \A p \in AllSemaphores \ {l} : queue'[p] = queue[p] /\ value'[p] = value[p]
            BY <1>0, <2>3, <2>4
        <3>3. \A u \in Threads, p \in AllSemaphores :
                  pc'[u] = "P" /\ waitsOn'[u] = p <=> pc[u] = "P" /\ waitsOn[u] = p
            BY <2>3, <2>7
        <3> QED BY <1>0, <3>1, <3>2, <3>3, ReleaseValueWoken
    <2> QED BY <2>1, <2>2, <2>8, <2>9, <2>10, <2>11 DEF SynchInv, ThreadInv, PlaceInv
<1> QED BY <1>1, <1>2

(* The kernel's steps, none of which touches a semaphore. *)
LEMMA KernelWoken ==
    ASSUME SynchInv, UNCHANGED synchVars,
           \A t \in Threads : pc'[t] # pc[t] => pc[t] # "P" /\ pc'[t] # "P"
    PROVE  WokenSuffice'
BY SemaphoresKept DEF synchVars

LEMMA YieldSynch ==
    ASSUME SynchInv, NEW t \in Threads, Yield(t), UNCHANGED synchVars
    PROVE  SynchInv'
<1> USE DEF SynchInv, ThreadInv, PlaceInv
<1>1. LockInv' /\ Placed' /\ Uninterrupted'
    BY YieldInv, YieldPlaced, YieldLevels
<1>2. status \in [Threads -> Statuses] /\ pc \in [Threads -> PCs] /\ readyList \in Seq(Threads)
    BY DEF LockInv, KernelTypeOK
<1>3. CASE readyList = <<>>
    <2>1. UNCHANGED <<pc, status, currentThread, threadToBeDestroyed, destroyed>>
        BY <1>3 DEF Yield
    <2>2. Created' = Created
        BY <2>1 DEF Created
    <2> QED BY <1>1, <2>1, <2>2, CarcassKept, KernelWoken
<1>4. CASE readyList # <<>>
    <2> DEFINE next == Head(readyList)
    <2>1. /\ status[t] = "RUNNING" /\ pc[t] = "client"
          /\ status' = [status EXCEPT ![t] = "READY", ![next] = "RUNNING"]
          /\ currentThread' = next
          /\ pc' = [pc EXCEPT ![t] = "yield"]
          /\ UNCHANGED <<threadToBeDestroyed, destroyed>>
        BY <1>4 DEF Yield, Executing
    <2>2. next \in Threads /\ status[next] = "READY"
        BY <1>2, <1>4, TailRange, HeadTailProperties DEF Placed
    <2> HIDE DEF next
    <2>3. \A u \in Threads :
             /\ status'[u] = IF u = next THEN "RUNNING" ELSE IF u = t THEN "READY" ELSE status[u]
             /\ pc'[u] = IF u = t THEN "yield" ELSE pc[u]
        BY <1>2, <2>1, <2>2
    <2>4. CarcassIsGone'
        BY <2>1, <2>2, <2>3, CarcassKept
    <2>5. IsFiniteSet(Created')
        BY <2>1, <2>2, <2>3, CreatedFinite
    <2>6. WokenSuffice'
        BY <2>1, <2>3, KernelWoken
    <2> QED BY <1>1, <2>4, <2>5, <2>6
<1> QED BY <1>3, <1>4

LEMMA FinishSynch ==
    ASSUME SynchInv, NEW t \in Threads, Finish(t), UNCHANGED synchVars
    PROVE  SynchInv'
<1> USE DEF SynchInv, ThreadInv, PlaceInv
<1>1. LockInv' /\ Placed'
    BY FinishInv, FinishPlaced
<1>2. /\ status[t] = "RUNNING" /\ currentThread = t /\ pc[t] = "client"
      /\ threadToBeDestroyed' = t
      /\ UNCHANGED <<currentThread, oldLevel, destroyed>>
      /\ \A u \in Threads : /\ status'[u] = IF u = t THEN "BLOCKED" ELSE status[u]
                            /\ pc'[u] = IF u = t THEN "finish" ELSE pc[u]
    <2>1. pc \in [Threads -> PCs]
        BY DEF LockInv, KernelTypeOK
    <2> QED BY <2>1, EmptyRange DEF Finish, Executing, ReadyToRunAndSleep
<1>3. CarcassIsGone'
    BY <1>2 DEF CarcassIsGone
<1>4. Uninterrupted'
    <2>1. level' = "Off" /\ waitsOn' = waitsOn /\ lockOwner' = lockOwner
        BY DEF Finish, ReadyToRunAndSleep, synchVars
    <2> QED BY <1>2, <2>1, LevelsKept
<1>5. IsFiniteSet(Created')
    BY <1>2, CreatedFinite
<1>6. WokenSuffice'
    BY <1>2, KernelWoken
<1> QED BY <1>1, <1>3, <1>4, <1>5, <1>6

LEMMA ForkSynch ==
    ASSUME SynchInv, NEW t \in Threads, NEW u \in Threads, Fork(t, u), UNCHANGED synchVars
    PROVE  SynchInv'
<1> USE DEF SynchInv, ThreadInv, PlaceInv
<1>1. LockInv' /\ Placed'
    BY ForkInv, ForkPlaced
<1>2. /\ status[u] = "JUST_CREATED"
      /\ UNCHANGED <<currentThread, level, oldLevel, pc, threadToBeDestroyed, destroyed,
                     lockOwner, waitsOn>>
    BY DEF Fork, synchVars
<1>3. \A v \in Threads : status'[v] = IF v = u THEN "READY" ELSE status[v]
    BY SingleRange DEF Fork, ReadyToRun
<1>4. CarcassIsGone'
    BY <1>2, <1>3, CarcassKept
<1>5. Uninterrupted'
    BY <1>2, LevelsKept
<1>6. IsFiniteSet(Created')
    BY <1>3, CreatedFinite
<1>7. WokenSuffice'
    BY <1>2, KernelWoken
<1> QED BY <1>1, <1>4, <1>5, <1>6, <1>7

LEMMA DispatchSynch ==
    ASSUME SynchInv, Dispatch, UNCHANGED synchVars
    PROVE  SynchInv'
<1> USE DEF SynchInv, ThreadInv, PlaceInv
<1>1. LockInv' /\ Placed'
    BY KernelStepInv, DispatchPlaced DEF KernelStep
<1>2. readyList \in Seq(Threads) /\ readyList # <<>> /\ status \in [Threads -> Statuses]
    BY DEF LockInv, KernelTypeOK, Dispatch
<1> DEFINE next == Head(readyList)
<1>3. /\ status' = [status EXCEPT ![next] = "RUNNING"] /\ currentThread' = next
      /\ UNCHANGED <<level, oldLevel, pc, threadToBeDestroyed, destroyed, lockOwner, waitsOn>>
    BY DEF Dispatch, synchVars
<1>4. next \in Threads /\ status[next] = "READY"
    BY <1>2, TailRange, HeadTailProperties DEF Placed
<1> HIDE DEF next
<1>5. \A u \in Threads : status'[u] = IF u = next THEN "RUNNING" ELSE status[u]
    BY <1>2, <1>3
<1>6. CarcassIsGone'
    BY <1>3, <1>4, <1>5, CarcassKept
<1>7. Uninterrupted'
    <2>1. pc[next] # "client"
        BY <1>4 DEF Placed
    <2> QED BY <1>3, <1>4, <2>1, LevelsKept
<1>8. IsFiniteSet(Created')
    BY <1>4, <1>5, CreatedFinite
<1>9. WokenSuffice'
    BY <1>3, KernelWoken
<1> QED BY <1>1, <1>6, <1>7, <1>8, <1>9

(* A thread that starts, and one that comes back from Yield. *)
LEMMA ReturnSynch ==
    ASSUME SynchInv, NEW t \in Threads, ThreadRoot(t) \/ YieldReturn(t), UNCHANGED synchVars
    PROVE  SynchInv'
<1> USE DEF SynchInv, ThreadInv, PlaceInv
<1>1. LockInv' /\ Placed' /\ Uninterrupted'
    BY KernelStepInv, ReturnPlaced, YieldReturnLevels, ThreadRootLevels DEF KernelStep
<1>2. /\ status[t] = "RUNNING" /\ pc[t] \in {"new", "yield"} /\ Resuming(t)
      /\ UNCHANGED <<currentThread, status>>
      /\ \A u \in Threads : pc'[u] = IF u = t THEN "client" ELSE pc[u]
    <2>1. pc \in [Threads -> PCs]
        BY DEF LockInv, KernelTypeOK
    <2> QED BY <2>1 DEF ThreadRoot, YieldReturn, Resuming
<1>3. CarcassIsGone'
    <2>1. CASE ThreadRoot(t)
        BY <1>2, <2>1, CarcassKept DEF ThreadRoot
    <2>2. CASE YieldReturn(t)
        BY <1>2, <2>2, DeleteCarcassGone DEF YieldReturn
    <2> QED BY <2>1, <2>2
<1>4. IsFiniteSet(Created')
    BY <1>2, CreatedFinite
<1>5. WokenSuffice'
    BY <1>2, KernelWoken
<1> QED BY <1>1, <1>3, <1>4, <1>5
-----------------------------------------------------------------------------
(* All that a thread can do through the routines, whatever the client is; a *)
(* lock's V is only the one inside Release, Unlock and Wait.                *)
RoutineCall(t) ==
    \/ (Yield(t) \/ Finish(t) \/ \E u \in Threads : Fork(t, u)) /\ UNCHANGED synchVars
    \/ \E s \in Semaphores : P(t, s) \/ V(t, s)
    \/ \E q \in Queues : WakeAll(t, q)
    \/ \E l \in Locks : Acquire(t, l) \/ Release(t, l) \/ (lockOwner[l] = t /\ Unlock(t, l))
    \/ \E c \in Conditions : Signal(t, c) \/ \E l \in Locks : Wait(t, c, l)

(* V by an interrupt handler, whichever thread was interrupted. *)
HandlerRelease(s) ==
    /\ ReleaseValue(s)
    /\ UNCHANGED <<currentThread, level, oldLevel, pc, threadToBeDestroyed,
                   destroyed, machine, lockOwner, waitsOn, relock>>

(* A step that only stops the machine, or nothing at all. *)
MachineStep ==
    /\ machine' \in {"up", "halted", "aborted"}
    /\ UNCHANGED <<currentThread, status, readyList, level, oldLevel, pc,
                   threadToBeDestroyed, destroyed>>
    /\ UNCHANGED synchVars

RoutineStep ==
    \/ \E t \in Threads : RoutineCall(t)
    \/ SystemStep
    \/ \E s \in Semaphores : HandlerRelease(s)
    \/ MachineStep

LEMMA RoutineInit == KernelInit /\ SynchInit => SynchInv
<1> SUFFICES ASSUME KernelInit, SynchInit PROVE SynchInv
    OBVIOUS
<1>1. KernelTypeOK
    BY KernelAssumption DEF KernelInit, KernelTypeOK, Statuses, Levels, PCs
<1>2. SynchTypeOK
    BY SynchAssumption DEF SynchInit, SynchTypeOK, AllSemaphores
<1>3. WaitsWell
    BY DEF KernelInit, WaitsWell
<1>4. FreeOrBusy
    BY DEF SynchInit, FreeOrBusy, AllSemaphores
<1>5. Placed
    BY EmptyRange, KernelAssumption DEF KernelInit, SynchInit, Placed
<1>6. CarcassIsGone
    BY KernelAssumption DEF KernelInit, CarcassIsGone
<1>7. Uninterrupted
    BY KernelAssumption DEF KernelInit, SynchInit, Uninterrupted
<1>8. IsFiniteSet(Created)
    <2>1. Created \subseteq {Main}
        BY DEF KernelInit, Created
    <2> QED BY <2>1, FS_Singleton, FS_Subset
<1>9. WokenSuffice
    BY DEF SynchInit, WokenSuffice, Queues
<1> QED BY <1>1, <1>2, <1>3, <1>4, <1>5, <1>6, <1>7, <1>8, <1>9
       DEF SynchInv, ThreadInv, PlaceInv, LockInv

LEMMA RoutineStepInv == SynchInv /\ RoutineStep => SynchInv'
<1> SUFFICES ASSUME SynchInv, RoutineStep PROVE SynchInv'
    OBVIOUS
<1>1. ASSUME NEW t \in Threads, RoutineCall(t) PROVE SynchInv'
    <2>1. CASE (Yield(t) \/ Finish(t) \/ \E u \in Threads : Fork(t, u)) /\ UNCHANGED synchVars
        BY <2>1, YieldSynch, FinishSynch, ForkSynch
    <2>2. CASE \E s \in Semaphores : P(t, s) \/ V(t, s)
        BY <2>2, PSynch, VSynch
    <2>3. CASE \E q \in Queues : WakeAll(t, q)
        BY <2>3, WakeAllSynch
    <2>4. CASE \E l \in Locks : Acquire(t, l) \/ Release(t, l) \/ (lockOwner[l] = t /\ Unlock(t, l))
        BY <2>4, AcquireSynch, ReleaseSynch, UnlockSynch
    <2>5. CASE \E c \in Conditions : Signal(t, c) \/ \E l \in Locks : Wait(t, c, l)
        BY <2>5, SignalSynch, WaitSynch
    <2> QED BY <1>1, <2>1, <2>2, <2>3, <2>4, <2>5 DEF RoutineCall
<1>2. CASE SystemStep
    BY <1>2, DispatchSynch, ReturnSynch, ResumeSynch DEF SystemStep, KernelStep
<1>3. ASSUME NEW s \in Semaphores, HandlerRelease(s) PROVE SynchInv'
    <2>1. s \in AllSemaphores /\ s \notin Locks
        BY SynchAssumption DEF AllSemaphores
    <2>2. LockInv'
        <3> USE DEF SynchInv, ThreadInv, PlaceInv, LockInv, HandlerRelease
        <3>1. KernelTypeOK' /\ SynchTypeOK'
            BY <1>3, <2>1, ReleaseValueType DEF KernelTypeOK, SynchTypeOK
        <3>2. WaitsWell'
            BY <1>3 DEF WaitsWell
        <3>3. FreeOrBusy'
            BY <1>3, <2>1 DEF ReleaseValue, FreeOrBusy, SynchTypeOK, AllSemaphores
        <3> QED BY <3>1, <3>2, <3>3
    <2> QED BY <1>3, <2>1, <2>2, ReleaseValueSynch DEF HandlerRelease
<1>4. CASE MachineStep
    BY <1>4, QuietSynch DEF MachineStep
<1> QED BY <1>1, <1>2, <1>3, <1>4 DEF RoutineStep
-----------------------------------------------------------------------------
(* P leaves the owner of every lock alone, except that a free lock gets one. *)
LEMMA AcquireKeepsOwner ==
    ASSUME LockInv, NEW t, NEW s, NEW saved, AcquireValue(t, s, saved),
           NEW l \in Locks, lockOwner[l] # NULL
    PROVE  lockOwner'[l] = lockOwner[l]
<1>1. value[l] = 0
    BY DEF LockInv, FreeOrBusy
<1> QED BY <1>1 DEF AcquireValue, LockInv, SynchTypeOK

(* A step that changes the owner of a held lock clears it, and is the owner's. *)
LEMMA OwnerStep ==
    ASSUME LockInv, RoutineStep, NEW l \in Locks,
           lockOwner[l] # NULL, lockOwner'[l] # lockOwner[l]
    PROVE  lockOwner'[l] = NULL /\ currentThread = lockOwner[l]
<1> DEFINE Goal == lockOwner'[l] = NULL /\ currentThread = lockOwner[l]
<1>0. lockOwner \in [Locks -> Threads \cup {NULL}]
    BY DEF LockInv, SynchTypeOK
<1>1. ASSUME UNCHANGED lockOwner PROVE Goal
    BY <1>1
<1>2. ASSUME NEW t \in Threads, RoutineCall(t) PROVE Goal
    <2>1. ASSUME NEW s, P(t, s) \/ V(t, s) \/ Acquire(t, s) PROVE Goal
        BY <1>1, <2>1, AcquireKeepsOwner DEF P, V, Acquire
    <2>2. ASSUME NEW k \in Locks, Release(t, k) PROVE Goal
        BY <1>0, <2>2 DEF Release, Executing
    <2>3. ASSUME NEW k \in Locks, lockOwner[k] = t, Unlock(t, k) PROVE Goal
        BY <1>0, <2>3 DEF Unlock, Executing
    <2>4. ASSUME NEW c \in Conditions, NEW k \in Locks, Wait(t, c, k) PROVE Goal
        BY <1>0, <1>1, <2>4 DEF Wait, Executing, synchVars
    <2>5. ASSUME NEW q, Signal(t, q) \/ WakeAll(t, q) PROVE Goal
        BY <1>1, <2>5 DEF Signal, WakeAll
    <2> QED BY <1>1, <1>2, <2>1, <2>2, <2>3, <2>4, <2>5 DEF RoutineCall, synchVars
<1>3. CASE SystemStep
    BY <1>1, <1>3, AcquireKeepsOwner DEF SystemStep, ResumeP, ResumeWait, synchVars
<1>4. CASE (\E s \in Semaphores : HandlerRelease(s)) \/ MachineStep
    BY <1>1, <1>4 DEF HandlerRelease, MachineStep, synchVars
<1> QED BY <1>2, <1>3, <1>4 DEF RoutineStep

(* A thread that has been forked never becomes JUST_CREATED again. *)
LEMMA CreatedForGood ==
    ASSUME SynchInv, RoutineStep
    PROVE  \A u \in Threads : status[u] # "JUST_CREATED" => status'[u] # "JUST_CREATED"
<1> DEFINE Goal == \A u \in Threads : status[u] # "JUST_CREATED" => status'[u] # "JUST_CREATED"
<1>0. status \in [Threads -> Statuses]
    BY DEF SynchInv, ThreadInv, PlaceInv, LockInv, KernelTypeOK
<1>1. ASSUME UNCHANGED status PROVE Goal
    BY <1>1
<1>2. ASSUME NEW woken, ReadyToRun(woken) PROVE Goal
    BY <1>2 DEF ReadyToRun
<1>3. ASSUME NEW t, NEW woken, ReadyToRunAndSleep(t, woken) PROVE Goal
    BY <1>3 DEF ReadyToRunAndSleep
<1>4. ASSUME NEW t, NEW s, NEW saved, AcquireValue(t, s, saved) PROVE Goal
    BY <1>1, <1>3, <1>4 DEF AcquireValue
<1>5. ASSUME NEW t \in Threads, Yield(t) PROVE Goal
    BY <1>0, <1>1, <1>5 DEF Yield
<1> HIDE DEF Goal
<1>6. ASSUME NEW t \in Threads, RoutineCall(t) PROVE Goal
    <2>1. ASSUME NEW s, P(t, s) \/ V(t, s) \/ Acquire(t, s) \/ Release(t, s) \/ Unlock(t, s) PROVE Goal
        BY <1>1, <1>2, <1>4, <2>1 DEF P, V, Acquire, Release, Unlock, ReleaseValue
    <2>2. ASSUME NEW q, WakeAll(t, q) \/ Signal(t, q) PROVE Goal
        BY <1>2, <2>2 DEF WakeAll, Signal
    <2>3. ASSUME NEW c, NEW l, Wait(t, c, l) PROVE Goal
        BY <1>1, <1>3, <2>3 DEF Wait, Abort
    <2>4. ASSUME NEW u \in Threads, Fork(t, u) PROVE Goal
        BY <1>2, <2>4 DEF Fork
    <2>5. ASSUME Finish(t) PROVE Goal
        BY <1>3, <2>5 DEF Finish
    <2> QED BY <1>5, <1>6, <2>1, <2>2, <2>3, <2>4, <2>5 DEF RoutineCall
<1>7. ASSUME SystemStep PROVE Goal
    <2>1. ASSUME Dispatch PROVE Goal
        BY <1>0, <2>1 DEF Dispatch, Goal
    <2>2. ASSUME NEW t \in Threads, ThreadRoot(t) \/ YieldReturn(t) \/ ResumeP(t) \/ ResumeWait(t)
          PROVE  Goal
        BY <1>1, <1>4, <2>2 DEF ThreadRoot, YieldReturn, ResumeP, ResumeWait
    <2>3. Dispatch \/ \E t \in Threads : ThreadRoot(t) \/ YieldReturn(t) \/ ResumeP(t) \/ ResumeWait(t)
        BY <1>7 DEF SystemStep, KernelStep
    <2> QED BY <2>1, <2>2, <2>3
<1>8. ASSUME NEW s \in Semaphores, HandlerRelease(s) PROVE Goal
    <2>1. ReadyToRun(First(s))
        BY <1>8 DEF HandlerRelease, ReleaseValue
    <2> QED BY <1>2, <2>1
<1>9. ASSUME MachineStep PROVE Goal
    BY <1>1, <1>9 DEF MachineStep
<1>10. Goal
    BY <1>6, <1>7, <1>8, <1>9 DEF RoutineStep
<1> QED BY <1>10 DEF Goal

(* Interrupts are off whenever t executes: Acquire and Wait leave them off, and *)
(* every switch gives them back as they were.                                   *)
OffFor(t) ==
    /\ pc[t] # "new"
    /\ currentThread = t /\ pc[t] = "client" => level = "Off"
    /\ pc[t] \in {"yield", "P"} => oldLevel[t] = "Off"

(* P by a thread u that saves "Off" if it is t. *)
LEMMA AcquireValueOff ==
    ASSUME SynchInv, NEW t \in Threads, OffFor(t), NEW u \in Threads, NEW s, NEW saved,
           AcquireValue(u, s, saved), currentThread = u, UNCHANGED currentThread,
           u = t => saved = "Off"
    PROVE  OffFor(t)'
<1>0. pc \in [Threads -> PCs] /\ oldLevel \in [Threads -> Levels]
    BY DEF SynchInv, ThreadInv, PlaceInv, LockInv, KernelTypeOK
<1>1. CASE value[s] # 0
    BY <1>0, <1>1 DEF AcquireValue, OffFor
<1>2. CASE value[s] = 0
    BY <1>0, <1>2 DEF AcquireValue, ReadyToRunAndSleep, OffFor
<1> QED BY <1>1, <1>2

(* Once interrupts are off for a thread, no routine turns them on for it. *)
LEMMA OffForGood ==
    ASSUME SynchInv, RoutineStep, NEW t \in Threads, OffFor(t)
    PROVE  OffFor(t)'
<1>0. /\ pc \in [Threads -> PCs] /\ oldLevel \in [Threads -> Levels]
      /\ readyList \in Seq(Threads)
    BY DEF SynchInv, ThreadInv, PlaceInv, LockInv, KernelTypeOK
<1>1. ASSUME UNCHANGED <<currentThread, oldLevel, pc>>, level' \in {level, "Off"} PROVE OffFor(t)'
    BY <1>1 DEF OffFor
<1>2. ASSUME NEW u \in Threads, RoutineCall(u) PROVE OffFor(t)'
    <2>1. CASE Yield(u)
        <3>1. CASE readyList = <<>>
            BY <1>1, <2>1, <3>1 DEF Yield
        <3>2. CASE readyList # <<>>
            <4>1. /\ currentThread = u /\ pc[u] = "client" /\ level' = "Off"
                  /\ pc' = [pc EXCEPT ![u] = "yield"]
                  /\ oldLevel' = [oldLevel EXCEPT ![u] = level]
                BY <2>1, <3>2 DEF Yield, Executing
            <4> QED BY <1>0, <4>1 DEF OffFor
        <3> QED BY <3>1, <3>2
    <2>2. CASE Finish(u)
        BY <1>0, <2>2 DEF Finish, ReadyToRunAndSleep, OffFor
    <2>3. ASSUME NEW v \in Threads, Fork(u, v) PROVE OffFor(t)'
        BY <1>1, <2>3 DEF Fork
    <2>4. ASSUME NEW s, P(u, s) \/ Acquire(u, s) PROVE OffFor(t)'
        BY <2>4, AcquireValueOff DEF P, Acquire, Executing, OffFor
    <2>5. ASSUME NEW s, V(u, s) \/ Release(u, s) \/ Unlock(u, s) \/ WakeAll(u, s) \/ Signal(u, s)
          PROVE  OffFor(t)'
        BY <1>1, <2>5 DEF V, Release, Unlock, WakeAll, Signal
    <2>6. ASSUME NEW c, NEW l, Wait(u, c, l) PROVE OffFor(t)'
        <3>1. CASE pc' = [pc EXCEPT ![u] = "Wait"] /\ level' = "Off" /\ UNCHANGED oldLevel
            BY <1>0, <3>1 DEF OffFor
        <3>2. CASE UNCHANGED <<currentThread, oldLevel, pc>> /\ level' \in {level, "Off"}
            BY <1>1, <3>2
        <3> QED BY <2>6, <3>1, <3>2 DEF Wait, Abort, ReadyToRunAndSleep
    <2> QED BY <1>2, <2>1, <2>2, <2>3, <2>4, <2>5, <2>6 DEF RoutineCall
<1>3. CASE Dispatch
    <2> DEFINE next == Head(readyList)
    <2>1. /\ readyList # <<>> /\ currentThread' = next
          /\ UNCHANGED <<level, oldLevel, pc>>
        BY <1>3 DEF Dispatch
    <2>2. next \in Threads /\ pc[next] # "client"
        BY <1>0, <2>1, TailRange, HeadTailProperties DEF SynchInv, ThreadInv, PlaceInv, Placed
    <2> HIDE DEF next
    <2> QED BY <2>1, <2>2 DEF OffFor
<1>4. ASSUME NEW u \in Threads, ThreadRoot(u) \/ YieldReturn(u) PROVE OffFor(t)'
    <2>1. /\ currentThread = u /\ currentThread' = u /\ oldLevel' = oldLevel
          /\ pc' = [pc EXCEPT ![u] = "client"]
        BY <1>4 DEF ThreadRoot, YieldReturn, Resuming
    <2>2. u = t => pc[t] = "yield" /\ level' = oldLevel[t]
        BY <1>4 DEF ThreadRoot, YieldReturn, OffFor
    <2> QED BY <1>0, <2>1, <2>2 DEF OffFor
<1>5. ASSUME NEW u \in Threads, ResumeP(u) \/ ResumeWait(u) PROVE OffFor(t)'
    BY <1>5, AcquireValueOff DEF ResumeP, ResumeWait, Resuming, OffFor
<1>6. CASE (\E s \in Semaphores : HandlerRelease(s)) \/ MachineStep
    BY <1>1, <1>6 DEF HandlerRelease, MachineStep
<1> QED BY <1>2, <1>3, <1>4, <1>5, <1>6 DEF RoutineStep, SystemStep, KernelStep

-----------------------------------------------------------------------------
(* What the routines do to the place and the status of each thread. *)
Kept(u) == pc'[u] = pc[u] /\ waitsOn'[u] = waitsOn[u] /\ relock'[u] = relock[u]
SameStatus(u) ==
    /\ status'[u] = "BLOCKED" <=> status[u] = "BLOCKED"
    /\ status'[u] = "JUST_CREATED" <=> status[u] = "JUST_CREATED"

LEMMA YieldEffect ==
    ASSUME SynchInv, NEW t \in Threads, Yield(t)
    PROVE  \A u \in Threads : /\ SameStatus(u)
                              /\ pc'[u] = pc[u] \/ (pc[u] = "client" /\ pc'[u] = "yield")
<1>0. /\ status \in [Threads -> Statuses] /\ pc \in [Threads -> PCs] /\ readyList \in Seq(Threads)
    BY DEF SynchInv, ThreadInv, PlaceInv, LockInv, KernelTypeOK
<1>1. CASE readyList = <<>>
    BY <1>1 DEF Yield, SameStatus
<1>2. CASE readyList # <<>>
    <2> DEFINE next == Head(readyList)
    <2>1. next \in Threads /\ status[next] = "READY"
        BY <1>0, <1>2, TailRange, HeadTailProperties DEF SynchInv, ThreadInv, PlaceInv, Placed
    <2>2. /\ status' = [status EXCEPT ![t] = "READY", ![next] = "RUNNING"]
          /\ pc' = [pc EXCEPT ![t] = "yield"] /\ status[t] = "RUNNING" /\ pc[t] = "client"
        BY <1>2 DEF Yield, Executing
    <2> HIDE DEF next
    <2> QED BY <1>0, <2>1, <2>2 DEF SameStatus
<1> QED BY <1>1, <1>2

LEMMA DispatchEffect ==
    ASSUME SynchInv, Dispatch
    PROVE  \A u \in Threads : SameStatus(u) /\ pc'[u] = pc[u]
<1>0. status \in [Threads -> Statuses] /\ readyList \in Seq(Threads) /\ readyList # <<>>
    BY DEF SynchInv, ThreadInv, PlaceInv, LockInv, KernelTypeOK, Dispatch
<1> DEFINE next == Head(readyList)
<1>1. next \in Threads /\ status[next] = "READY"
    BY <1>0, TailRange, HeadTailProperties DEF SynchInv, ThreadInv, PlaceInv, Placed
<1>2. status' = [status EXCEPT ![next] = "RUNNING"] /\ pc' = pc
    BY DEF Dispatch
<1> HIDE DEF next
<1> QED BY <1>0, <1>1, <1>2 DEF SameStatus

LEMMA FinishEffect ==
    ASSUME SynchInv, NEW t \in Threads, Finish(t)
    PROVE  /\ status[t] = "RUNNING" /\ pc[t] = "client" /\ pc'[t] = "finish"
           /\ \A u \in Threads : u # t => status'[u] = status[u] /\ pc'[u] = pc[u]
           /\ status'[t] = "BLOCKED"
<1>1. pc \in [Threads -> PCs]
    BY DEF SynchInv, ThreadInv, PlaceInv, LockInv, KernelTypeOK
<1> QED BY <1>1, EmptyRange DEF Finish, Executing, ReadyToRunAndSleep

LEMMA ForkEffect ==
    ASSUME NEW t \in Threads, NEW u \in Threads, Fork(t, u)
    PROVE  /\ pc' = pc /\ status[u] = "JUST_CREATED"
           /\ \A v \in Threads : status'[v] = IF v = u THEN "READY" ELSE status[v]
BY SingleRange DEF Fork, ReadyToRun

(* V readies a thread inside P, or none. *)
LEMMA ReleaseWakes ==
    ASSUME SynchInv, NEW s \in AllSemaphores
    PROVE  \A u \in Range(First(s)) : u \in Threads /\ pc[u] = "P" /\ status[u] = "BLOCKED"
<1>1. s \in Queues /\ s \notin Conditions
    BY SynchAssumption DEF Queues
<1>2. First(s) \in Seq(Threads) /\ Range(First(s)) \subseteq Range(queue[s])
    BY <1>1, FirstRestRange DEF SynchInv, ThreadInv
<1>3. \A u \in Range(First(s)) : u \in Threads
    BY <1>2, RangeOfSeq
<1> QED BY <1>1, <1>2, <1>3 DEF SynchInv, ThreadInv, PlaceInv, LockInv, Placed, WaitsWell

(* P gets a value, and with it the lock, or waits; other objects, and other *)
(* threads, are left alone.                                                 *)
LEMMA TakeEffect ==
    ASSUME SynchInv, NEW t \in Threads, NEW s \in AllSemaphores, NEW saved,
           AcquireValue(t, s, saved)
    PROVE  /\ \A u \in Threads : u # t => Kept(u)
           /\ \A q \in Queues : q # s => queue'[q] = queue[q]
           /\ \A r \in AllSemaphores : r # s => value'[r] = value[r]
           /\ \A l \in Locks : l # s => lockOwner'[l] = lockOwner[l]
           /\ \/ /\ value[s] # 0 /\ value'[s] = value[s] - 1 /\ pc'[t] = "client"
                 /\ s \in Locks => lockOwner[s] = NULL /\ lockOwner'[s] = t
              \/ /\ value[s] = 0 /\ value'[s] = 0 /\ pc'[t] = "P" /\ waitsOn'[t] = s
                 /\ s \in Locks => lockOwner[s] # NULL /\ lockOwner'[s] = lockOwner[s]
<1>0. /\ pc \in [Threads -> PCs] /\ waitsOn \in [Threads -> Queues \cup {NULL}]
      /\ relock \in [Threads -> Locks \cup {NULL}] /\ value \in [AllSemaphores -> Nat]
      /\ queue \in [Queues -> Seq(Threads)] /\ lockOwner \in [Locks -> Threads \cup {NULL}]
      /\ s \in Queues
      /\ s \in Locks => value[s] = IF lockOwner[s] = NULL THEN 1 ELSE 0
    BY DEF SynchInv, ThreadInv, PlaceInv, LockInv, KernelTypeOK, SynchTypeOK, FreeOrBusy, Queues
<1>1. CASE value[s] # 0
    <2>1. /\ value' = [value EXCEPT ![s] = @ - 1]
          /\ lockOwner' = [l \in Locks |-> IF l = s THEN t ELSE lockOwner[l]]
          /\ pc' = [pc EXCEPT ![t] = "client"]
          /\ waitsOn' = [waitsOn EXCEPT ![t] = NULL]
          /\ relock' = [relock EXCEPT ![t] = NULL]
          /\ queue' = queue
        BY <1>1 DEF AcquireValue
    <2> QED BY <1>0, <1>1, <2>1 DEF Kept
<1>2. CASE value[s] = 0
    <2>1. /\ value' = value /\ lockOwner' = lockOwner
          /\ pc' = [pc EXCEPT ![t] = "P"]
          /\ waitsOn' = [waitsOn EXCEPT ![t] = s]
          /\ relock' = [relock EXCEPT ![t] = NULL]
          /\ queue' = [queue EXCEPT ![s] = Append(@, t)]
        BY <1>2 DEF AcquireValue
    <2> QED BY <1>0, <1>2, <2>1 DEF Kept
<1> QED BY <1>1, <1>2

(* V adds a unit and moves threads only between its queue and the ready list. *)
LEMMA GiveEffect ==
    ASSUME SynchInv, NEW s \in AllSemaphores, ReleaseValue(s)
    PROVE  /\ value'[s] = value[s] + 1
           /\ \A r \in AllSemaphores : r # s => value'[r] = value[r]
           /\ \A q \in Queues : q # s => queue'[q] = queue[q]
BY DEF ReleaseValue, SynchInv, ThreadInv, PlaceInv, LockInv, SynchTypeOK, Queues

-----------------------------------------------------------------------------
(* What the most general client, SynchClient, is guaranteed. *)

(* The client does nothing but call the routines. *)
LEMMA ClientIsRoutine ==
    ASSUME SynchInv, [ClientNext]_routineVars
    PROVE  RoutineStep
<1>0. machine \in {"up", "halted", "aborted"}
    BY DEF SynchInv, ThreadInv, PlaceInv, LockInv, KernelTypeOK
<1>1. ASSUME NEW t \in Threads, ClientCall(t) PROVE RoutineCall(t)
    <2>1. Semaphores \subseteq Queues /\ Conditions \subseteq Queues
        BY DEF Queues, AllSemaphores
    <2>2. CASE ThreadCall(t)
        BY <2>2 DEF ThreadCall, RoutineCall
    <2>3. CASE SemaphoreCall(t)
        BY <2>1, <2>3 DEF SemaphoreCall, Destroy, RoutineCall
    <2>4. CASE LockCall(t)
        BY <2>4 DEF LockCall, RoutineCall
    <2>5. CASE ConditionCall(t)
        BY <2>1, <2>5 DEF ConditionCall, Broadcast, RoutineCall
    <2> QED BY <1>1, <2>2, <2>3, <2>4, <2>5 DEF ClientCall
<1>2. CASE (Idle \/ Stopped) /\ UNCHANGED synchVars
    BY <1>0, <1>2 DEF Idle, Stopped, kernelVars, RoutineStep, MachineStep
<1>3. CASE UNCHANGED routineVars
    BY <1>0, <1>3 DEF routineVars, kernelVars, RoutineStep, MachineStep
<1> QED BY <1>1, <1>2, <1>3 DEF ClientNext, RoutineStep

LEMMA ClientInvariant == ClientSpec => []SynchInv
<1>1. ClientInit => SynchInv
    BY RoutineInit DEF ClientInit
<1>2. SynchInv /\ [ClientNext]_routineVars => SynchInv'
    BY ClientIsRoutine, RoutineStepInv
<1> QED BY <1>1, <1>2, PTL DEF ClientSpec

-----------------------------------------------------------------------------
(* Every variable of thread.cc, scheduler.cc and synch.cc holds one of its    *)
(* values: no list holds anything but threads, no semaphore goes below 0.     *)
THEOREM ClientsAreTyped == ClientSpec => []ClientTypeOK
<1>1. SynchInv => ClientTypeOK
    BY DEF SynchInv, ThreadInv, PlaceInv, LockInv, ClientTypeOK
<1> QED BY <1>1, ClientInvariant, PTL

(* A lock is BUSY exactly while it has an owner: synch.cc's Lock, on top of   *)
(* Semaphore.                                                                 *)
THEOREM LocksAreSound == ClientSpec => []LockState
<1>1. SynchInv => LockState
    BY DEF SynchInv, ThreadInv, PlaceInv, LockInv, FreeOrBusy, LockState
<1> QED BY <1>1, ClientInvariant, PTL

(* How often a thread occurs on a list without repetition. *)
LEMMA OccursOnce ==
    ASSUME NEW q, IsInjective(q), NEW t
    PROVE  Occurrences(q, t) = IF t \in Range(q) THEN 1 ELSE 0
<1> DEFINE places == {i \in DOMAIN q : q[i] = t}
<1>1. CASE t \in Range(q)
    <2>1. PICK i \in DOMAIN q : q[i] = t
        BY <1>1 DEF Range
    <2>2. places = {i}
        BY <2>1 DEF IsInjective
    <2> QED BY <1>1, <2>2, FS_Singleton DEF Occurrences
<1>2. CASE t \notin Range(q)
    <2>1. places = {}
        BY <1>2 DEF Range
    <2> QED BY <1>2, <2>1, FS_EmptySet DEF Occurrences
<1> QED BY <1>1, <1>2

(* No routine of thread.cc, scheduler.cc or synch.cc loses a thread or puts   *)
(* it on two lists, however the calls of the threads interleave.              *)
THEOREM ThreadsInOnePlace == ClientSpec => []OnePlace
<1>1. ASSUME SynchInv PROVE OnePlace
    <2>1. Placed
        BY <1>1 DEF SynchInv, ThreadInv, PlaceInv
    <2>2. ASSUME NEW t \in Threads
          PROVE  Occurrences(readyList, t) = IF status[t] = "READY" THEN 1 ELSE 0
        BY <2>1, OccursOnce DEF Placed
    <2>3. ASSUME NEW t \in Threads, NEW q \in Queues
          PROVE  Occurrences(queue[q], t) =
                    IF status[t] = "BLOCKED" /\ pc[t] # "finish" /\ waitsOn[t] = q
                    THEN 1 ELSE 0
        <3>1. Occurrences(queue[q], t) = IF t \in Range(queue[q]) THEN 1 ELSE 0
            BY <2>1, OccursOnce DEF Placed
        <3> QED BY <2>1, <3>1 DEF Placed
    <2>4. \A t \in Threads :
             /\ status[t] = "RUNNING" => currentThread = t
             /\ status[t] = "BLOCKED" => pc[t] \in {"P", "Wait", "finish"}
             /\ status[t] = "JUST_CREATED" => pc[t] = "new"
        BY <2>1 DEF Placed
    <2> QED BY <2>2, <2>3, <2>4 DEF OnePlace
<1> QED BY <1>1, ClientInvariant, PTL

(* Semaphore::V wakes enough threads: none sleeps on while units are left     *)
(* that nobody has been woken for.                                            *)
THEOREM NoWakeupIsLost == ClientSpec => []NoLostWakeup
<1>1. ASSUME SynchInv PROVE NoLostWakeup
    <2>1. ASSUME NEW s \in AllSemaphores PROVE Woken(s) = WokenFor(s)
        BY DEF Woken, WokenFor, Range
    <2> QED BY <1>1, <2>1 DEF SynchInv, WokenSuffice, NoLostWakeup
<1> QED BY <1>1, ClientInvariant, PTL

(* Lock::Acquire leaves interrupts off, so a critical section is never        *)
(* interrupted: not by the timer, nor by a handler, however often its thread  *)
(* gives the CPU away and gets it back.                                       *)
THEOREM OwnersRunUninterrupted == ClientSpec => []OwnerUninterrupted
<1>1. SynchInv => OwnerUninterrupted
    BY DEF SynchInv, ThreadInv, Uninterrupted, OwnerUninterrupted
<1> QED BY <1>1, ClientInvariant, PTL

(* The ASSERT of ~Thread holds, and no destroyed thread is switched to.       *)
THEOREM DestroyedNeverRun == ClientSpec => []DestroyedIsGone
<1>1. SynchInv => DestroyedIsGone
    BY DEF SynchInv, ThreadInv, PlaceInv, LockInv, KernelTypeOK, CarcassIsGone, DestroyedIsGone
<1> QED BY <1>1, ClientInvariant, PTL

(* Mutual exclusion over time: a lock passes from one thread to another only  *)
(* through the first one's own Release, Unlock or Wait.                       *)
THEOREM OwnersKeepLocks == ClientSpec => OwnerKeepsLock
<1>1. SynchInv /\ [ClientNext]_routineVars =>
        [\A l \in Locks : lockOwner[l] # NULL /\ lockOwner'[l] # lockOwner[l] =>
            lockOwner'[l] = NULL /\ currentThread = lockOwner[l]]_routineVars
    BY ClientIsRoutine, OwnerStep DEF SynchInv, ThreadInv, PlaceInv
<1> QED BY <1>1, ClientInvariant, PTL DEF ClientSpec, OwnerKeepsLock
=============================================================================
