--------------------------- MODULE ConsoleTestProofs ---------------------------
(***************************************************************************)
(* The echo of ConsoleTest is exact for every text, typed or from a file.  *)
(***************************************************************************)
EXTENDS ConsoleTest, NachosSynchProofs

(* Where ConsoleTest is, and what the buffer holds. *)
At ==
    /\ pc[Main] \in {"client", "P"}
    /\ pc[Main] = "P" => \/ step = "echo" /\ waitsOn[Main] = readAvail
                         \/ step = "test" /\ waitsOn[Main] = writeDone
    /\ typed \in Seq(Chars)
    /\ incoming # EOF => taken > 0 /\ incoming = typed[taken]

(* Only Read's ASSERT can fail, at the end of a file. *)
AbortsAtEnd == machine = "aborted" => fromFile /\ taken = Len(typed) /\ incoming = EOF

ConsoleInv == SynchInv /\ TypeOK /\ At /\ Announced /\ EchoesInOrder /\ AbortsAtEnd

-----------------------------------------------------------------------------
(* What ConsoleAssumption says of the constants, in the words of NachosSynch. *)
LEMMA ConsoleConstants ==
    /\ Threads = {Main} /\ NULL # Main
    /\ Semaphores = {readAvail, writeDone} /\ readAvail # writeDone
    /\ AllSemaphores = {readAvail, writeDone} /\ Locks = {} /\ Conditions = {}
    /\ q \in Chars /\ EOF \notin Chars /\ MaxChars \in Nat
<1>1. readAvail # writeDone
    BY DEF readAvail, writeDone
<1> QED BY <1>1, ConsoleAssumption, KernelAssumption DEF AllSemaphores

(* One more element of a prefix. *)
LEMMA LongerPrefix ==
    ASSUME NEW S, NEW s \in Seq(S), NEW n \in 1 .. Len(s)
    PROVE  SubSeq(s, 1, n) = Append(SubSeq(s, 1, n - 1), s[n])
<1>1. n - 1 \in 0 .. Len(s) /\ Len(s) \in Nat
    OBVIOUS
<1>2. SubSeq(s, 1, n) \in Seq(S) /\ Len(SubSeq(s, 1, n)) = n
    /\ \A i \in 1 .. n : SubSeq(s, 1, n)[i] = s[i]
    BY SubSeqProperties
<1>3. SubSeq(s, 1, n - 1) \in Seq(S) /\ Len(SubSeq(s, 1, n - 1)) = n - 1
    /\ \A i \in 1 .. n - 1 : SubSeq(s, 1, n - 1)[i] = s[i]
    BY <1>1, SubSeqProperties
<1> DEFINE p == SubSeq(s, 1, n - 1)
           r == SubSeq(s, 1, n)
<1>4. s[n] \in S
    OBVIOUS
<1> HIDE DEF p, r
<1>5. /\ Append(p, s[n]) \in Seq(S) /\ Len(Append(p, s[n])) = n
      /\ Append(p, s[n])[n] = s[n]
      /\ \A i \in 1 .. n - 1 : Append(p, s[n])[i] = p[i]
    BY <1>1, <1>3, <1>4, AppendProperties DEF p
<1>6. \A i \in 1 .. n : r[i] = Append(p, s[n])[i]
    <2>1. \A i \in 1 .. n : i = n \/ i \in 1 .. n - 1
        OBVIOUS
    <2> QED BY <1>2, <1>3, <1>5, <2>1 DEF p, r
<1>7. r \in Seq(S) /\ Len(r) = n
    BY <1>2 DEF r
<1>8. r = Append(p, s[n])
    BY <1>5, <1>6, <1>7, SeqEqual
<1> QED BY <1>8 DEF p, r

LEMMA ConsoleIsRoutine ==
    ASSUME SynchInv, [Next]_vars
    PROVE  RoutineStep
<1>0. machine \in {"up", "halted", "aborted"}
    BY DEF SynchInv, ThreadInv, PlaceInv, LockInv, KernelTypeOK
<1>1. Await => RoutineStep
    BY <1>0, ConsoleConstants
    DEF Await, RoutineStep, RoutineCall
<1>2. Echo \/ TestForQ \/ PollInVain => RoutineStep
    BY <1>0 DEF Echo, TestForQ, PollInVain, Abort, vars, kernelVars, RoutineStep, MachineStep
<1>3. CheckCharAvail \/ WriteDone => RoutineStep
    BY ConsoleConstants
    DEF CheckCharAvail, WriteDone, HandlerV, HandlerRelease, Abort, RoutineStep, MachineStep
<1>4. (SystemStep \/ (Stopped /\ UNCHANGED synchVars) \/ UNCHANGED vars) => RoutineStep
    BY <1>0 DEF Stopped, vars, kernelVars, RoutineStep, MachineStep
<1> QED BY <1>1, <1>2, <1>3, <1>4 DEF Next

-----------------------------------------------------------------------------
(* P by ConsoleTest, tested for the first time or again. *)
LEMMA TakeUnit ==
    ASSUME ConsoleInv, NEW s \in AllSemaphores, NEW saved, AcquireValue(Main, s, saved)
    PROVE  /\ value[s] # 0 => /\ value' = [value EXCEPT ![s] = @ - 1]
                              /\ value'[s] = value[s] - 1 /\ pc'[Main] = "client"
           /\ value[s] = 0 => value' = value /\ pc'[Main] = "P" /\ waitsOn'[Main] = s
           /\ \A p \in AllSemaphores : p # s => value'[p] = value[p]
           /\ value[s] \in Nat
BY ConsoleConstants DEF ConsoleInv, TypeOK, KernelTypeOK, SynchTypeOK, AcquireValue

LEMMA AwaitConsole ==
    ASSUME ConsoleInv, SynchInv', Await
    PROVE  ConsoleInv'
<1>0. /\ value \in [AllSemaphores -> Nat]
      /\ UNCHANGED <<fromFile, typed, taken, incoming, putBusy, display, ch, machine>>
      /\ pc[Main] = "client"
    BY DEF ConsoleInv, TypeOK, SynchTypeOK, Await, P, Executing
<1>1. TypeOK' /\ EchoesInOrder' /\ AbortsAtEnd'
    <2>1. KernelTypeOK' /\ SynchTypeOK'
        BY DEF SynchInv, ThreadInv, PlaceInv, LockInv
    <2>2. step' \in {"await", "echo", "write", "test"}
        BY DEF Await
    <2> QED BY <1>0, <2>1, <2>2 DEF ConsoleInv, TypeOK, EchoesInOrder, AbortsAtEnd
<1>2. CASE step = "await" /\ P(Main, readAvail) /\ step' = "echo"
    <2>1. AcquireValue(Main, readAvail, level)
        BY <1>2 DEF P
    <2>2. At'
        BY <1>0, <1>2, <2>1, TakeUnit, ConsoleConstants DEF ConsoleInv, At
    <2>3. Announced'
        BY <1>0, <1>2, <2>1, TakeUnit, ConsoleConstants DEF ConsoleInv, Announced
    <2> QED BY <1>1, <2>2, <2>3 DEF ConsoleInv
<1>3. CASE step = "write" /\ P(Main, writeDone) /\ step' = "test"
    <2>1. AcquireValue(Main, writeDone, level)
        BY <1>3 DEF P
    <2>2. At' /\ Announced'
        BY <1>0, <1>3, <2>1, TakeUnit, ConsoleConstants DEF ConsoleInv, TypeOK, At, Announced
    <2> QED BY <1>1, <2>2 DEF ConsoleInv
<1> QED BY <1>2, <1>3 DEF Await

LEMMA EchoConsole ==
    ASSUME ConsoleInv, SynchInv', Echo
    PROVE  ConsoleInv'
<1>1. step = "echo" /\ pc[Main] = "client" /\ machine = "up"
    BY DEF Echo, Executing
<1>2. value[readAvail] \in Nat /\ value[writeDone] \in Nat /\ putBusy \in BOOLEAN
    BY ConsoleConstants DEF ConsoleInv, TypeOK, SynchTypeOK
<1>3. incoming # EOF /\ value[readAvail] = 0 /\ ~ putBusy /\ value[writeDone] = 0
    BY <1>1, <1>2 DEF ConsoleInv, Announced
<1>4. /\ ch' = incoming /\ incoming' = EOF /\ display' = Append(display, incoming)
      /\ putBusy' = TRUE /\ step' = "write"
      /\ UNCHANGED <<kernelVars, synchVars, fromFile, typed, taken>>
    BY <1>3 DEF Echo
<1>5. incoming = typed[taken] /\ taken \in 1 .. Len(typed) /\ typed \in Seq(Chars)
    BY <1>3 DEF ConsoleInv, At, TypeOK
<1>6. display = SubSeq(typed, 1, taken - 1)
    BY <1>3 DEF ConsoleInv, EchoesInOrder
<1>7. display' = SubSeq(typed, 1, taken)
    BY <1>4, <1>5, <1>6, LongerPrefix
<1>8. EchoesInOrder'
    BY <1>4, <1>5, <1>7 DEF EchoesInOrder
<1>9. TypeOK'
    <2>1. \A i \in 1 .. taken : typed[i] \in Chars
        BY <1>5
    <2>2. display' \in Seq(Chars)
        BY <1>5, <1>7, <2>1, SubSeqProperties
    <2>3. \A i \in DOMAIN display' : display'[i] \in Chars
        BY <2>2
    <2>4. KernelTypeOK' /\ SynchTypeOK'
        BY DEF SynchInv, ThreadInv, PlaceInv, LockInv
    <2> QED BY <1>4, <1>5, <2>3, <2>4 DEF ConsoleInv, TypeOK
<1>10. At' /\ Announced' /\ AbortsAtEnd'
    BY <1>1, <1>3, <1>4 DEF ConsoleInv, At, Announced, AbortsAtEnd, kernelVars, synchVars
<1> QED BY <1>8, <1>9, <1>10 DEF ConsoleInv

LEMMA TestForQConsole ==
    ASSUME ConsoleInv, SynchInv', TestForQ
    PROVE  ConsoleInv'
<1>1. /\ step = "test" /\ pc[Main] = "client" /\ step' \in {"test", "await"}
      /\ machine' # "aborted"
      /\ UNCHANGED <<pc, waitsOn, value, fromFile, typed, taken, incoming, putBusy, display, ch>>
    BY DEF TestForQ, Executing, kernelVars, synchVars
<1>2. KernelTypeOK' /\ SynchTypeOK'
    BY DEF SynchInv, ThreadInv, PlaceInv, LockInv
<1> QED BY <1>1, <1>2 DEF ConsoleInv, TypeOK, At, Announced, EchoesInOrder, AbortsAtEnd

LEMMA CheckCharAvailConsole ==
    ASSUME ConsoleInv, SynchInv', CheckCharAvail
    PROVE  ConsoleInv'
<1>0. KernelTypeOK' /\ SynchTypeOK'
    BY DEF SynchInv, ThreadInv, PlaceInv, LockInv
<1>1. /\ incoming = EOF /\ machine = "up" /\ taken \in 0 .. Len(typed) /\ typed \in Seq(Chars)
      /\ UNCHANGED <<fromFile, typed, putBusy, display, ch, step, pc, waitsOn>>
    BY DEF CheckCharAvail, Tick, InterruptWindow, Executing, Sleeping, HandlerV, Abort,
           synchVars, ConsoleInv, TypeOK, At
<1>2. CASE taken < Len(typed) /\ incoming' = typed[taken + 1] /\ taken' = taken + 1
           /\ HandlerV(readAvail)
    <2>1. incoming' \in Chars /\ incoming' # EOF /\ taken' \in 1 .. Len(typed)
        BY <1>1, <1>2, ConsoleConstants
    <2>2. /\ value'[readAvail] = value[readAvail] + 1 /\ value'[writeDone] = value[writeDone]
          /\ value[readAvail] \in Nat /\ machine' = machine
        BY <1>2, ConsoleConstants DEF HandlerV, ReleaseValue, ConsoleInv, TypeOK, SynchTypeOK
    <2>3. EchoesInOrder'
        BY <1>1, <1>2, <2>1 DEF ConsoleInv, EchoesInOrder
    <2> QED BY <1>0, <1>1, <1>2, <2>1, <2>2, <2>3
            DEF ConsoleInv, TypeOK, At, Announced, AbortsAtEnd
<1>3. CASE taken = Len(typed) /\ fromFile /\ Abort /\ UNCHANGED <<synchVars, taken, incoming>>
    BY <1>0, <1>1, <1>3
    DEF ConsoleInv, TypeOK, At, Announced, EchoesInOrder, AbortsAtEnd, synchVars
<1> QED BY <1>2, <1>3 DEF CheckCharAvail

LEMMA WriteDoneConsole ==
    ASSUME ConsoleInv, SynchInv', WriteDone
    PROVE  ConsoleInv'
<1>0. KernelTypeOK' /\ SynchTypeOK'
    BY DEF SynchInv, ThreadInv, PlaceInv, LockInv
<1>1. /\ putBusy /\ putBusy' = FALSE
      /\ UNCHANGED <<fromFile, typed, taken, incoming, display, ch, step, pc, waitsOn, machine>>
    BY DEF WriteDone, HandlerV
<1>2. /\ value'[writeDone] = value[writeDone] + 1 /\ value'[readAvail] = value[readAvail]
      /\ value[writeDone] \in Nat
    BY ConsoleConstants DEF WriteDone, HandlerV, ReleaseValue, ConsoleInv, TypeOK, SynchTypeOK
<1>3. TypeOK'
    BY <1>0, <1>1 DEF ConsoleInv, TypeOK
<1>4. At' /\ EchoesInOrder' /\ AbortsAtEnd'
    BY <1>1 DEF ConsoleInv, At, EchoesInOrder, AbortsAtEnd
<1>5. Announced'
    BY <1>1, <1>2 DEF ConsoleInv, Announced
<1> QED BY <1>3, <1>4, <1>5 DEF ConsoleInv

(* ConsoleTest comes back from SWITCH, always into P. *)
LEMMA SystemConsole ==
    ASSUME ConsoleInv, SynchInv', SystemStep, UNCHANGED consoleVars
    PROVE  ConsoleInv'
<1>0. KernelTypeOK' /\ SynchTypeOK'
    BY DEF SynchInv, ThreadInv, PlaceInv, LockInv
<1>1. /\ UNCHANGED <<fromFile, typed, taken, incoming, putBusy, display, ch, step>>
      /\ pc[Main] \in {"client", "P"}
    BY DEF consoleVars, ConsoleInv, At
<1>2. machine' = machine
    BY DEF SystemStep, KernelStep, Dispatch, ThreadRoot, YieldReturn, ResumeP, ResumeWait
<1>3. TypeOK' /\ EchoesInOrder' /\ AbortsAtEnd'
    BY <1>0, <1>1, <1>2 DEF ConsoleInv, TypeOK, EchoesInOrder, AbortsAtEnd
<1>4. CASE KernelStep /\ UNCHANGED synchVars
    <2>1. pc' = pc
        BY <1>1, <1>4, ConsoleConstants DEF KernelStep, Dispatch, ThreadRoot, YieldReturn
    <2> QED BY <1>1, <1>3, <1>4, <2>1 DEF ConsoleInv, At, Announced, synchVars
<1>5. CASE ResumeP(Main)
    <2>1. pc[Main] = "P" /\ AcquireValue(Main, waitsOn[Main], oldLevel[Main])
        BY <1>5 DEF ResumeP
    <2>2. CASE step = "echo" /\ waitsOn[Main] = readAvail
        <3>1. At' /\ Announced'
            BY <1>1, <2>1, <2>2, TakeUnit, ConsoleConstants DEF ConsoleInv, At, Announced
        <3> QED BY <1>3, <3>1 DEF ConsoleInv
    <2>3. CASE step = "test" /\ waitsOn[Main] = writeDone
        <3>1. At' /\ Announced'
            BY <1>1, <2>1, <2>3, TakeUnit, ConsoleConstants
            DEF ConsoleInv, TypeOK, At, Announced
        <3> QED BY <1>3, <3>1 DEF ConsoleInv
    <2> QED BY <2>1, <2>2, <2>3 DEF ConsoleInv, At
<1>6. CASE ResumeWait(Main)
    BY <1>1, <1>6 DEF ResumeWait
<1> QED BY <1>4, <1>5, <1>6, ConsoleConstants DEF SystemStep

LEMMA ConsoleInvariant == Spec => []ConsoleInv
<1>1. Init => ConsoleInv
    <2> SUFFICES ASSUME Init PROVE ConsoleInv
        OBVIOUS
    <2>1. SynchInv
        BY RoutineInit DEF Init
    <2>2. KernelTypeOK /\ SynchTypeOK
        BY <2>1 DEF SynchInv, ThreadInv, PlaceInv, LockInv
    <2>3. typed \in Seq(Chars)
        BY DEF Init
    <2>4. Len(typed) \in Nat
        BY <2>3
    <2>5. display = <<>> /\ SubSeq(typed, 1, 0) = <<>>
        BY SubSeqEmpty DEF Init
    <2>6. TypeOK
        <3>1. 0 \in 0 .. Len(typed)
            BY <2>4
        <3>2. \A i \in DOMAIN display : display[i] \in Chars
            BY <2>5
        <3> QED BY <2>2, <3>1, <3>2 DEF Init, TypeOK
    <2>7. At /\ AbortsAtEnd
        BY <2>3, ConsoleConstants DEF Init, KernelInit, At, AbortsAtEnd
    <2>8. Announced
        BY ConsoleConstants, ConsoleAssumption DEF Init, SynchInit, Announced
    <2>9. EchoesInOrder
        BY <2>5 DEF Init, EchoesInOrder
    <2> QED BY <2>1, <2>6, <2>7, <2>8, <2>9 DEF ConsoleInv
<1>2. ConsoleInv /\ [Next]_vars => ConsoleInv'
    <2> SUFFICES ASSUME ConsoleInv, [Next]_vars PROVE ConsoleInv'
        OBVIOUS
    <2>1. SynchInv'
        BY ConsoleIsRoutine, RoutineStepInv DEF ConsoleInv
    <2>2. ASSUME UNCHANGED vars PROVE ConsoleInv'
        BY <2>2 DEF vars, kernelVars, synchVars, consoleVars, ConsoleInv, SynchInv, ThreadInv,
            PlaceInv, LockInv, KernelTypeOK, SynchTypeOK, WaitsWell, FreeOrBusy, Placed,
            CarcassIsGone, Uninterrupted, Created, WokenSuffice, WokenFor,
            TypeOK, At, Announced, EchoesInOrder, AbortsAtEnd
    <2>3. CASE Await \/ Echo \/ TestForQ \/ CheckCharAvail \/ WriteDone
        BY <2>1, <2>3, AwaitConsole, EchoConsole, TestForQConsole, CheckCharAvailConsole,
           WriteDoneConsole
    <2>4. CASE PollInVain \/ (Stopped /\ UNCHANGED <<synchVars, consoleVars>>)
        BY <2>2, <2>4 DEF PollInVain, Stopped, vars
    <2>5. CASE SystemStep /\ UNCHANGED consoleVars
        BY <2>1, <2>5, SystemConsole
    <2> QED BY <2>2, <2>3, <2>4, <2>5 DEF Next
<1> QED BY <1>1, <1>2, PTL DEF Spec

-----------------------------------------------------------------------------
(* Every variable keeps a value the code can hold. *)
THEOREM ConsoleTypes == Spec => []TypeOK
<1>1. ConsoleInv => TypeOK
    BY DEF ConsoleInv
<1> QED BY <1>1, ConsoleInvariant, PTL

(* Whatever is typed, and however the device's polls and completions fall     *)
(* between ConsoleTest's statements, its echo is a prefix of the text.        *)
THEOREM EchoIsExact == Spec => []EchoesInOrder
<1>1. ConsoleInv => EchoesInOrder
    BY DEF ConsoleInv
<1> QED BY <1>1, ConsoleInvariant, PTL

(* readAvail and writeDone never get ahead of the device or fall behind it.   *)
THEOREM UnitsAreAnnounced == Spec => []Announced
<1>1. ConsoleInv => Announced
    BY DEF ConsoleInv
<1> QED BY <1>1, ConsoleInvariant, PTL

(* PutChar's ASSERT(putBusy == FALSE) holds: nothing aborts NachOS but the    *)
(* read past the end of a file.                                               *)
THEOREM PutCharNeverAborts == Spec => []AbortsAtEnd
<1>1. ConsoleInv => AbortsAtEnd
    BY DEF ConsoleInv
<1> QED BY <1>1, ConsoleInvariant, PTL
=============================================================================
