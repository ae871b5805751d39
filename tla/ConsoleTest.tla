----------------------------- MODULE ConsoleTest -----------------------------
(***************************************************************************)
(* The console device (machine/console.cc) and the thread that echoes what *)
(* is typed until a 'q' (ConsoleTest in userprog/progtest.cc).             *)
(***************************************************************************)
EXTENDS NachosSynch

CONSTANTS
    Chars, q,   \* what is typed, and the 'q' that ends the test
    EOF,        \* the value of an empty buffer; a char 0xFF would equal it
    MaxChars    \* characters typed, at most

readAvail == "readAvail"
writeDone == "writeDone"

ASSUME ConsoleAssumption ==
    /\ Threads = {Main}
    /\ Semaphores = {readAvail, writeDone}
    /\ \A s \in Semaphores : InitialValue[s] = 0
    /\ Locks = {} /\ Conditions = {}
    /\ q \in Chars /\ EOF \notin Chars /\ MaxChars \in Nat

VARIABLES
    fromFile,  \* the keyboard is a file: it ends, a terminal only waits
    typed,     \* everything that is ever typed
    taken,     \* how many characters the device has read
    incoming,  \* Console::incoming
    putBusy,   \* Console::putBusy; its ConsoleWriteInt is pending just then
    display,   \* what has been written
    ch,        \* the character ConsoleTest echoes
    step       \* the statement ConsoleTest is at

consoleVars == <<fromFile, typed, taken, incoming, putBusy, display, ch, step>>
vars == <<kernelVars, synchVars, consoleVars>>

Init ==
    /\ KernelInit /\ SynchInit
    /\ fromFile \in BOOLEAN
    /\ typed \in UNION {[1 .. n -> Chars] : n \in 0 .. MaxChars}
    /\ taken = 0 /\ incoming = EOF
    /\ putBusy = FALSE /\ display = <<>>
    /\ ch = EOF /\ step = "await"

-----------------------------------------------------------------------------
(* readAvail->P() and writeDone->P(). *)
Await ==
    /\ \/ step = "await" /\ P(Main, readAvail) /\ step' = "echo"
       \/ step = "write" /\ P(Main, writeDone) /\ step' = "test"
    /\ UNCHANGED <<fromFile, typed, taken, incoming, putBusy, display, ch>>

(* Mutant of Echo: GetChar leaves the character in the buffer. *)
EchoKeepsChar ==
    /\ Executing(Main) /\ step = "echo"
    /\ ch' = incoming
    /\ IF putBusy
       THEN Abort /\ UNCHANGED <<putBusy, display, step>>
       ELSE /\ display' = Append(display, incoming)
            /\ putBusy' = TRUE
            /\ step' = "write"
            /\ UNCHANGED kernelVars
    /\ UNCHANGED <<synchVars, fromFile, typed, taken, incoming>>

(* GetChar and PutChar, between which the clock does not tick. *)
Echo ==
    /\ Executing(Main) /\ step = "echo"
    /\ ch' = incoming
    /\ incoming' = EOF
    /\ IF putBusy
       THEN Abort /\ UNCHANGED <<putBusy, display, step>>
       ELSE /\ display' = Append(display, incoming)
            /\ putBusy' = TRUE
            /\ step' = "write"
            /\ UNCHANGED kernelVars
    /\ UNCHANGED <<synchVars, fromFile, typed, taken>>

(* The end of the loop; main halts NachOS when ConsoleTest returns. *)
TestForQ ==
    /\ Executing(Main) /\ step = "test"
    /\ IF ch = q
       THEN /\ machine' = "halted"
            /\ UNCHANGED <<currentThread, status, readyList, level, oldLevel, pc,
                           threadToBeDestroyed, destroyed, step>>
       ELSE step' = "await" /\ UNCHANGED kernelVars
    /\ UNCHANGED <<synchVars, fromFile, typed, taken, incoming, putBusy, display, ch>>

-----------------------------------------------------------------------------
(* The clock ticks where P turns interrupts on again, and in Idle. *)
Tick == InterruptWindow /\ (Executing(Main) => step \in {"echo", "test"})

HandlerV(s) ==
    /\ ReleaseValue(s)
    /\ UNCHANGED <<currentThread, level, oldLevel, pc, threadToBeDestroyed,
                   destroyed, machine, lockOwner, waitsOn, relock>>

(* Mutants of CheckCharAvail: a buffered character is overwritten; the test *)
(* is not told.                                                             *)
CheckCharAvailOverwrites ==
    /\ Tick
    /\ taken < Len(typed)
    /\ incoming' = typed[taken + 1]
    /\ taken' = taken + 1
    /\ HandlerV(readAvail)
    /\ UNCHANGED <<fromFile, typed, putBusy, display, ch, step>>

CheckCharAvailWithoutHandler ==
    /\ Tick
    /\ incoming = EOF /\ taken < Len(typed)
    /\ incoming' = typed[taken + 1]
    /\ taken' = taken + 1
    /\ UNCHANGED <<kernelVars, synchVars, fromFile, typed, putBusy, display, ch, step>>

(* Console::CheckCharAvail, called for ever. A file that has ended still has *)
(* something to read for select, and then Read's ASSERT fails.               *)
CheckCharAvail ==
    /\ Tick
    /\ incoming = EOF
    /\ \/ /\ taken < Len(typed)
          /\ incoming' = typed[taken + 1]
          /\ taken' = taken + 1
          /\ HandlerV(readAvail)
       \/ /\ taken = Len(typed) /\ fromFile
          /\ Abort
          /\ UNCHANGED <<synchVars, taken, incoming>>
    /\ UNCHANGED <<fromFile, typed, putBusy, display, ch, step>>

(* A poll that finds the buffer full, or nothing typed. *)
PollInVain ==
    /\ Tick
    /\ incoming # EOF \/ (taken = Len(typed) /\ ~fromFile)
    /\ UNCHANGED vars

(* Console::WriteDone. *)
WriteDone ==
    /\ Tick
    /\ putBusy
    /\ putBusy' = FALSE
    /\ HandlerV(writeDone)
    /\ UNCHANGED <<fromFile, typed, taken, incoming, display, ch, step>>

Next ==
    \/ Await \/ Echo \/ TestForQ
    \/ CheckCharAvail \/ PollInVain \/ WriteDone
    \/ SystemStep /\ UNCHANGED consoleVars
    \/ Stopped /\ UNCHANGED <<synchVars, consoleVars>>

(* The CPU runs and simulated time reaches every pending interrupt. *)
Spec == Init /\ [][Next]_vars /\ WF_vars(Next)

-----------------------------------------------------------------------------
TypeOK ==
    /\ KernelTypeOK /\ SynchTypeOK
    /\ taken \in 0 .. Len(typed)
    /\ incoming \in Chars \cup {EOF} /\ ch \in Chars \cup {EOF}
    /\ putBusy \in BOOLEAN
    /\ \A i \in DOMAIN display : display[i] \in Chars
    /\ step \in {"await", "echo", "write", "test"}

(* What is shown is what was typed, in order: no character is lost in the   *)
(* one-character buffer or echoed twice, however polls and writes fall.     *)
EchoesInOrder ==
    display = SubSeq(typed, 1, taken - (IF incoming = EOF THEN 0 ELSE 1))

(* A unit of readAvail stands for the character in the buffer, one of       *)
(* writeDone for the one that was written: ConsoleTest never takes either   *)
(* for a character of another round.                                        *)
Announced ==
    /\ (IF incoming = EOF THEN 0 ELSE 1) =
           value[readAvail] + (IF step = "echo" /\ pc[Main] = "client" THEN 1 ELSE 0)
    /\ value[writeDone] + (IF putBusy THEN 1 ELSE 0) =
           IF step = "write" \/ (step = "test" /\ pc[Main] = "P") THEN 1 ELSE 0

(* progtest.cc:65: everything typed up to the first 'q' is echoed, and then *)
(* NachOS halts, and does not abort in PutChar (console.cc:146).  In a file *)
(* something must follow the 'q': a poll at the end aborts NachOS while the *)
(* 'q' is written (sysdep.cc:145).                                          *)
QuitsAtQ ==
    (\E i \in DOMAIN typed : typed[i] = q /\ (fromFile => i < Len(typed)))
        ~> machine = "halted" /\ display[Len(display)] = q
=============================================================================
