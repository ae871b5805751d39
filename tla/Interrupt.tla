------------------------------ MODULE Interrupt ------------------------------
(***************************************************************************)
(* The simulated interrupts and clock (machine/interrupt.cc), its sorted   *)
(* list (threads/list.h), the timer (machine/timer.cc) with its handler    *)
(* (threads/system.cc), and two kinds of devices: one that polls and so is *)
(* always pending (console, network) and one that is asked (the disk).     *)
(*                                                                         *)
(* Nothing depends on the absolute time, so an interrupt is pending with   *)
(* the time that is left until it is due: "when" minus totalTicks.         *)
(***************************************************************************)
EXTENDS Integers, Sequences, FiniteSets

CONSTANTS
    SystemTick, UserTick,   \* how much OneTick advances the clock
    TimerDelays,            \* what TimeOfNextInterrupt can return
    PollTime, DiskDelays    \* when the devices' interrupts occur

ASSUME InterruptAssumption ==
    /\ SystemTick \in Nat \ {0} /\ UserTick \in Nat \ {0}
    /\ TimerDelays \subseteq Nat \ {0} /\ DiskDelays \subseteq Nat \ {0}
    /\ PollTime \in Nat \ {0}

VARIABLES
    devices,        \* what Initialize made: "TimerInt" (-rs), "PollInt"
    level,          \* Interrupt::level
    status,         \* Interrupt::status
    pending,        \* Interrupt::pending, each [type, when]
    yieldOnReturn,  \* Interrupt::yieldOnReturn
    cpu,            \* what the CPU is doing
    requested       \* the disk works on a request

vars == <<devices, level, status, pending, yieldOnReturn, cpu, requested>>

(* The CPU runs a thread ("run"), is in the loop of OneTick ("tick"), in Idle *)
(* before or after its first interrupt ("idle", "drain"), or "halted".        *)
Types == {"TimerInt", "PollInt", "DiskInt"}

Due(type, when) == [type |-> type, when |-> when]

-----------------------------------------------------------------------------
(* Mutant of SortedInsert: at the end of the list. *)
AppendUnsorted(list, e) == Append(list, e)

(* List::SortedInsert: before the first element that is due later. *)
InsertsAfter(list, e, n) ==
    /\ \A i \in 1 .. n : list[i].when <= e.when
    /\ n < Len(list) => list[n + 1].when > e.when

SortedInsert(list, e) ==
    LET n == CHOOSE m \in 0 .. Len(list) : InsertsAfter(list, e, m)
    IN SubSeq(list, 1, n) \o <<e>> \o SubSeq(list, n + 1, Len(list))

(* The clock goes forward. *)
Elapse(list, ticks) == [i \in DOMAIN list |-> [list[i] EXCEPT !.when = @ - ticks]]

Init ==
    /\ devices \in SUBSET {"TimerInt", "PollInt"}
    /\ level = "On" /\ status = "SystemMode"
    /\ \E delay \in TimerDelays :
         LET timer == IF "TimerInt" \in devices THEN <<Due("TimerInt", delay)>> ELSE <<>>
         IN pending = IF "PollInt" \in devices
                      THEN SortedInsert(timer, Due("PollInt", PollTime)) ELSE timer
    /\ yieldOnReturn = FALSE
    /\ cpu = "run"
    /\ requested = FALSE

-----------------------------------------------------------------------------
(* CheckIfDue takes out the first interrupt and calls its handler: the timer's *)
(* asks for a yield; it and a polling device schedule themselves again.        *)
Fire(list) ==
    \/ /\ Head(list).type = "TimerInt"
       /\ \E delay \in TimerDelays :
            pending' = SortedInsert(Tail(list), Due("TimerInt", delay))
       /\ yieldOnReturn' = TRUE
       /\ UNCHANGED requested
    \/ /\ Head(list).type = "PollInt"
       /\ pending' = SortedInsert(Tail(list), Due("PollInt", PollTime))
       /\ UNCHANGED <<yieldOnReturn, requested>>
    \/ /\ Head(list).type = "DiskInt"
       /\ pending' = Tail(list)
       /\ requested' = FALSE
       /\ UNCHANGED yieldOnReturn

FirstIsDue == pending # <<>> /\ Head(pending).when <= 0

(* Mutant of OnlyTimer: whatever else is pending. *)
TimerFirst == pending # <<>> /\ Head(pending).type = "TimerInt"

(* Nothing but the time-slice daemon is pending: CheckIfDue puts it back. *)
OnlyTimer == Len(pending) = 1 /\ Head(pending).type = "TimerInt"

(* Mutant of OneTick: the time the kernel takes does not count. *)
OneTickOfUser(ticks) ==
    /\ pending' = IF ticks = UserTick THEN Elapse(pending, ticks) ELSE pending
    /\ level' = "Off"
    /\ cpu' = "tick"
    /\ UNCHANGED <<devices, status, yieldOnReturn, requested>>

(* Interrupt::OneTick, up to its loop. *)
OneTick(ticks) ==
    /\ pending' = Elapse(pending, ticks)
    /\ level' = "Off"
    /\ cpu' = "tick"
    /\ UNCHANGED <<devices, status, yieldOnReturn, requested>>

(* Mutant of PutBack: the interrupt that CheckIfDue took out is gone. *)
PutBackForgotten == IF pending = <<>> THEN <<>> ELSE Tail(pending)

(* CheckIfDue puts back the interrupt it took out, when it is not to occur   *)
(* yet: behind those of the same time, which therefore change places.        *)
PutBack == IF pending = <<>> THEN <<>> ELSE SortedInsert(Tail(pending), Head(pending))

(* Mutant of OneTickLoop: one interrupt in a tick. *)
OneTickOnce ==
    /\ cpu = "tick"
    /\ level' = "On" /\ cpu' = "run"
    /\ IF FirstIsDue THEN Fire(pending)
       ELSE yieldOnReturn' = FALSE /\ pending' = PutBack /\ UNCHANGED requested
    /\ UNCHANGED <<devices, status>>

(* The loop of OneTick and its end: the yield, if the timer asked for one,  *)
(* is a step of the threads.                                                *)
OneTickLoop ==
    /\ cpu = "tick"
    /\ IF FirstIsDue
       THEN Fire(pending) /\ UNCHANGED <<level, cpu>>
       ELSE /\ level' = "On" /\ cpu' = "run"
            /\ yieldOnReturn' = FALSE
            /\ pending' = PutBack
            /\ UNCHANGED requested
    /\ UNCHANGED <<devices, status>>

(* Interrupt::SetLevel, called by the kernel. *)
SetLevelOff ==
    /\ cpu = "run" /\ status = "SystemMode" /\ level = "On"
    /\ level' = "Off"
    /\ UNCHANGED <<devices, status, pending, yieldOnReturn, cpu, requested>>

SetLevelOn ==
    /\ cpu = "run" /\ status = "SystemMode" /\ level = "Off"
    /\ OneTick(SystemTick)

(* Machine::Run: a user instruction is followed by a tick, whatever the level. *)
UserInstruction ==
    /\ cpu = "run" /\ status = "UserMode"
    /\ OneTick(UserTick)

(* Machine::Run begins, or an exception handler returns; and an exception. *)
ChangeMode ==
    /\ cpu = "run"
    /\ status' = IF status = "UserMode" THEN "SystemMode" ELSE "UserMode"
    /\ UNCHANGED <<devices, level, pending, yieldOnReturn, cpu, requested>>

(* Disk::ReadRequest and WriteRequest schedule the disk's interrupt. *)
Schedule ==
    /\ cpu = "run" /\ status = "SystemMode" /\ ~ requested
    /\ requested' = TRUE
    /\ \E delay \in DiskDelays : pending' = SortedInsert(pending, Due("DiskInt", delay))
    /\ UNCHANGED <<devices, level, status, yieldOnReturn, cpu>>

(* Interrupt::Idle, called by Thread::Sleep. *)
Idle ==
    /\ cpu = "run" /\ status = "SystemMode" /\ level = "Off"
    /\ status' = "IdleMode"
    /\ cpu' = "idle"
    /\ UNCHANGED <<devices, level, pending, yieldOnReturn, requested>>

(* CheckIfDue(true): the clock is advanced to the first pending interrupt, *)
(* even when that turns out to be the timer alone and NachOS halts.        *)
AdvanceClock ==
    /\ cpu = "idle"
    /\ LET list == IF pending # <<>> /\ Head(pending).when > 0
                   THEN Elapse(pending, Head(pending).when) ELSE pending
       IN IF pending = <<>> \/ OnlyTimer
          THEN cpu' = "halted" /\ pending' = list /\ UNCHANGED <<yieldOnReturn, requested>>
          ELSE cpu' = "drain" /\ Fire(list)
    /\ UNCHANGED <<devices, level, status>>

(* The loop of Idle over the other interrupts that are due, and its end. *)
IdleLoop ==
    /\ cpu = "drain"
    /\ IF FirstIsDue /\ ~ OnlyTimer
       THEN Fire(pending) /\ UNCHANGED <<status, cpu>>
       ELSE /\ status' = "SystemMode" /\ cpu' = "run"
            /\ yieldOnReturn' = FALSE
            /\ pending' = PutBack
            /\ UNCHANGED requested
    /\ UNCHANGED <<devices, level>>

Halted == cpu = "halted" /\ UNCHANGED vars

Next ==
    \/ OneTickLoop \/ SetLevelOff \/ SetLevelOn \/ UserInstruction \/ ChangeMode
    \/ Schedule \/ Idle \/ AdvanceClock \/ IdleLoop \/ Halted

(* A thread of the kernel turns interrupts on again or sleeps, and one that   *)
(* runs with interrupts on makes a kernel call or executes user instructions. *)
Fairness ==
    /\ WF_vars(OneTickLoop) /\ WF_vars(AdvanceClock) /\ WF_vars(IdleLoop)
    /\ SF_vars(SetLevelOn \/ Idle)
    /\ SF_vars(SetLevelOff \/ UserInstruction)

Spec == Init /\ [][Next]_vars /\ Fairness

-----------------------------------------------------------------------------
Count(type) == Cardinality({i \in DOMAIN pending : pending[i].type = type})

TypeOK ==
    /\ devices \subseteq {"TimerInt", "PollInt"}
    /\ level \in {"On", "Off"}
    /\ status \in {"IdleMode", "SystemMode", "UserMode"}
    /\ pending \in Seq([type : Types, when : Int])
    /\ yieldOnReturn \in BOOLEAN /\ requested \in BOOLEAN
    /\ cpu \in {"run", "tick", "idle", "drain", "halted"}
    /\ cpu # "run" => level = "Off"
    /\ status = "IdleMode" <=> cpu \in {"idle", "drain", "halted"}

(* No interrupt is lost or doubled by the loops, the put-backs and the      *)
(* handlers that schedule: each device has the interrupts it waits for.     *)
EachPendingOnce ==
    /\ Count("TimerInt") = IF "TimerInt" \in devices THEN 1 ELSE 0
    /\ Count("PollInt") = IF "PollInt" \in devices THEN 1 ELSE 0
    /\ Count("DiskInt") = IF requested THEN 1 ELSE 0

(* interrupt.cc:274,310,317, list.h:231: the list stays in the order of the *)
(* times through insertions, put-backs and handlers that schedule, so that  *)
(* the loops, which look at its first element only, miss none that is due.  *)
InOrder == \A i, j \in DOMAIN pending : i < j => pending[i].when <= pending[j].when

(* A thread that runs with interrupts on has no interrupt left that is due: *)
(* only one that runs with interrupts off can be ahead of a device.         *)
NothingOverdue == cpu = "run" /\ level = "On" =>
    \A i \in DOMAIN pending : pending[i].when > 0

(* interrupt.cc:225-228: NachOS stops by itself only when no device is at   *)
(* work: never while the disk owes an answer or a device polls.             *)
HaltsWhenNothingToDo == cpu = "halted" => ~ requested /\ "PollInt" \notin devices

(* The disk's interrupt comes. *)
RequestServed == requested ~> ~ requested
=============================================================================
