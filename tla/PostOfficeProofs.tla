--------------------------- MODULE PostOfficeProofs ---------------------------
(***************************************************************************)
(* The post office, for every number of clients and mailboxes: no packet   *)
(* is overlooked, no answer of the network goes to another sender, and no  *)
(* mail lies before sleeping receivers.                                    *)
(***************************************************************************)
EXTENDS PostOffice, NachosSynchProofs, WellFoundedInduction

(* Where a client is says what it waits for and which locks it owns. *)
ClientWell(t) ==
    /\ step[t] \in {"idle", "send", "sent", "unlock", "empty?", "removed"}
    /\ pc[t] = "P" => \/ step[t] = "send" /\ waitsOn[t] = sendLock
                      \/ step[t] = "unlock" /\ waitsOn[t] = messageSent
                      \/ step[t] = "empty?" /\ waitsOn[t] = lock(box[t])
    /\ pc[t] = "Wait" =>
           step[t] = "empty?" /\ waitsOn[t] = listEmpty(box[t]) /\ relock[t] = lock(box[t])
    /\ pc[t] = "new" => step[t] = "idle"
    /\ step[t] # "idle" => box[t] \in Boxes
    /\ step[t] = "send" => posted[t] < MaxSends
    /\ step[t] \in {"sent", "unlock"} \/ (step[t] = "send" /\ pc[t] # "P")
           => lockOwner[sendLock] = t
    /\ step[t] = "removed" \/ (step[t] = "empty?" /\ pc[t] \notin {"P", "Wait"})
           => lockOwner[lock(box[t])] = t

WorkerWell ==
    /\ step[Worker] \in {"await", "pull", "copy", "put", "append", "release"}
    /\ pc[Worker] # "Wait"
    /\ pc[Worker] = "P" => \/ step[Worker] = "pull" /\ waitsOn[Worker] = messageAvailable
                           \/ step[Worker] = "append" /\ waitsOn[Worker] = lock(mail[Worker].to)
    /\ step[Worker] \in {"put", "append", "release"} => mail[Worker] \in Mails
    /\ step[Worker] = "release" \/ (step[Worker] = "append" /\ pc[Worker] # "P")
           => lockOwner[lock(mail[Worker].to)] = Worker

Well ==
    /\ pc[Main] \notin {"P", "Wait"}
    /\ \A t \in Clients : ClientWell(t)
    /\ WorkerWell

(* The client t has given its packet to the network and has not heard yet. *)
Expects(t) ==
    lockOwner[sendLock] = t /\ (step[t] = "sent" \/ (step[t] = "unlock" /\ pc[t] = "P"))

AnswerOwed ==
    sends + value[messageSent] = IF \E t \in Clients : Expects(t) THEN 1 ELSE 0

(* The receivers of mailbox b that do not sleep on it. *)
Looking(t, b) == step[t] = "empty?" /\ box[t] = b /\ t \notin Range(queue[listEmpty(b)])
Lookers(b) == {t \in Clients : Looking(t, b)}

MailAwaited == \A b \in Boxes :
    queue[listEmpty(b)] # <<>> => Len(list[b]) <= Cardinality(Lookers(b))

(* A packet announced, or about to be copied, is in inbox. *)
PacketThere == inHdr \/ step[Worker] = "copy" => inbox \in Mails

(* Before Acquire first turned interrupts off for the worker, which is with its *)
(* first mail, a slice may end inside Network::Receive.                         *)
Interruptible == Slices /\ mail[Worker] = NULL

(* Later on, or without slices, the worker is not interrupted there. *)
Copying == step[Worker] = "copy" => Interruptible \/ Executing(Worker)
WorkerOff ==
    mail[Worker] # NULL /\ step[Worker] \in {"await", "pull", "copy"} => OffFor(Worker)

PostInv ==
    /\ SynchInv /\ TypeOK /\ Well
    /\ PacketAnnounced /\ PacketThere /\ Copying /\ WorkerOff /\ AnswerOwed /\ MailAwaited
    /\ ~ sendBusy /\ machine # "aborted"

-----------------------------------------------------------------------------
(* What PostAssumption says of the constants, in the words of NachosSynch. *)
LEMMA PostConstants ==
    /\ Clients \subseteq Threads /\ Main \in Threads /\ Worker \in Threads
    /\ Main \notin Clients /\ Worker \notin Clients /\ Worker # Main
    /\ Threads = Clients \cup {Main, Worker} /\ NULL \notin Threads /\ NULL \notin Mails
    /\ sendLock \in Locks
    /\ messageSent \in AllSemaphores /\ messageAvailable \in AllSemaphores
    /\ messageSent \in Semaphores /\ messageAvailable \in Semaphores
    /\ messageSent \notin Locks /\ messageAvailable \notin Locks
    /\ messageSent # messageAvailable
    /\ Locks \subseteq AllSemaphores /\ AllSemaphores \subseteq Queues /\ Conditions \subseteq Queues
    /\ AllSemaphores \cap Conditions = {}
    /\ \A b \in Boxes : lock(b) \in Locks /\ listEmpty(b) \in Conditions
    /\ \A c \in Conditions : \E b \in Boxes : c = listEmpty(b)
    /\ \A b, d \in Boxes : (lock(b) = lock(d) \/ listEmpty(b) = listEmpty(d)) => b = d
    /\ \A b \in Boxes : lock(b) # sendLock
<1>1. messageSent # messageAvailable
    BY DEF messageSent, messageAvailable
<1>2. \A b, d \in Boxes : (lock(b) = lock(d) \/ listEmpty(b) = listEmpty(d)) => b = d
    BY DEF lock, listEmpty
<1>3. \A b \in Boxes : lock(b) # sendLock
    BY DEF lock, sendLock
<1> QED BY <1>1, <1>2, <1>3, PostAssumption, KernelAssumption, SynchAssumption DEF AllSemaphores, Queues

LEMMA MailBoxes == \A m \in Mails : m.to \in Boxes
BY DEF Mails

(* Clients, worker, network and main do nothing to the kernel but call its *)
(* routines, and its handlers do V.                                        *)
LEMMA PostIsRoutine ==
    ASSUME PostInv, [Next]_vars
    PROVE  RoutineStep
<1>0. machine \in {"up", "halted", "aborted"} /\ TypeOK /\ Well
    BY DEF PostInv, TypeOK, KernelTypeOK
<1>1. ASSUME UNCHANGED <<kernelVars, synchVars>> PROVE RoutineStep
    BY <1>0, <1>1 DEF kernelVars, RoutineStep, MachineStep
<1>2. ASSUME Abort, UNCHANGED synchVars PROVE RoutineStep
    BY <1>2 DEF Abort, RoutineStep, MachineStep
<1>3. MainStep => RoutineStep
    BY PostConstants DEF MainStep, RoutineStep, RoutineCall
<1>4. ASSUME NEW t \in Clients, ClientStep(t) PROVE RoutineStep
    <2>0. t \in Threads /\ ClientWell(t)
        BY <1>0, PostConstants DEF Well
    <2>1. ASSUME NEW b \in Boxes, Send(t, b) \/ Receive(t, b) PROVE RoutineStep
        BY <2>0, <2>1, PostConstants DEF Send, Receive, RoutineStep, RoutineCall
    <2>2. CASE NetworkSend(t)
        BY <1>1, <1>2, <2>2 DEF NetworkSend
    <2>3. CASE SendReturn(t)
        BY <2>0, <2>3, PostConstants DEF SendReturn, RoutineStep, RoutineCall
    <2>4. CASE Remove(t)
        <3>1. box[t] \in Boxes
            BY <2>0, <2>4 DEF Remove, ClientWell
        <3> QED BY <1>1, <2>0, <2>4, <3>1, PostConstants DEF Remove, RoutineStep, RoutineCall
    <2>5. CASE ReceiveReturn(t)
        <3>1. box[t] \in Boxes
            BY <2>0, <2>5 DEF ReceiveReturn, Goto, ClientWell
        <3> QED BY <2>0, <2>5, <3>1, PostConstants DEF ReceiveReturn, RoutineStep, RoutineCall
    <2>6. CASE FinishStep(t)
        BY <2>0, <2>6 DEF FinishStep, RoutineStep, RoutineCall
    <2> QED BY <1>4, <2>1, <2>2, <2>3, <2>4, <2>5, <2>6 DEF ClientStep
<1>5. ASSUME NEW t \in Threads, YieldStep(t) PROVE RoutineStep
    BY <1>5 DEF YieldStep, RoutineStep, RoutineCall
<1>6. CASE ReceiveHeader \/ CopyInbox
    BY <1>1, <1>2, <1>6 DEF ReceiveHeader, CopyInbox
<1>7. CASE Deliver
    <2>1. CASE Goto(Worker, "await", "pull") /\ P(Worker, messageAvailable)
        BY <2>1, PostConstants DEF RoutineStep, RoutineCall
    <2>2. ASSUME step[Worker] \in {"put", "append", "release"}
          PROVE  lock(mail[Worker].to) \in Locks /\ listEmpty(mail[Worker].to) \in Conditions
        BY <1>0, <2>2, PostConstants, MailBoxes DEF Well, WorkerWell
    <2>3. CASE \/ Goto(Worker, "put", "append") /\ Acquire(Worker, lock(mail[Worker].to))
               \/ Goto(Worker, "release", "await") /\ Release(Worker, lock(mail[Worker].to))
        BY <2>2, <2>3, PostConstants DEF Goto, RoutineStep, RoutineCall
    <2>4. CASE AppendAndSignal
        BY <2>2, <2>4, PostConstants DEF AppendAndSignal, Goto, RoutineStep, RoutineCall
    <2> QED BY <1>7, <2>1, <2>3, <2>4 DEF Deliver
<1>8. CheckPktAvail \/ SendDone => RoutineStep
    BY PostConstants DEF CheckPktAvail, SendDone, HandlerV, HandlerRelease, RoutineStep
<1>9. PollInVain \/ UNCHANGED vars \/ (SystemStep /\ UNCHANGED postVars) => RoutineStep
    BY <1>1 DEF PollInVain, vars, RoutineStep
<1> QED BY <1>3, <1>4, <1>5, <1>6, <1>7, <1>8, <1>9 DEF Next

-----------------------------------------------------------------------------
(* A step of one thread t, in what it leaves alone of the invariant. *)
LEMMA WellKept ==
    ASSUME Well, NEW t \in Threads,
           \A u \in Threads : u # t => Kept(u),
           \A u \in Clients : u # t =>
               step'[u] = step[u] /\ box'[u] = box[u] /\ posted'[u] = posted[u],
           t # Worker => step'[Worker] = step[Worker] /\ mail'[Worker] = mail[Worker],
           \A l \in Locks : lockOwner'[l] = lockOwner[l] \/ lockOwner[l] \in {NULL, t},
           t \in Clients => ClientWell(t)',
           t = Worker => WorkerWell',
           t = Main => pc'[Main] \notin {"P", "Wait"}
    PROVE  Well'
<1>1. ASSUME NEW u \in Clients, u # t PROVE ClientWell(u)'
    <2>1. /\ ClientWell(u) /\ Kept(u) /\ u # NULL
          /\ step'[u] = step[u] /\ box'[u] = box[u] /\ posted'[u] = posted[u]
        BY <1>1, PostConstants DEF Well
    <2>2. ASSUME NEW l \in Locks, lockOwner[l] = u PROVE lockOwner'[l] = u
        BY <1>1, <2>1, <2>2
    <2>3. sendLock \in Locks /\ (step[u] # "idle" => lock(box[u]) \in Locks)
        BY <2>1, PostConstants DEF ClientWell
    <2>4. step'[u] \in {"sent", "unlock"} \/ (step'[u] = "send" /\ pc'[u] # "P")
              => lockOwner'[sendLock] = u
        BY <2>1, <2>2, <2>3 DEF ClientWell, Kept
    <2>5. step'[u] = "removed" \/ (step'[u] = "empty?" /\ pc'[u] \notin {"P", "Wait"})
              => lockOwner'[lock(box[u])] = u
        BY <2>1, <2>2, <2>3 DEF ClientWell, Kept
    <2> QED BY <2>1, <2>4, <2>5 DEF ClientWell, Kept, sendLock, messageSent, lock, listEmpty
<1>2. ASSUME t # Worker PROVE WorkerWell'
    <2>1. /\ WorkerWell /\ Kept(Worker) /\ Worker # NULL
          /\ step'[Worker] = step[Worker] /\ mail'[Worker] = mail[Worker]
        BY <1>2, PostConstants DEF Well
    <2>2. step[Worker] \in {"append", "release"} => lock(mail[Worker].to) \in Locks
        BY <2>1, PostConstants, MailBoxes DEF WorkerWell
    <2>3. step'[Worker] = "release" \/ (step'[Worker] = "append" /\ pc'[Worker] # "P")
              => lockOwner'[lock(mail[Worker].to)] = Worker
        BY <1>2, <2>1, <2>2 DEF WorkerWell, Kept
    <2> QED BY <2>1, <2>3 DEF WorkerWell, Kept, messageAvailable, lock
<1>3. pc'[Main] \notin {"P", "Wait"}
    BY PostConstants DEF Well, Kept
<1> QED BY <1>1, <1>2, <1>3 DEF Well

LEMMA LookersFinite ==
    ASSUME SynchInv, Well, NEW b \in Boxes
    PROVE  IsFiniteSet(Lookers(b)) /\ Cardinality(Lookers(b)) \in Nat
<1>1. ASSUME NEW t \in Clients, Looking(t, b) PROVE t \in Created
    <2>1. ClientWell(t) /\ t \in Threads
        BY PostConstants DEF Well
    <2>2. pc[t] # "new"
        BY <1>1, <2>1 DEF ClientWell, Looking
    <2> QED BY <2>1, <2>2 DEF Created, SynchInv, ThreadInv, PlaceInv, Placed
<1>2. Lookers(b) \subseteq Created
    BY <1>1 DEF Lookers
<1> QED BY <1>2, FS_Subset, FS_CardinalityType DEF SynchInv

(* A step that puts nothing into a mailbox and sends no receiver to sleep. *)
LEMMA MailKept ==
    ASSUME PostInv, NEW t \in Threads, UNCHANGED list,
           \A b \in Boxes : queue'[listEmpty(b)] = queue[listEmpty(b)],
           \A u \in Clients : u # t => step'[u] = step[u] /\ box'[u] = box[u],
           t \in Clients => \A b \in Boxes : Looking(t, b) => Looking(t, b)'
    PROVE  MailAwaited'
<1> SUFFICES ASSUME NEW b \in Boxes, queue'[listEmpty(b)] # <<>>
             PROVE  Len(list'[b]) <= Cardinality(Lookers(b)')
    BY DEF MailAwaited
<1>1. IsFiniteSet(Lookers(b)) /\ Cardinality(Lookers(b)) \in Nat
    BY LookersFinite DEF PostInv
<1>2. /\ Lookers(b) \subseteq Lookers(b)' /\ Lookers(b)' \subseteq Lookers(b) \cup {t}
    <2>1. listEmpty(b)' = listEmpty(b)
        BY DEF listEmpty
    <2>2. \A u \in Clients : u # t => (Looking(u, b)' <=> Looking(u, b))
        BY <2>1 DEF Looking
    <2> QED BY <2>2 DEF Lookers
<1>3. IsFiniteSet(Lookers(b)')
    BY <1>1, <1>2, FS_AddElement, FS_Subset
<1>4. Cardinality(Lookers(b)) <= Cardinality(Lookers(b)') /\ Cardinality(Lookers(b)') \in Nat
    BY <1>2, <1>3, FS_Subset, FS_CardinalityType
<1>5. Len(list[b]) <= Cardinality(Lookers(b))
    BY DEF PostInv, MailAwaited
<1>6. Len(list[b]) \in Nat
    BY LenProperties DEF PostInv, TypeOK
<1> QED BY <1>1, <1>4, <1>5, <1>6

LEMMA AnswerKept ==
    ASSUME AnswerOwed, sends' = sends, value'[messageSent] = value[messageSent],
           \A t \in Clients : Expects(t)' <=> Expects(t)
    PROVE  AnswerOwed'
BY DEF AnswerOwed, messageSent

LEMMA PacketKept ==
    ASSUME PacketAnnounced, inHdr' = inHdr,
           value'[messageAvailable] = value[messageAvailable],
           step'[Worker] = step[Worker], pc'[Worker] = "P" <=> pc[Worker] = "P"
    PROVE  PacketAnnounced'
BY DEF PacketAnnounced, messageAvailable

(* Steps of the kernel alone, at most one thread's. *)
LEMMA KernelKeepsPost ==
    ASSUME PostInv, NEW t \in Threads, UNCHANGED synchVars,
           UNCHANGED <<networkVars, list, clientVars>>,
           \A u \in Threads : u # t => pc'[u] = pc[u],
           \/ pc'[t] = pc[t]
           \/ pc[t] \notin {"P", "Wait"} /\ pc'[t] \in {"client", "yield", "finish"}
    PROVE  Well' /\ PacketAnnounced' /\ AnswerOwed' /\ MailAwaited' /\ sendBusy' = sendBusy
<1>0. UNCHANGED <<value, queue, lockOwner, waitsOn, relock, inHdr, inbox, sendBusy, sends, list,
                  step, box, mail, posted>>
    BY DEF synchVars, networkVars, clientVars
<1>1. Well'
    <2>1. t \in Clients => ClientWell(t)'
        BY <1>0 DEF PostInv, Well, ClientWell, lock, listEmpty, sendLock, messageSent
    <2>2. t = Worker => WorkerWell'
        BY <1>0 DEF PostInv, Well, WorkerWell, lock, messageAvailable
    <2> QED BY <1>0, <2>1, <2>2, WellKept DEF PostInv, Well, Kept
<1>2. MailAwaited'
    <2>1. \A b \in Boxes : Looking(t, b) => Looking(t, b)'
        BY <1>0 DEF Looking, listEmpty
    <2> QED BY <1>0, <2>1, MailKept
<1>3. AnswerOwed'
    <2>1. \A u \in Clients : Expects(u)' <=> Expects(u)
        BY <1>0, PostConstants DEF PostInv, Well, ClientWell, Expects, sendLock
    <2> QED BY <1>0, <2>1, AnswerKept DEF PostInv
<1>4. PacketAnnounced'
    BY <1>0, PacketKept, PostConstants DEF PostInv
<1> QED BY <1>0, <1>1, <1>2, <1>3, <1>4

-----------------------------------------------------------------------------
(* P on the send lock, tested for the first time or again: with the lock free, *)
(* nobody expects an answer.                                                   *)
LEMMA TakeSendLock ==
    ASSUME PostInv, NEW t \in Clients, NEW saved, AcquireValue(t, sendLock, saved),
           UNCHANGED <<networkVars, list, mail, posted>>,
           \A u \in Clients \cup {Worker} : u # t => step'[u] = step[u],
           \A u \in Clients : u # t => box'[u] = box[u],
           step'[t] = "send", box'[t] \in Boxes, posted[t] < MaxSends,
           step[t] = "idle" \/ step[t] = "send"
    PROVE  Well' /\ PacketAnnounced' /\ AnswerOwed' /\ MailAwaited'
<1>0. /\ t \in Threads /\ t # Worker /\ t # Main /\ t # NULL
      /\ SynchInv /\ sendLock \in AllSemaphores /\ UNCHANGED <<inHdr, inbox, sends, list, mail, posted>>
    BY PostConstants DEF PostInv, networkVars
<1>1. /\ \A u \in Threads : u # t => Kept(u)
      /\ \A q \in Queues : q # sendLock => queue'[q] = queue[q]
      /\ \A r \in AllSemaphores : r # sendLock => value'[r] = value[r]
      /\ \A l \in Locks : l # sendLock => lockOwner'[l] = lockOwner[l]
      /\ \/ /\ pc'[t] = "client" /\ lockOwner[sendLock] = NULL /\ lockOwner'[sendLock] = t
         \/ /\ pc'[t] = "P" /\ waitsOn'[t] = sendLock
            /\ lockOwner[sendLock] # NULL /\ lockOwner'[sendLock] = lockOwner[sendLock]
    <2>1. sendLock \in Locks
        BY PostConstants
    <2> QED BY <1>0, <2>1, TakeEffect
<1>2. Well'
    <2>1. ClientWell(t)'
        BY <1>0, <1>1 DEF ClientWell, sendLock
    <2>2. \A l \in Locks : lockOwner'[l] = lockOwner[l] \/ lockOwner[l] \in {NULL, t}
        BY <1>1
    <2> QED BY <1>0, <1>1, <2>1, <2>2, WellKept DEF PostInv
<1>3. PacketAnnounced'
    BY <1>0, <1>1, PacketKept, PostConstants DEF PostInv, Kept
<1>4. AnswerOwed'
    <2>1. value'[messageSent] = value[messageSent]
        BY <1>1, PostConstants
    <2>2. \A u \in Clients : Expects(u)' <=> Expects(u)
        <3>1. ASSUME NEW u \in Clients, u # t PROVE Expects(u)' <=> Expects(u)
            BY <1>0, <1>1, <3>1, PostConstants DEF Expects, Kept, sendLock
        <3>2. ~ Expects(t) /\ ~ Expects(t)'
            BY DEF Expects
        <3> QED BY <3>1, <3>2
    <2> QED BY <1>0, <2>1, <2>2, AnswerKept DEF PostInv
<1>5. MailAwaited'
    <2>1. \A b \in Boxes : queue'[listEmpty(b)] = queue[listEmpty(b)]
        BY <1>1, PostConstants
    <2>2. \A b \in Boxes : ~ Looking(t, b)
        BY DEF Looking
    <2> QED BY <1>0, <2>1, <2>2, MailKept
<1> QED BY <1>2, <1>3, <1>4, <1>5

(* P on messageSent, by the sender who expects the answer. *)
LEMMA TakeAnswer ==
    ASSUME PostInv, NEW t \in Clients, NEW saved, AcquireValue(t, messageSent, saved),
           UNCHANGED <<networkVars, list, box, mail, posted>>,
           \A u \in Clients \cup {Worker} : u # t => step'[u] = step[u],
           step'[t] = "unlock", Expects(t)
    PROVE  Well' /\ PacketAnnounced' /\ AnswerOwed' /\ MailAwaited'
<1>0. /\ t \in Threads /\ t # Worker /\ t # Main /\ t # NULL /\ ClientWell(t)
      /\ SynchInv /\ messageSent \in AllSemaphores
      /\ UNCHANGED <<inHdr, inbox, sends, list, box, mail, posted>>
      /\ sends \in Nat /\ value[messageSent] \in Nat
    BY PostConstants DEF PostInv, networkVars, Well, TypeOK, SynchTypeOK
<1>1. /\ \A u \in Threads : u # t => Kept(u)
      /\ \A q \in Queues : q # messageSent => queue'[q] = queue[q]
      /\ \A r \in AllSemaphores : r # messageSent => value'[r] = value[r]
      /\ \A l \in Locks : lockOwner'[l] = lockOwner[l]
      /\ \/ /\ value[messageSent] # 0 /\ value'[messageSent] = value[messageSent] - 1
            /\ pc'[t] = "client"
         \/ /\ value[messageSent] = 0 /\ value'[messageSent] = 0
            /\ pc'[t] = "P" /\ waitsOn'[t] = messageSent
    <2>1. messageSent \notin Locks
        BY PostConstants
    <2> QED BY <1>0, <2>1, TakeEffect
<1>2. step[t] \in {"sent", "unlock"} /\ lockOwner[sendLock] = t /\ lockOwner'[sendLock] = t
    BY <1>1, PostConstants DEF Expects
<1>3. Well'
    <2>1. ClientWell(t)'
        BY <1>0, <1>1, <1>2 DEF ClientWell, sendLock, messageSent
    <2> QED BY <1>0, <1>1, <2>1, WellKept DEF PostInv
<1>4. PacketAnnounced'
    BY <1>0, <1>1, PacketKept, PostConstants DEF PostInv, Kept
<1>5. AnswerOwed'
    <2>1. \A u \in Clients : u # t => ~ Expects(u) /\ ~ Expects(u)'
        BY <1>2 DEF Expects, sendLock
    <2>2. sends + value[messageSent] = 1
        BY DEF PostInv, AnswerOwed
    <2>3. CASE value[messageSent] # 0 /\ value'[messageSent] = value[messageSent] - 1 /\ pc'[t] = "client"
        <3>1. ~ Expects(t)'
            BY <2>3 DEF Expects
        <3>2. sends' + value'[messageSent] = 0
            BY <1>0, <2>2, <2>3
        <3> QED BY <2>1, <3>1, <3>2 DEF AnswerOwed, messageSent
    <2>4. CASE value[messageSent] = 0 /\ value'[messageSent] = 0 /\ pc'[t] = "P"
        <3>1. Expects(t)'
            BY <1>2, <2>4 DEF Expects, sendLock
        <3>2. sends' + value'[messageSent] = 1
            BY <1>0, <2>2, <2>4
        <3> QED BY <3>1, <3>2 DEF AnswerOwed, messageSent
    <2> QED BY <1>1, <2>3, <2>4
<1>6. MailAwaited'
    <2>1. \A b \in Boxes : queue'[listEmpty(b)] = queue[listEmpty(b)]
        BY <1>1, PostConstants
    <2>2. \A b \in Boxes : ~ Looking(t, b)
        BY <1>2 DEF Looking
    <2> QED BY <1>0, <2>1, <2>2, MailKept
<1> QED BY <1>3, <1>4, <1>5, <1>6

(* P on the lock of a mailbox, by a receiver. *)
LEMMA TakeBox ==
    ASSUME PostInv, NEW t \in Clients, NEW b \in Boxes, NEW saved,
           AcquireValue(t, lock(b), saved),
           UNCHANGED <<networkVars, list, mail, posted>>,
           \A u \in Clients \cup {Worker} : u # t => step'[u] = step[u],
           \A u \in Clients : u # t => box'[u] = box[u],
           step'[t] = "empty?", box'[t] = b,
           step[t] = "idle" \/ (step[t] = "empty?" /\ box[t] = b)
    PROVE  Well' /\ PacketAnnounced' /\ AnswerOwed' /\ MailAwaited'
<1>0. /\ t \in Threads /\ t # Worker /\ t # Main /\ t # NULL
      /\ SynchInv /\ lock(b) \in AllSemaphores /\ lock(b) \in Locks
      /\ sendLock \in Locks /\ sendLock # lock(b)
      /\ UNCHANGED <<inHdr, inbox, sends, list, mail, posted>>
    BY PostConstants DEF PostInv, networkVars
<1>1. /\ \A u \in Threads : u # t => Kept(u)
      /\ \A q \in Queues : q # lock(b) => queue'[q] = queue[q]
      /\ \A r \in AllSemaphores : r # lock(b) => value'[r] = value[r]
      /\ \A l \in Locks : l # lock(b) => lockOwner'[l] = lockOwner[l]
      /\ \/ pc'[t] = "client" /\ lockOwner[lock(b)] = NULL /\ lockOwner'[lock(b)] = t
         \/ /\ pc'[t] = "P" /\ waitsOn'[t] = lock(b)
            /\ lockOwner[lock(b)] # NULL /\ lockOwner'[lock(b)] = lockOwner[lock(b)]
    BY <1>0, TakeEffect
<1>2. Well'
    <2>1. ClientWell(t)'
        BY <1>0, <1>1 DEF ClientWell, lock
    <2>2. \A l \in Locks : lockOwner'[l] = lockOwner[l] \/ lockOwner[l] \in {NULL, t}
        BY <1>1
    <2> QED BY <1>0, <1>1, <2>1, <2>2, WellKept DEF PostInv
<1>3. PacketAnnounced'
    BY <1>0, <1>1, PacketKept, PostConstants DEF PostInv, Kept
<1>4. AnswerOwed'
    <2>1. value'[messageSent] = value[messageSent]
        BY <1>1, PostConstants
    <2>2. \A u \in Clients : Expects(u)' <=> Expects(u)
        <3>1. lockOwner'[sendLock] = lockOwner[sendLock]
            BY <1>0, <1>1
        <3>2. ASSUME NEW u \in Clients, u # t PROVE Expects(u)' <=> Expects(u)
            BY <1>0, <1>1, <3>1, <3>2, PostConstants DEF Expects, Kept, sendLock
        <3>3. ~ Expects(t) /\ ~ Expects(t)'
            BY DEF Expects
        <3> QED BY <3>2, <3>3
    <2> QED BY <1>0, <2>1, <2>2, AnswerKept DEF PostInv
<1>5. MailAwaited'
    <2>1. \A d \in Boxes : queue'[listEmpty(d)] = queue[listEmpty(d)]
        BY <1>1, PostConstants
    <2>2. ASSUME NEW d \in Boxes, Looking(t, d) PROVE Looking(t, d)'
        BY <2>1, <2>2 DEF Looking, listEmpty
    <2> QED BY <1>0, <2>1, <2>2, MailKept
<1> QED BY <1>2, <1>3, <1>4, <1>5

(* P on the lock of the mailbox the worker delivers to. *)
LEMMA TakeWorkerBox ==
    ASSUME PostInv, NEW saved, AcquireValue(Worker, lock(mail[Worker].to), saved),
           UNCHANGED <<networkVars, list, box, mail, posted>>,
           \A u \in Clients : step'[u] = step[u],
           step'[Worker] = "append", step[Worker] \in {"put", "append"}
    PROVE  Well' /\ PacketAnnounced' /\ AnswerOwed' /\ MailAwaited'
<1> DEFINE l == lock(mail[Worker].to)
<1>0. /\ Worker \in Threads /\ Worker \notin Clients /\ Worker # Main /\ Worker # NULL
      /\ SynchInv /\ mail[Worker] \in Mails /\ l \in Locks /\ l \in AllSemaphores /\ l # sendLock
      /\ UNCHANGED <<inHdr, inbox, sends, list, box, mail, posted>>
    BY PostConstants, MailBoxes DEF PostInv, networkVars, Well, WorkerWell
<1>1. /\ \A u \in Threads : u # Worker => Kept(u)
      /\ \A q \in Queues : q # l => queue'[q] = queue[q]
      /\ \A r \in AllSemaphores : r # l => value'[r] = value[r]
      /\ \A k \in Locks : k # l => lockOwner'[k] = lockOwner[k]
      /\ \/ pc'[Worker] = "client" /\ lockOwner[l] = NULL /\ lockOwner'[l] = Worker
         \/ /\ pc'[Worker] = "P" /\ waitsOn'[Worker] = l
            /\ lockOwner[l] # NULL /\ lockOwner'[l] = lockOwner[l]
    BY <1>0, TakeEffect
<1>2. Well'
    <2>1. WorkerWell'
        BY <1>0, <1>1 DEF WorkerWell, lock
    <2>2. \A k \in Locks : lockOwner'[k] = lockOwner[k] \/ lockOwner[k] \in {NULL, Worker}
        BY <1>1
    <2> QED BY <1>0, <1>1, <2>1, <2>2, WellKept, PostConstants DEF PostInv
<1>3. PacketAnnounced'
    <2>1. value'[messageAvailable] = value[messageAvailable]
        BY <1>0, <1>1, PostConstants
    <2> QED BY <1>0, <2>1 DEF PostInv, PacketAnnounced, messageAvailable
<1>4. AnswerOwed'
    <2>1. value'[messageSent] = value[messageSent] /\ lockOwner'[sendLock] = lockOwner[sendLock]
        BY <1>0, <1>1, PostConstants
    <2>2. \A u \in Clients : Expects(u)' <=> Expects(u)
        BY <1>0, <1>1, <2>1, PostConstants DEF Expects, Kept, sendLock
    <2> QED BY <1>0, <2>1, <2>2, AnswerKept DEF PostInv
<1>5. MailAwaited'
    <2>1. \A d \in Boxes : queue'[listEmpty(d)] = queue[listEmpty(d)]
        BY <1>0, <1>1, PostConstants
    <2> QED BY <1>0, <2>1, MailKept
<1> QED BY <1>2, <1>3, <1>4, <1>5

(* P on messageAvailable, by the worker. *)
LEMMA TakePacket ==
    ASSUME PostInv, NEW saved, AcquireValue(Worker, messageAvailable, saved),
           UNCHANGED <<networkVars, list, box, mail, posted>>,
           \A u \in Clients : step'[u] = step[u],
           step'[Worker] = "pull",
           step[Worker] = "await" \/ (step[Worker] = "pull" /\ pc[Worker] = "P")
    PROVE  Well' /\ PacketAnnounced' /\ AnswerOwed' /\ MailAwaited'
<1> DEFINE s == messageAvailable
<1>0. /\ Worker \in Threads /\ Worker \notin Clients /\ Worker # Main
      /\ SynchInv /\ s \in AllSemaphores /\ s \notin Locks /\ value[s] \in Nat
      /\ UNCHANGED <<inHdr, inbox, sends, list, box, mail, posted>>
    BY PostConstants DEF PostInv, networkVars, TypeOK, SynchTypeOK
<1>1. /\ \A u \in Threads : u # Worker => Kept(u)
      /\ \A q \in Queues : q # s => queue'[q] = queue[q]
      /\ \A r \in AllSemaphores : r # s => value'[r] = value[r]
      /\ \A k \in Locks : lockOwner'[k] = lockOwner[k]
      /\ \/ value[s] # 0 /\ value'[s] = value[s] - 1 /\ pc'[Worker] = "client"
         \/ value[s] = 0 /\ value'[s] = 0 /\ pc'[Worker] = "P" /\ waitsOn'[Worker] = s
    BY <1>0, TakeEffect
<1>2. Well'
    <2>1. WorkerWell'
        BY <1>0, <1>1 DEF WorkerWell, messageAvailable
    <2> QED BY <1>0, <1>1, <2>1, WellKept, PostConstants DEF PostInv
<1>3. PacketAnnounced'
    <2>1. value[s] = IF inHdr THEN 1 ELSE 0
        BY <1>0 DEF PostInv, PacketAnnounced
    <2>2. messageAvailable' = messageAvailable
        BY DEF messageAvailable
    <2> QED BY <1>0, <1>1, <2>1, <2>2 DEF PacketAnnounced
<1>4. AnswerOwed'
    <2>1. value'[messageSent] = value[messageSent] /\ lockOwner'[sendLock] = lockOwner[sendLock]
        BY <1>0, <1>1, PostConstants
    <2>2. \A u \in Clients : Expects(u)' <=> Expects(u)
        BY <1>0, <1>1, <2>1, PostConstants DEF Expects, Kept, sendLock
    <2> QED BY <1>0, <2>1, <2>2, AnswerKept DEF PostInv
<1>5. MailAwaited'
    <2>1. \A d \in Boxes : queue'[listEmpty(d)] = queue[listEmpty(d)]
        BY <1>0, <1>1, PostConstants
    <2> QED BY <1>0, <2>1, MailKept
<1> QED BY <1>2, <1>3, <1>4, <1>5

-----------------------------------------------------------------------------
(* A lock given back by its owner, who is done with it. *)
LEMMA GiveLock ==
    ASSUME PostInv, NEW t \in Clients \cup {Worker}, NEW l \in Locks,
           Release(t, l), lockOwner[l] = t,
           UNCHANGED <<networkVars, list, box, mail, posted>>,
           \A u \in Clients \cup {Worker} : u # t => step'[u] = step[u],
           \/ step[t] \in {"unlock", "removed"} /\ step'[t] = "idle" /\ t \in Clients
           \/ step[t] = "release" /\ step'[t] = "await" /\ t = Worker
    PROVE  Well' /\ PacketAnnounced' /\ AnswerOwed' /\ MailAwaited'
<1>0. /\ t \in Threads /\ t # Main /\ t # NULL /\ Worker \notin Clients
      /\ SynchInv /\ l \in AllSemaphores
      /\ UNCHANGED <<inHdr, inbox, sends, list, box, mail, posted>>
      /\ lockOwner \in [Locks -> Threads \cup {NULL}]
    BY PostConstants DEF PostInv, networkVars, TypeOK, SynchTypeOK
<1>1. /\ ReleaseValue(l) /\ pc[t] = "client" /\ UNCHANGED <<pc, waitsOn, relock>>
      /\ lockOwner' = [lockOwner EXCEPT ![l] = NULL]
    BY DEF Release, Executing
<1>2. /\ \A r \in AllSemaphores : r # l => value'[r] = value[r]
      /\ \A q \in Queues : q # l => queue'[q] = queue[q]
      /\ \A k \in Locks : k # l => lockOwner'[k] = lockOwner[k]
      /\ lockOwner'[l] = NULL
    BY <1>0, <1>1, GiveEffect
<1>3. Well'
    <2>1. t \in Clients => ClientWell(t)'
        BY <1>0, <1>1 DEF ClientWell
    <2>2. t = Worker => WorkerWell'
        BY <1>0, <1>1 DEF WorkerWell
    <2>3. \A k \in Locks : lockOwner'[k] = lockOwner[k] \/ lockOwner[k] \in {NULL, t}
        BY <1>2
    <2>4. t # Worker => step'[Worker] = step[Worker] /\ mail'[Worker] = mail[Worker]
        BY <1>0
    <2> QED BY <1>0, <1>1, <2>1, <2>2, <2>3, <2>4, WellKept DEF PostInv, Kept
<1>4. PacketAnnounced'
    <2>1. value'[messageAvailable] = value[messageAvailable]
        BY <1>2, PostConstants
    <2>2. step'[Worker] = "pull" <=> step[Worker] = "pull"
        BY <1>0
    <2> QED BY <1>0, <1>1, <2>1, <2>2 DEF PostInv, PacketAnnounced, messageAvailable
<1>5. AnswerOwed'
    <2>1. value'[messageSent] = value[messageSent]
        BY <1>2, PostConstants
    <2>2. \A u \in Clients : Expects(u)' <=> Expects(u)
        <3>1. ~ Expects(t) /\ ~ Expects(t)'
            BY <1>1 DEF Expects
        <3>2. ASSUME NEW u \in Clients, u # t PROVE Expects(u)' <=> Expects(u)
            <4>1. lockOwner'[sendLock] = u <=> lockOwner[sendLock] = u
                BY <1>0, <1>2, <3>2, PostConstants
            <4> QED BY <1>1, <3>2, <4>1 DEF Expects, sendLock
        <3> QED BY <3>1, <3>2
    <2> QED BY <1>0, <2>1, <2>2, AnswerKept DEF PostInv
<1>6. MailAwaited'
    <2>1. \A d \in Boxes : queue'[listEmpty(d)] = queue[listEmpty(d)]
        BY <1>0, <1>2, PostConstants
    <2>2. \A d \in Boxes : ~ Looking(t, d)
        BY DEF Looking
    <2> QED BY <1>0, <2>1, <2>2, MailKept
<1> QED BY <1>3, <1>4, <1>5, <1>6

(* The packet goes to the network, which is never busy. *)
LEMMA NetworkSendPost ==
    ASSUME PostInv, NEW t \in Clients, NetworkSend(t)
    PROVE  Well' /\ PacketAnnounced' /\ AnswerOwed' /\ MailAwaited' /\ ~ sendBusy' /\ machine' # "aborted"
<1>0. /\ t \in Threads /\ t # Main /\ t # Worker /\ t # NULL /\ Worker \notin Clients
      /\ ClientWell(t) /\ pc[t] = "client" /\ step[t] = "send"
      /\ UNCHANGED <<kernelVars, synchVars>> /\ UNCHANGED <<inHdr, inbox, sendBusy, list, box, mail>>
      /\ sends' = sends + 1 /\ ~ sendBusy /\ sends \in Nat /\ value[messageSent] \in Nat
    BY PostConstants DEF PostInv, Well, NetworkSend, Executing, Goto, TypeOK, SynchTypeOK
<1>1. /\ UNCHANGED <<pc, value, queue, lockOwner, waitsOn, relock, machine>>
      /\ step'[t] = "sent" /\ \A u \in Clients \cup {Worker} : u # t => step'[u] = step[u]
      /\ \A u \in Clients : u # t => posted'[u] = posted[u]
    BY <1>0 DEF NetworkSend, Goto, kernelVars, synchVars, PostInv, TypeOK
<1>2. lockOwner[sendLock] = t
    BY <1>0 DEF ClientWell
<1>3. Well'
    <2>1. ClientWell(t)'
        BY <1>0, <1>1, <1>2 DEF ClientWell, sendLock
    <2> QED BY <1>0, <1>1, <2>1, WellKept DEF PostInv, Kept
<1>4. PacketAnnounced'
    BY <1>0, <1>1, PacketKept DEF PostInv
<1>5. AnswerOwed'
    <2>1. \A u \in Clients : ~ Expects(u)
        BY <1>0, <1>2 DEF Expects
    <2>2. Expects(t)'
        BY <1>1, <1>2 DEF Expects, sendLock
    <2>3. sends + value[messageSent] = 0
        BY <2>1 DEF PostInv, AnswerOwed
    <2> QED BY <1>0, <1>1, <2>2, <2>3 DEF AnswerOwed, messageSent
<1>6. MailAwaited'
    <2>1. \A d \in Boxes : ~ Looking(t, d)
        BY <1>0 DEF Looking
    <2> QED BY <1>0, <1>1, <2>1, MailKept DEF listEmpty
<1> QED BY <1>0, <1>1, <1>3, <1>4, <1>5, <1>6 DEF PostInv

(* SynchList::Remove finds the list empty: the receiver gives the lock back *)
(* and goes to sleep behind the others.                                     *)
LEMMA RemoveWaits ==
    ASSUME PostInv, NEW t \in Clients, Remove(t), list[box[t]] = <<>>
    PROVE  Well' /\ PacketAnnounced' /\ AnswerOwed' /\ MailAwaited' /\ machine' # "aborted"
<1> DEFINE b == box[t]
           l == lock(b)
           c == listEmpty(b)
<1>0. /\ t \in Threads /\ t # Main /\ t # Worker /\ t # NULL
      /\ ClientWell(t) /\ pc[t] = "client" /\ step[t] = "empty?"
      /\ UNCHANGED <<inHdr, inbox, sends, list, box, mail, posted, step>>
      /\ pc \in [Threads -> PCs] /\ value \in [AllSemaphores -> Nat]
      /\ queue \in [Queues -> Seq(Threads)] /\ lockOwner \in [Locks -> Threads \cup {NULL}]
      /\ waitsOn \in [Threads -> Queues \cup {NULL}] /\ relock \in [Threads -> Locks \cup {NULL}]
    BY PostConstants
    DEF PostInv, Well, Remove, Executing, networkVars, TypeOK, KernelTypeOK, SynchTypeOK
<1>1. b \in Boxes /\ lockOwner[l] = t
    BY <1>0 DEF ClientWell
<1>2. /\ l \in Locks /\ l \in AllSemaphores /\ l \in Queues /\ c \in Queues /\ c # l
      /\ \A d \in Boxes : listEmpty(d) # l /\ (d # b => listEmpty(d) # c)
    BY <1>1, PostConstants
<1>3. /\ queue' = [queue EXCEPT ![c] = Append(@, t), ![l] = Rest(l)]
      /\ value' = [value EXCEPT ![l] = @ + 1]
      /\ lockOwner' = [lockOwner EXCEPT ![l] = NULL]
      /\ pc' = [pc EXCEPT ![t] = "Wait"]
      /\ waitsOn' = [waitsOn EXCEPT ![t] = c]
      /\ relock' = [relock EXCEPT ![t] = l]
      /\ machine' = machine
    BY <1>0, <1>1 DEF Remove, Wait
<1>4. /\ \A u \in Threads : u # t => Kept(u)
      /\ pc'[t] = "Wait" /\ waitsOn'[t] = c /\ relock'[t] = l
    BY <1>0, <1>3 DEF Kept
<1>5. \A k \in Locks : k # l => lockOwner'[k] = lockOwner[k]
    BY <1>0, <1>3
<1>6. Well'
    <2>1. ClientWell(t)'
        BY <1>0, <1>1, <1>4 DEF ClientWell, lock, listEmpty
    <2>2. \A k \in Locks : lockOwner'[k] = lockOwner[k] \/ lockOwner[k] \in {NULL, t}
        BY <1>1, <1>5
    <2> QED BY <1>0, <1>4, <2>1, <2>2, WellKept DEF PostInv
<1>7. PacketAnnounced'
    <2>1. value'[messageAvailable] = value[messageAvailable]
        BY <1>0, <1>2, <1>3, PostConstants
    <2> QED BY <1>0, <1>4, <2>1, PacketKept, PostConstants DEF PostInv, Kept
<1>8. AnswerOwed'
    <2>1. value'[messageSent] = value[messageSent]
        BY <1>0, <1>2, <1>3, PostConstants
    <2>2. \A u \in Clients : Expects(u)' <=> Expects(u)
        <3>1. lockOwner'[sendLock] = lockOwner[sendLock]
            BY <1>1, <1>5, PostConstants
        <3>2. ~ Expects(t) /\ ~ Expects(t)'
            BY <1>0 DEF Expects
        <3> QED BY <1>0, <1>4, <3>1, <3>2, PostConstants DEF Expects, Kept, sendLock
    <2> QED BY <1>0, <2>1, <2>2, AnswerKept DEF PostInv
<1>9. MailAwaited'
    <2> SUFFICES ASSUME NEW d \in Boxes, queue'[listEmpty(d)] # <<>>
                 PROVE  Len(list'[d]) <= Cardinality(Lookers(d)')
        BY DEF MailAwaited
    <2>0. IsFiniteSet(Lookers(d)) /\ Cardinality(Lookers(d)) \in Nat
        BY LookersFinite DEF PostInv
    <2>1. CASE d = b
        <3>1. Lookers(d)' \subseteq Lookers(d) \cup {t}
            <4>1. \A u \in Threads : u \in Range(queue[c]) => u \in Range(queue'[c])
                <5>1. queue'[c] = Append(queue[c], t) /\ queue[c] \in Seq(Threads)
                    BY <1>0, <1>2, <1>3
                <5> QED BY <1>0, <5>1, AppendRange
            <4> QED BY <1>0, <2>1, <4>1, PostConstants DEF Lookers, Looking, listEmpty
        <3>2. IsFiniteSet(Lookers(d)')
            BY <2>0, <3>1, FS_AddElement, FS_Subset
        <3>3. Cardinality(Lookers(d)') \in Nat /\ list'[d] = <<>>
            BY <1>0, <2>1, <3>2, FS_CardinalityType
        <3> QED BY <3>3
    <2>2. CASE d # b
        <3>1. queue'[listEmpty(d)] = queue[listEmpty(d)]
            BY <1>0, <1>2, <1>3, <2>2, PostConstants
        <3>2. Lookers(d)' = Lookers(d)
            BY <1>0, <3>1 DEF Lookers, Looking, listEmpty
        <3>3. Len(list[d]) <= Cardinality(Lookers(d))
            BY <3>1 DEF PostInv, MailAwaited
        <3> QED BY <1>0, <3>2, <3>3
    <2> QED BY <2>1, <2>2
<1> QED BY <1>3, <1>6, <1>7, <1>8, <1>9 DEF PostInv

(* SynchList::Remove takes the first mail: the receiver was one of the Lookers. *)
LEMMA RemoveTakes ==
    ASSUME PostInv, NEW t \in Clients, Remove(t), list[box[t]] # <<>>
    PROVE  Well' /\ PacketAnnounced' /\ AnswerOwed' /\ MailAwaited' /\ machine' # "aborted"
<1> DEFINE b == box[t]
<1>0. /\ t \in Threads /\ t # Main /\ t # Worker /\ t # NULL /\ Worker \notin Clients
      /\ ClientWell(t) /\ Executing(t) /\ pc[t] = "client" /\ step[t] = "empty?"
      /\ UNCHANGED <<inHdr, inbox, sends, box, posted>>
      /\ UNCHANGED <<pc, value, queue, lockOwner, waitsOn, relock, machine>>
      /\ list \in [Boxes -> Seq(Mails)]
    BY PostConstants
    DEF PostInv, Well, Remove, Executing, networkVars, kernelVars, synchVars, TypeOK
<1>1. b \in Boxes /\ lockOwner[lock(b)] = t
    BY <1>0 DEF ClientWell
<1>2. /\ step'[t] = "removed" /\ \A u \in Clients \cup {Worker} : u # t => step'[u] = step[u]
      /\ mail'[Worker] = mail[Worker]
      /\ list' = [list EXCEPT ![b] = Tail(@)]
    BY <1>0 DEF Remove, Goto, PostInv, TypeOK
<1>3. Well'
    <2>1. ClientWell(t)'
        BY <1>0, <1>1, <1>2 DEF ClientWell, lock
    <2> QED BY <1>0, <1>2, <2>1, WellKept DEF PostInv, Kept
<1>4. PacketAnnounced'
    BY <1>0, <1>2, PacketKept DEF PostInv
<1>5. AnswerOwed'
    <2>1. \A u \in Clients : Expects(u)' <=> Expects(u)
        BY <1>0, <1>2, PostConstants DEF Expects, sendLock
    <2> QED BY <1>0, <2>1, AnswerKept DEF PostInv
<1>6. MailAwaited'
    <2> SUFFICES ASSUME NEW d \in Boxes, queue[listEmpty(d)] # <<>>
                 PROVE  Len(list'[d]) <= Cardinality(Lookers(d)')
        BY <1>0 DEF MailAwaited, listEmpty
    <2>0. /\ IsFiniteSet(Lookers(d)) /\ Cardinality(Lookers(d)) \in Nat
          /\ Len(list[d]) <= Cardinality(Lookers(d))
        BY LookersFinite DEF PostInv, MailAwaited
    <2>1. CASE d = b
        <3>1. t \in Lookers(d)
            <4>1. t \notin Range(queue[listEmpty(d)])
                BY <1>0, PostConstants
                DEF Executing, PostInv, SynchInv, ThreadInv, PlaceInv, Placed
            <4> QED BY <1>0, <2>1, <4>1 DEF Lookers, Looking
        <3>2. Lookers(d)' = Lookers(d) \ {t}
            BY <1>0, <1>2 DEF Lookers, Looking, listEmpty
        <3>3. Cardinality(Lookers(d)') = Cardinality(Lookers(d)) - 1
            BY <2>0, <3>1, <3>2, FS_RemoveElement
        <3>4. Len(list'[d]) = Len(list[d]) - 1 /\ Len(list[d]) \in Nat
            <4>1. list'[d] = Tail(list[d]) /\ list[d] \in Seq(Mails) /\ list[d] # <<>>
                BY <1>0, <1>2, <2>1
            <4> QED BY <4>1, HeadTailProperties, LenProperties
        <3> QED BY <2>0, <3>3, <3>4
    <2>2. CASE d # b
        <3>1. Lookers(d)' = Lookers(d)
            BY <1>0, <1>2, <2>2 DEF Lookers, Looking, listEmpty
        <3> QED BY <1>0, <1>2, <2>0, <2>2, <3>1
    <2> QED BY <2>1, <2>2
<1> QED BY <1>0, <1>3, <1>4, <1>5, <1>6 DEF PostInv

(* The worker was told, so there is a packet to take out of the device. *)
LEMMA ReceiveHeaderPost ==
    ASSUME PostInv, ReceiveHeader
    PROVE  Well' /\ PacketAnnounced' /\ AnswerOwed' /\ MailAwaited' /\ machine' # "aborted"
<1>0. /\ Worker \in Threads /\ Worker \notin Clients /\ Worker # Main
      /\ pc[Worker] = "client" /\ step[Worker] = "pull" /\ inHdr \in BOOLEAN
      /\ UNCHANGED <<value, queue, lockOwner, waitsOn, relock, sends, box, posted, mail, list>>
      /\ value[messageAvailable] \in Nat
    BY PostConstants
    DEF ReceiveHeader, Executing, Goto, synchVars, PostInv, TypeOK, SynchTypeOK
<1>1. inHdr /\ value[messageAvailable] = 0
    BY <1>0 DEF PostInv, PacketAnnounced
<1>2. ~ inHdr' /\ UNCHANGED <<pc, machine>>
    BY <1>1 DEF ReceiveHeader, kernelVars
<1>3. step'[Worker] = "copy" /\ \A u \in Clients : step'[u] = step[u]
    BY <1>0, <1>1 DEF ReceiveHeader, Goto, PostInv, TypeOK
<1>4. Well'
    <2>1. WorkerWell'
        BY <1>0, <1>2, <1>3 DEF WorkerWell
    <2> QED BY <1>0, <1>2, <1>3, <2>1, WellKept DEF PostInv, Kept
<1>5. PacketAnnounced'
    BY <1>0, <1>1, <1>2, <1>3 DEF PacketAnnounced, messageAvailable
<1>6. AnswerOwed'
    <2>1. \A u \in Clients : Expects(u)' <=> Expects(u)
        BY <1>0, <1>2, <1>3 DEF Expects, sendLock
    <2> QED BY <1>0, <2>1, AnswerKept DEF PostInv
<1>7. MailAwaited'
    BY <1>0, <1>3, MailKept DEF listEmpty
<1> QED BY <1>2, <1>4, <1>5, <1>6, <1>7 DEF PostInv

LEMMA CopyInboxPost ==
    ASSUME PostInv, CopyInbox
    PROVE  Well' /\ PacketAnnounced' /\ AnswerOwed' /\ MailAwaited' /\ machine' # "aborted"
<1>0. /\ Worker \in Threads /\ Worker \notin Clients /\ Worker # Main
      /\ pc[Worker] = "client" /\ step[Worker] = "copy" /\ inbox \in Mails
      /\ UNCHANGED <<pc, machine, value, queue, lockOwner, waitsOn, relock>>
      /\ UNCHANGED <<inHdr, sends, box, posted, list>>
    BY PostConstants
    DEF CopyInbox, Executing, Goto, kernelVars, synchVars, networkVars, PostInv, PacketThere
<1>1. mail'[Worker] = inbox /\ step'[Worker] = "put" /\ \A u \in Clients : step'[u] = step[u]
    BY <1>0 DEF CopyInbox, Goto, PostInv, TypeOK
<1>2. Well'
    <2>1. WorkerWell'
        BY <1>0, <1>1 DEF WorkerWell
    <2> QED BY <1>0, <1>1, <2>1, WellKept DEF PostInv, Kept
<1>3. PacketAnnounced'
    BY <1>0, <1>1 DEF PostInv, PacketAnnounced, messageAvailable
<1>4. AnswerOwed'
    <2>1. \A u \in Clients : Expects(u)' <=> Expects(u)
        BY <1>0, <1>1 DEF Expects, sendLock
    <2> QED BY <1>0, <2>1, AnswerKept DEF PostInv
<1>5. MailAwaited'
    BY <1>0, <1>1, MailKept DEF listEmpty
<1> QED BY <1>0, <1>2, <1>3, <1>4, <1>5 DEF PostInv

(* SynchList::Append: one mail more, and one receiver less asleep. *)
LEMMA AppendPost ==
    ASSUME PostInv, AppendAndSignal, UNCHANGED <<networkVars, box, mail, posted, receives, yields>>
    PROVE  Well' /\ PacketAnnounced' /\ AnswerOwed' /\ MailAwaited' /\ machine' # "aborted"
<1> DEFINE b == mail[Worker].to
           c == listEmpty(b)
<1>0. /\ Worker \in Threads /\ Worker \notin Clients /\ Worker # Main
      /\ pc[Worker] = "client" /\ step[Worker] = "append" /\ WorkerWell
      /\ UNCHANGED <<pc, value, lockOwner, waitsOn, relock, machine, inHdr, inbox, sends, box, posted, mail>>
      /\ queue' = [queue EXCEPT ![c] = Rest(c)]
      /\ list' = [list EXCEPT ![b] = Append(@, mail[Worker])]
      /\ queue \in [Queues -> Seq(Threads)] /\ list \in [Boxes -> Seq(Mails)]
    BY PostConstants
    DEF AppendAndSignal, Signal, Executing, Goto, networkVars, PostInv, Well, TypeOK, SynchTypeOK
<1>1. mail[Worker] \in Mails /\ b \in Boxes /\ c \in Conditions /\ c \in Queues
    BY <1>0, MailBoxes, PostConstants DEF WorkerWell
<1>2. step'[Worker] = "release" /\ \A u \in Clients : step'[u] = step[u]
    BY <1>0 DEF AppendAndSignal, Goto, PostInv, TypeOK
<1>3. Well'
    <2>1. WorkerWell'
        BY <1>0, <1>1, <1>2 DEF WorkerWell, lock
    <2> QED BY <1>0, <1>2, <2>1, WellKept DEF PostInv, Kept
<1>4. PacketAnnounced'
    BY <1>0, <1>2 DEF PostInv, PacketAnnounced, messageAvailable
<1>5. AnswerOwed'
    <2>1. \A u \in Clients : Expects(u)' <=> Expects(u)
        BY <1>0, <1>2 DEF Expects, sendLock
    <2> QED BY <1>0, <2>1, AnswerKept DEF PostInv
<1>6. MailAwaited'
    <2> SUFFICES ASSUME NEW d \in Boxes, queue'[listEmpty(d)] # <<>>
                 PROVE  Len(list'[d]) <= Cardinality(Lookers(d)')
        BY DEF MailAwaited, listEmpty
    <2>0. IsFiniteSet(Lookers(d)) /\ Cardinality(Lookers(d)) \in Nat
        BY LookersFinite DEF PostInv
    <2>1. CASE d # b
        <3>1. queue'[listEmpty(d)] = queue[listEmpty(d)] /\ list'[d] = list[d]
            BY <1>0, <1>1, <2>1, PostConstants
        <3>2. Lookers(d)' = Lookers(d)
            BY <1>0, <1>2, <3>1 DEF Lookers, Looking, listEmpty
        <3> QED BY <3>1, <3>2 DEF PostInv, MailAwaited
    <2>2. CASE d = b
        <3> DEFINE q == queue[c]
                   h == Head(q)
        <3>1. q \in Seq(Threads) /\ queue'[c] = Rest(c)
            BY <1>0, <1>1
        <3>2. q # <<>> /\ queue'[c] = Tail(q)
            BY <2>2, <3>1 DEF Rest
        <3>3. /\ IsInjective(q)
              /\ \A u \in Threads : u \in Range(q) =>
                     status[u] = "BLOCKED" /\ pc[u] # "finish" /\ waitsOn[u] = c
            BY <1>1 DEF PostInv, SynchInv, ThreadInv, PlaceInv, Placed
        <3>4. h \in Range(q) /\ h \in Threads /\ Range(q) = Range(Tail(q)) \cup {h} /\ h \notin Range(Tail(q))
            BY <3>1, <3>2, <3>3, TailRange, HeadTailProperties
        <3>5. h \in Clients /\ step[h] = "empty?" /\ box[h] = b
            <4>1. pc[h] \in {"P", "Wait"} /\ waitsOn[h] = c
                BY <3>3, <3>4 DEF PostInv, SynchInv, ThreadInv, PlaceInv, Placed
            <4>2. pc[h] = "Wait"
                BY <1>1, <3>4, <4>1, PostConstants
                DEF PostInv, SynchInv, ThreadInv, PlaceInv, LockInv, WaitsWell
            <4>3. h \in Clients /\ ClientWell(h)
                BY <3>4, <4>2, PostConstants DEF PostInv, Well, WorkerWell
            <4> QED BY <1>1, <4>1, <4>2, <4>3, PostConstants DEF ClientWell
        <3>6. Lookers(d)' = Lookers(d) \cup {h} /\ h \notin Lookers(d)
            <4>1. \A u \in Clients : Looking(u, d)' <=> step[u] = "empty?" /\ box[u] = d /\ u \notin Range(Tail(q))
                BY <1>0, <1>2, <2>2, <3>2 DEF Looking, listEmpty
            <4>2. \A u \in Clients : Looking(u, d) <=> step[u] = "empty?" /\ box[u] = d /\ u \notin Range(q)
                BY <2>2 DEF Looking
            <4> HIDE DEF q, h
            <4>3. \A u \in Clients : Looking(u, d)' <=> Looking(u, d) \/ u = h
                BY <2>2, <3>4, <3>5, <4>1, <4>2
            <4> QED BY <3>4, <3>5, <4>2, <4>3 DEF Lookers
        <3>7. Cardinality(Lookers(d)') = Cardinality(Lookers(d)) + 1
            BY <2>0, <3>6, FS_AddElement
        <3>8. Len(list'[d]) = Len(list[d]) + 1 /\ Len(list[d]) \in Nat
            <4>1. list'[d] = Append(list[d], mail[Worker]) /\ list[d] \in Seq(Mails)
                BY <1>0, <1>1, <2>2
            <4> QED BY <1>1, <4>1, AppendProperties, LenProperties
        <3>9. Len(list[d]) <= Cardinality(Lookers(d))
            BY <2>2, <3>2 DEF PostInv, MailAwaited
        <3> QED BY <2>0, <3>7, <3>8, <3>9
    <2> QED BY <2>1, <2>2
<1> QED BY <1>0, <1>3, <1>4, <1>5, <1>6 DEF PostInv

(* A handler's V: nobody's place changes but that of the thread it wakes. *)
LEMMA HandlerPost ==
    ASSUME PostInv, CheckPktAvail \/ SendDone
    PROVE  Well' /\ PacketAnnounced' /\ AnswerOwed' /\ MailAwaited' /\ ~ sendBusy' /\ machine' # "aborted"
<1>0. /\ UNCHANGED <<pc, lockOwner, waitsOn, relock, machine, list, step, box, mail, posted>>
      /\ ~ sendBusy' /\ SynchInv
      /\ sends \in Nat /\ value[messageSent] \in Nat /\ value[messageAvailable] \in Nat
      /\ Main \in Threads /\ Main \notin Clients /\ Main # Worker
    BY PostConstants
    DEF CheckPktAvail, SendDone, HandlerV, clientVars, PostInv, TypeOK, SynchTypeOK
<1>1. PICK s \in {messageAvailable, messageSent} : ReleaseValue(s) /\
          \/ s = messageAvailable /\ CheckPktAvail
          \/ s = messageSent /\ SendDone
    BY DEF CheckPktAvail, SendDone, HandlerV
<1>2. /\ value'[s] = value[s] + 1
      /\ \A r \in AllSemaphores : r # s => value'[r] = value[r]
      /\ \A d \in Boxes : queue'[listEmpty(d)] = queue[listEmpty(d)]
    <2>1. s \in AllSemaphores /\ \A d \in Boxes : listEmpty(d) # s /\ listEmpty(d) \in Queues
        BY PostConstants
    <2> QED BY <1>0, <1>1, <2>1, GiveEffect
<1>3. Well'
    BY <1>0, WellKept DEF PostInv, Well, Kept
<1>4. MailAwaited'
    BY <1>0, <1>2, MailKept
<1>5. \A u \in Clients : Expects(u)' <=> Expects(u)
    BY <1>0 DEF Expects, sendLock
<1>6. CASE s = messageAvailable /\ CheckPktAvail
    <2>1. AnswerOwed'
        <3>1. sends' = sends /\ value'[messageSent] = value[messageSent]
            BY <1>2, <1>6, PostConstants DEF CheckPktAvail
        <3> QED BY <1>5, <3>1, AnswerKept DEF PostInv
    <2>2. PacketAnnounced'
        <3>1. ~ inHdr /\ inHdr'
            BY <1>6 DEF CheckPktAvail
        <3> QED BY <1>0, <1>2, <1>6, <3>1 DEF PostInv, PacketAnnounced, messageAvailable
    <2> QED BY <1>0, <1>3, <1>4, <2>1, <2>2 DEF PostInv
<1>7. CASE s = messageSent /\ SendDone
    <2>1. AnswerOwed'
        <3>1. sends' = sends - 1 /\ value'[messageSent] = value[messageSent] + 1
            BY <1>2, <1>7 DEF SendDone
        <3>2. sends' + value'[messageSent] = sends + value[messageSent]
            BY <1>0, <3>1
        <3> QED BY <1>5, <3>2 DEF PostInv, AnswerOwed, messageSent
    <2>2. PacketAnnounced'
        <3>1. inHdr' = inHdr /\ value'[messageAvailable] = value[messageAvailable]
            BY <1>2, <1>7, PostConstants DEF SendDone
        <3> QED BY <1>0, <3>1, PacketKept DEF PostInv
    <2> QED BY <1>0, <1>3, <1>4, <2>1, <2>2 DEF PostInv
<1> QED BY <1>1, <1>6, <1>7

-----------------------------------------------------------------------------
LEMMA ClientPost ==
    ASSUME PostInv, NEW t \in Clients, ClientStep(t)
    PROVE  Well' /\ PacketAnnounced' /\ AnswerOwed' /\ MailAwaited' /\ ~ sendBusy' /\ machine' # "aborted"
<1>0. /\ t \in Threads /\ t # Main /\ t # Worker /\ ClientWell(t) /\ ~ sendBusy /\ machine # "aborted"
      /\ step \in [Clients \cup {Worker} -> {"idle", "send", "sent", "unlock", "empty?",
                 "removed", "await", "pull", "copy", "put", "append", "release"}]
      /\ box \in [Clients -> Boxes \cup {NULL}]
    BY PostConstants DEF PostInv, Well, TypeOK
<1>1. ASSUME NEW from, NEW to, Goto(t, from, to)
      PROVE  step[t] = from /\ step'[t] = to
             /\ \A u \in Clients \cup {Worker} : u # t => step'[u] = step[u]
    BY <1>0, <1>1 DEF Goto
<1>2. ASSUME NEW b \in Boxes, Send(t, b) PROVE Well' /\ PacketAnnounced' /\ AnswerOwed' /\ MailAwaited'
    <2>1. AcquireValue(t, sendLock, "Off")
        BY <1>2 DEF Send, Acquire
    <2>2. /\ box'[t] = b /\ \A u \in Clients : u # t => box'[u] = box[u]
          /\ step[t] = "idle" /\ step'[t] = "send" /\ posted[t] < MaxSends
          /\ \A u \in Clients \cup {Worker} : u # t => step'[u] = step[u]
          /\ UNCHANGED <<networkVars, list, mail, posted>>
        BY <1>0, <1>1, <1>2 DEF Send
    <2> QED BY <2>1, <2>2, TakeSendLock
<1>3. ASSUME NEW b \in Boxes, Receive(t, b) PROVE Well' /\ PacketAnnounced' /\ AnswerOwed' /\ MailAwaited'
    <2>1. AcquireValue(t, lock(b), "Off")
        BY <1>3 DEF Receive, Acquire
    <2>2. /\ box'[t] = b /\ \A u \in Clients : u # t => box'[u] = box[u]
          /\ step[t] = "idle" /\ step'[t] = "empty?"
          /\ \A u \in Clients \cup {Worker} : u # t => step'[u] = step[u]
          /\ UNCHANGED <<networkVars, list, mail, posted>>
        BY <1>0, <1>1, <1>3 DEF Receive
    <2> QED BY <2>1, <2>2, TakeBox
<1>4. CASE SendReturn(t)
    <2>1. /\ UNCHANGED <<networkVars, list, box, mail, posted>> /\ UNCHANGED <<machine, sendBusy>>
          /\ pc[t] = "client"
        BY <1>4 DEF SendReturn, P, Release, Executing, networkVars
    <2>2. CASE Goto(t, "sent", "unlock") /\ P(t, messageSent)
        <3>1. AcquireValue(t, messageSent, level)
            BY <2>2 DEF P
        <3>2. Expects(t)
            BY <1>0, <1>1, <2>2 DEF ClientWell, Expects
        <3> QED BY <1>0, <1>1, <2>1, <2>2, <3>1, <3>2, TakeAnswer
    <2>3. CASE Goto(t, "unlock", "idle") /\ Release(t, sendLock)
        <3>1. lockOwner[sendLock] = t /\ sendLock \in Locks
            BY <1>0, <1>1, <2>3, PostConstants DEF ClientWell
        <3> QED BY <1>0, <1>1, <2>1, <2>3, <3>1, GiveLock
    <2> QED BY <1>4, <2>2, <2>3 DEF SendReturn
<1>5. CASE ReceiveReturn(t)
    <2>1. /\ UNCHANGED <<networkVars, list, box, mail, posted>> /\ UNCHANGED <<machine, sendBusy>>
          /\ Goto(t, "removed", "idle") /\ Release(t, lock(box[t]))
        BY <1>5 DEF ReceiveReturn, Release, networkVars
    <2>2. lockOwner[lock(box[t])] = t /\ lock(box[t]) \in Locks
        BY <1>0, <1>1, <2>1, PostConstants DEF ClientWell
    <2> QED BY <1>0, <1>1, <2>1, <2>2, GiveLock
<1>6. CASE FinishStep(t)
    <2>1. /\ UNCHANGED synchVars /\ UNCHANGED <<networkVars, list, clientVars>> /\ machine' = machine
          /\ pc[t] = "client" /\ pc' = [pc EXCEPT ![t] = "finish"]
        BY <1>6 DEF FinishStep, Finish, Executing, postVars
    <2>2. pc \in [Threads -> PCs]
        BY DEF PostInv, TypeOK, KernelTypeOK
    <2> QED BY <1>0, <2>1, <2>2, KernelKeepsPost
<1>7. CASE Remove(t)
    <2>1. sendBusy' = sendBusy
        BY <1>7 DEF Remove, networkVars
    <2> QED BY <1>0, <1>7, <2>1, RemoveWaits, RemoveTakes
<1>8. ASSUME NEW b \in Boxes, Send(t, b) \/ Receive(t, b) PROVE UNCHANGED <<machine, sendBusy>>
    BY <1>8 DEF Send, Receive, Acquire, networkVars
<1> QED BY <1>0, <1>2, <1>3, <1>4, <1>5, <1>6, <1>7, <1>8, NetworkSendPost DEF ClientStep

LEMMA DeliverPost ==
    ASSUME PostInv, Deliver
    PROVE  Well' /\ PacketAnnounced' /\ AnswerOwed' /\ MailAwaited' /\ ~ sendBusy' /\ machine' # "aborted"
<1>0. /\ Worker \in Threads /\ Worker \notin Clients /\ WorkerWell /\ ~ sendBusy /\ machine # "aborted"
      /\ step \in [Clients \cup {Worker} -> {"idle", "send", "sent", "unlock", "empty?",
                 "removed", "await", "pull", "copy", "put", "append", "release"}]
      /\ UNCHANGED <<networkVars, box, mail, posted, receives, yields>> /\ sendBusy' = sendBusy
    BY PostConstants DEF PostInv, Well, TypeOK, Deliver, networkVars
<1>1. ASSUME NEW from, NEW to, Goto(Worker, from, to)
      PROVE  step[Worker] = from /\ step'[Worker] = to /\ \A u \in Clients : step'[u] = step[u]
    BY <1>0, <1>1 DEF Goto
<1>2. CASE Goto(Worker, "await", "pull") /\ P(Worker, messageAvailable) /\ UNCHANGED list
    <2>1. AcquireValue(Worker, messageAvailable, level) /\ machine' = machine
        BY <1>2 DEF P
    <2> QED BY <1>0, <1>1, <1>2, <2>1, TakePacket
<1>3. CASE Goto(Worker, "put", "append") /\ Acquire(Worker, lock(mail[Worker].to)) /\ UNCHANGED list
    <2>1. AcquireValue(Worker, lock(mail[Worker].to), "Off") /\ machine' = machine
        BY <1>3 DEF Acquire
    <2> QED BY <1>0, <1>1, <1>3, <2>1, TakeWorkerBox
<1>4. CASE Goto(Worker, "release", "await") /\ Release(Worker, lock(mail[Worker].to)) /\ UNCHANGED list
    <2>1. lockOwner[lock(mail[Worker].to)] = Worker /\ lock(mail[Worker].to) \in Locks
        BY <1>0, <1>1, <1>4, PostConstants, MailBoxes DEF WorkerWell
    <2>2. machine' = machine
        BY <1>4 DEF Release
    <2> QED BY <1>0, <1>1, <1>4, <2>1, <2>2, GiveLock
<1>5. CASE AppendAndSignal
    BY <1>0, <1>5, AppendPost
<1> QED BY <1>2, <1>3, <1>4, <1>5 DEF Deliver

(* P and Wait, when SWITCH returns. *)
LEMMA ResumePost ==
    ASSUME PostInv, NEW t \in Threads, ResumeP(t) \/ ResumeWait(t), UNCHANGED postVars
    PROVE  Well' /\ PacketAnnounced' /\ AnswerOwed' /\ MailAwaited'
<1>0. /\ UNCHANGED <<networkVars, list, box, mail, posted, step>>
      /\ pc[t] \in {"P", "Wait"} /\ machine' = machine
    BY DEF ResumeP, ResumeWait, postVars, clientVars
<1>1. CASE t \in Clients
    <2>1. ClientWell(t)
        BY <1>1 DEF PostInv, Well
    <2>2. CASE step[t] = "send"
        <3>1. PICK saved : AcquireValue(t, sendLock, saved)
            BY <2>1, <2>2 DEF ResumeP, ResumeWait, ClientWell
        <3> QED BY <1>0, <1>1, <2>1, <2>2, <3>1, TakeSendLock DEF ClientWell
    <2>3. CASE step[t] = "unlock"
        <3>1. PICK saved : AcquireValue(t, messageSent, saved)
            BY <2>1, <2>3 DEF ResumeP, ResumeWait, ClientWell
        <3>2. Expects(t)
            BY <1>0, <2>1, <2>3 DEF ClientWell, Expects
        <3> QED BY <1>0, <1>1, <2>3, <3>1, <3>2, TakeAnswer
    <2>4. CASE step[t] = "empty?"
        <3>1. PICK saved : AcquireValue(t, lock(box[t]), saved)
            BY <2>1, <2>4 DEF ResumeP, ResumeWait, ClientWell
        <3>2. box[t] \in Boxes
            BY <2>1, <2>4 DEF ClientWell
        <3> QED BY <1>0, <1>1, <2>4, <3>1, <3>2, TakeBox
    <2> QED BY <1>0, <2>1, <2>2, <2>3, <2>4 DEF ClientWell
<1>2. CASE t = Worker
    <2>1. WorkerWell /\ pc[Worker] = "P" /\ ResumeP(Worker)
        BY <1>0, <1>2 DEF PostInv, Well, WorkerWell, ResumeWait
    <2>2. CASE step[Worker] = "pull"
        <3>1. PICK saved : AcquireValue(Worker, messageAvailable, saved)
            BY <2>1, <2>2 DEF ResumeP, WorkerWell
        <3> QED BY <1>0, <2>1, <2>2, <3>1, TakePacket
    <2>3. CASE step[Worker] = "append"
        <3>1. PICK saved : AcquireValue(Worker, lock(mail[Worker].to), saved)
            BY <2>1, <2>3 DEF ResumeP, WorkerWell
        <3> QED BY <1>0, <2>3, <3>1, TakeWorkerBox
    <2> QED BY <2>1, <2>2, <2>3 DEF WorkerWell
<1> QED BY <1>0, <1>1, <1>2, PostConstants DEF PostInv, Well

LEMMA NextPost ==
    ASSUME PostInv, [Next]_vars
    PROVE  Well' /\ PacketAnnounced' /\ AnswerOwed' /\ MailAwaited' /\ ~ sendBusy' /\ machine' # "aborted"
<1>0. ~ sendBusy /\ machine # "aborted" /\ pc \in [Threads -> PCs] /\ Main \in Threads
    BY PostConstants DEF PostInv, TypeOK, KernelTypeOK
<1>1. ASSUME UNCHANGED synchVars, UNCHANGED <<networkVars, list, clientVars>>, machine' = machine,
             NEW t \in Threads, Fork(Main, t) \/ Finish(t) \/ Yield(t) \/ ThreadRoot(t) \/ YieldReturn(t)
                                \/ Dispatch \/ UNCHANGED pc
      PROVE  Well' /\ PacketAnnounced' /\ AnswerOwed' /\ MailAwaited' /\ ~ sendBusy' /\ machine' # "aborted"
    <2>1. \A u \in Threads : u # t => pc'[u] = pc[u]
        BY <1>0, <1>1 DEF Fork, Finish, Yield, ThreadRoot, YieldReturn, Dispatch
    <2>2. \/ pc'[t] = pc[t]
          \/ pc[t] \notin {"P", "Wait"} /\ pc'[t] \in {"client", "yield", "finish"}
        BY <1>0, <1>1 DEF Fork, Finish, Yield, ThreadRoot, YieldReturn, Dispatch, Executing
    <2> QED BY <1>0, <1>1, <2>1, <2>2, KernelKeepsPost
<1>2. CASE MainStep
    BY <1>1, <1>2, PostConstants DEF MainStep, Fork, Finish, postVars
<1>3. CASE \E t \in Threads : YieldStep(t)
    BY <1>1, <1>3 DEF YieldStep, Yield
<1>4. CASE PollInVain \/ UNCHANGED vars
    BY <1>0, <1>1, <1>4 DEF PollInVain, vars, kernelVars, postVars
<1>5. CASE SystemStep /\ UNCHANGED postVars
    <2>1. CASE \E t \in Threads : ResumeP(t) \/ ResumeWait(t)
        BY <1>0, <1>5, <2>1, ResumePost DEF ResumeP, ResumeWait, postVars, networkVars
    <2>2. CASE KernelStep /\ UNCHANGED synchVars
        <3>1. machine' = machine /\ UNCHANGED <<networkVars, list, clientVars>>
            BY <1>5, <2>2 DEF KernelStep, Dispatch, ThreadRoot, YieldReturn, postVars
        <3> QED BY <1>0, <1>1, <2>2, <3>1 DEF KernelStep
    <2> QED BY <1>5, <2>1, <2>2 DEF SystemStep
<1>6. CASE ReceiveHeader
    BY <1>0, <1>6, ReceiveHeaderPost DEF ReceiveHeader
<1>8. CASE CopyInbox
    BY <1>0, <1>8, CopyInboxPost DEF CopyInbox, networkVars
<1>7. CASE \E t \in Clients : ClientStep(t)
    BY <1>7, ClientPost
<1> QED BY <1>2, <1>3, <1>4, <1>5, <1>6, <1>7, <1>8, DeliverPost, HandlerPost DEF Next

-----------------------------------------------------------------------------
(* TypeOK, without what SynchInv says of it already. *)
Steps == {"idle", "send", "sent", "unlock", "empty?", "removed",
          "await", "pull", "copy", "put", "append", "release"}

NetTypes ==
    /\ socket \in Seq(Mails) /\ inHdr \in BOOLEAN /\ inbox \in Mails \cup {NULL}
    /\ sendBusy \in BOOLEAN /\ sends \in Nat
    /\ list \in [Boxes -> Seq(Mails)]

ClientTypes ==
    /\ step \in [Clients \cup {Worker} -> Steps]
    /\ box \in [Clients -> Boxes \cup {NULL}]
    /\ mail \in [Clients \cup {Worker} -> Mails \cup {NULL}]
    /\ posted \in [Clients -> 0 .. MaxSends]
    /\ receives \in [Clients -> 0 .. MaxReceives]
    /\ yields \in 0 .. MaxYields
    /\ \A t \in Clients : step[t] = "removed" => mail[t] \in Mails

LEMMA ClientTypesStep ==
    ASSUME NetTypes, ClientTypes, Well, NEW t \in Clients, ClientStep(t)
    PROVE  NetTypes' /\ ClientTypes'
<1> USE DEF NetTypes, ClientTypes
<1>0. t # Worker /\ t \in Clients \cup {Worker} /\ ClientWell(t)
    BY PostConstants DEF Well
<1>1. ASSUME NEW from, NEW to \in Steps, Goto(t, from, to)
      PROVE  /\ step[t] = from /\ step' \in [Clients \cup {Worker} -> Steps] /\ step'[t] = to
             /\ \A u \in Clients : u # t => step'[u] = step[u]
    BY <1>0, <1>1 DEF Goto
<1>2. {"idle", "send", "sent", "unlock", "empty?", "removed"} \subseteq Steps
    BY DEF Steps
<1>3. ASSUME NEW b \in Boxes, Send(t, b) \/ Receive(t, b) PROVE NetTypes' /\ ClientTypes'
    <2>1. UNCHANGED <<networkVars, list, mail, posted, yields>>
        BY <1>3 DEF Send, Receive
    <2>2. /\ step' \in [Clients \cup {Worker} -> Steps] /\ step'[t] # "removed"
          /\ \A u \in Clients : u # t => step'[u] = step[u]
        BY <1>1, <1>2, <1>3 DEF Send, Receive
    <2>3. box' \in [Clients -> Boxes \cup {NULL}]
        BY <1>3 DEF Send, Receive
    <2>4. receives' \in [Clients -> 0 .. MaxReceives]
        <3>1. CASE receives' = receives
            BY <3>1
        <3>2. CASE receives[t] < MaxReceives /\ receives' = [receives EXCEPT ![t] = @ + 1]
            <4>1. receives[t] + 1 \in 0 .. MaxReceives
                BY <3>2, PostAssumption
            <4> QED BY <3>2, <4>1
        <3> QED BY <1>3, <3>1, <3>2 DEF Send, Receive
    <2> QED BY <2>1, <2>2, <2>3, <2>4 DEF networkVars
<1>4. CASE NetworkSend(t)
    <2>1. /\ step[t] = "send" /\ step' \in [Clients \cup {Worker} -> Steps] /\ step'[t] # "removed"
          /\ \A u \in Clients : u # t => step'[u] = step[u]
        BY <1>1, <1>2, <1>4 DEF NetworkSend
    <2>2. box[t] \in Boxes /\ posted[t] < MaxSends
        BY <1>0, <2>1 DEF ClientWell
    <2> DEFINE m == [from |-> t, n |-> posted[t], to |-> box[t]]
    <2>3. m \in Mails
        <3>1. posted[t] \in 0 .. MaxSends - 1
            BY <2>2, PostAssumption
        <3> QED BY <2>2, <3>1 DEF Mails
    <2>4. posted' \in [Clients -> 0 .. MaxSends]
        <3>1. posted[t] + 1 \in 0 .. MaxSends
            BY <2>2, PostAssumption
        <3> QED BY <1>4, <3>1 DEF NetworkSend
    <2>5. sends' \in Nat /\ (socket' = socket \/ socket' = Append(socket, m))
        BY <1>4 DEF NetworkSend
    <2> HIDE DEF m
    <2>6. socket' \in Seq(Mails)
        <3>1. socket \in Seq(Mails)
            OBVIOUS
        <3>2. Append(socket, m) \in Seq(Mails)
            BY <2>3, <3>1, AppendProperties
        <3> QED BY <2>5, <3>1, <3>2
    <2>7. UNCHANGED <<inHdr, inbox, sendBusy, list, box, mail, receives, yields>>
        BY <1>4 DEF NetworkSend
    <2> QED BY <2>1, <2>4, <2>5, <2>6, <2>7
<1>5. CASE SendReturn(t) \/ ReceiveReturn(t)
    <2>1. UNCHANGED <<networkVars, list, box, mail, posted, receives, yields>>
        BY <1>5 DEF SendReturn, ReceiveReturn
    <2>2. /\ step' \in [Clients \cup {Worker} -> Steps] /\ step'[t] # "removed"
          /\ \A u \in Clients : u # t => step'[u] = step[u]
        BY <1>1, <1>2, <1>5 DEF SendReturn, ReceiveReturn
    <2> QED BY <2>1, <2>2 DEF networkVars
<1>6. CASE FinishStep(t)
    BY <1>6 DEF FinishStep, postVars, networkVars, clientVars
<1>7. CASE Remove(t)
    <2>0. UNCHANGED <<networkVars, box, posted, receives, yields>> /\ step[t] = "empty?"
        BY <1>7 DEF Remove
    <2>1. CASE UNCHANGED <<list, step, mail>>
        BY <2>0, <2>1 DEF networkVars
    <2>2. CASE list[box[t]] # <<>>
        <3>1. box[t] \in Boxes
            BY <1>0, <2>0 DEF ClientWell
        <3> DEFINE items == list[box[t]]
        <3>2. /\ mail' = [mail EXCEPT ![t] = Head(items)] /\ list' = [list EXCEPT ![box[t]] = Tail(items)]
              /\ Goto(t, "empty?", "removed")
            BY <1>7, <2>2, <3>1 DEF Remove
        <3>3. items \in Seq(Mails) /\ items # <<>>
            BY <2>2, <3>1
        <3> HIDE DEF items
        <3>4. Head(items) \in Mails /\ Tail(items) \in Seq(Mails)
            BY <3>3
        <3>5. /\ mail' \in [Clients \cup {Worker} -> Mails \cup {NULL}] /\ mail'[t] \in Mails
              /\ \A u \in Clients : u # t => mail'[u] = mail[u]
            BY <1>0, <3>2, <3>4
        <3>6. list' \in [Boxes -> Seq(Mails)]
            BY <3>2, <3>4
        <3>7. /\ step' \in [Clients \cup {Worker} -> Steps]
              /\ \A u \in Clients : u # t => step'[u] = step[u]
            BY <1>1, <1>2, <3>2
        <3> QED BY <2>0, <3>5, <3>6, <3>7 DEF networkVars
    <2> QED BY <1>7, <2>1, <2>2 DEF Remove
<1> QED BY <1>3, <1>4, <1>5, <1>6, <1>7 DEF ClientStep

LEMMA WorkerTypesStep ==
    ASSUME NetTypes, ClientTypes, Well, ReceiveHeader \/ CopyInbox \/ Deliver
    PROVE  NetTypes' /\ ClientTypes'
<1> USE DEF NetTypes, ClientTypes
<1>1. ASSUME NEW from, NEW to \in Steps, Goto(Worker, from, to)
      PROVE  /\ step[Worker] = from /\ step' \in [Clients \cup {Worker} -> Steps]
             /\ \A u \in Clients : step'[u] = step[u]
    BY <1>1, PostConstants DEF Goto
<1>2. {"await", "pull", "copy", "put", "append", "release"} \subseteq Steps
    BY DEF Steps
<1>3. CASE ReceiveHeader
    <2>1. inHdr' \in BOOLEAN
          /\ UNCHANGED <<socket, inbox, sendBusy, sends, list, box, mail, posted, receives, yields>>
        BY <1>3 DEF ReceiveHeader
    <2>2. step' \in [Clients \cup {Worker} -> Steps] /\ \A u \in Clients : step'[u] = step[u]
        BY <1>1, <1>2, <1>3 DEF ReceiveHeader
    <2> QED BY <2>1, <2>2
<1>5. CASE CopyInbox
    <2>1. /\ mail' \in [Clients \cup {Worker} -> Mails \cup {NULL}]
          /\ \A u \in Clients : mail'[u] = mail[u]
        BY <1>5, PostConstants DEF CopyInbox
    <2>2. UNCHANGED <<networkVars, list, box, posted, receives, yields>>
        BY <1>5 DEF CopyInbox
    <2>3. step' \in [Clients \cup {Worker} -> Steps] /\ \A u \in Clients : step'[u] = step[u]
        BY <1>1, <1>2, <1>5 DEF CopyInbox
    <2> QED BY <2>1, <2>2, <2>3 DEF networkVars
<1>4. CASE Deliver
    <2>1. UNCHANGED <<networkVars, box, mail, posted, receives, yields>>
        BY <1>4 DEF Deliver
    <2>2. step' \in [Clients \cup {Worker} -> Steps] /\ \A u \in Clients : step'[u] = step[u]
        BY <1>1, <1>2, <1>4 DEF Deliver, AppendAndSignal
    <2>3. list' \in [Boxes -> Seq(Mails)]
        <3>1. CASE list' = list
            BY <3>1
        <3>2. CASE AppendAndSignal
            <4> DEFINE b == mail[Worker].to
                       items == Append(list[b], mail[Worker])
            <4>1. mail[Worker] \in Mails
                BY <3>2 DEF AppendAndSignal, Goto, Well, WorkerWell
            <4>2. items \in Seq(Mails)
                BY <4>1, MailBoxes
            <4>3. list' = [list EXCEPT ![b] = items]
                BY <3>2, <4>1, MailBoxes DEF AppendAndSignal
            <4> HIDE DEF items
            <4> QED BY <4>2, <4>3
        <3> QED BY <1>4, <3>1, <3>2 DEF Deliver
    <2> QED BY <2>1, <2>2, <2>3 DEF networkVars
<1> QED BY <1>3, <1>4, <1>5

LEMMA NextTypes ==
    ASSUME SynchInv', TypeOK, Well, [Next]_vars
    PROVE  TypeOK'
<1>1. KernelTypeOK' /\ SynchTypeOK'
    BY DEF SynchInv, ThreadInv, PlaceInv, LockInv
<1>2. NetTypes /\ ClientTypes
    BY DEF TypeOK, NetTypes, ClientTypes, Steps
<1>3. NetTypes' /\ ClientTypes'
    <2> USE <1>2 DEF NetTypes, ClientTypes
    <2>1. ASSUME UNCHANGED postVars PROVE NetTypes' /\ ClientTypes'
        BY <2>1 DEF postVars, networkVars, clientVars
    <2>2. ASSUME UNCHANGED <<networkVars, list, clientVars>>, yields < MaxYields, yields' = yields + 1
          PROVE  NetTypes' /\ ClientTypes'
        <3>1. yields' \in 0 .. MaxYields
            BY <2>2, PostAssumption
        <3> QED BY <2>2, <3>1 DEF networkVars, clientVars
    <2>3. CASE CheckPktAvail
        <3>1. inHdr' \in BOOLEAN /\ inbox' \in Mails /\ socket' \in Seq(Mails)
            BY <2>3 DEF CheckPktAvail
        <3> QED BY <2>3, <3>1 DEF CheckPktAvail, clientVars
    <2>4. CASE SendDone
        <3>1. sends' \in Nat
            BY <2>4 DEF SendDone
        <3> QED BY <2>4, <3>1 DEF SendDone, clientVars
    <2>5. CASE MainStep \/ PollInVain \/ UNCHANGED vars \/ (SystemStep /\ UNCHANGED postVars)
        BY <2>1, <2>5 DEF MainStep, PollInVain, vars
    <2>6. ASSUME NEW t \in Threads, YieldStep(t) PROVE NetTypes' /\ ClientTypes'
        BY <2>2, <2>6 DEF YieldStep
    <2> QED BY <2>3, <2>4, <2>5, <2>6, ClientTypesStep, WorkerTypesStep DEF Next
<1> QED BY <1>1, <1>3 DEF TypeOK, NetTypes, ClientTypes, Steps

LEMMA PostInit == Init => PostInv
<1> SUFFICES ASSUME Init PROVE PostInv
    OBVIOUS
<1>1. SynchInv
    BY RoutineInit DEF Init
<1>2. KernelTypeOK /\ SynchTypeOK
    BY <1>1 DEF SynchInv, ThreadInv, PlaceInv, LockInv
<1>3. TypeOK
    <2>1. 0 \in 0 .. MaxSends /\ 0 \in 0 .. MaxReceives /\ 0 \in 0 .. MaxYields
        BY PostAssumption
    <2>2. /\ socket \in Seq(Mails) /\ inHdr \in BOOLEAN /\ inbox \in Mails \cup {NULL}
          /\ sendBusy \in BOOLEAN /\ sends \in Nat
          /\ list \in [Boxes -> Seq(Mails)]
        <3>1. <<>> \in Seq(Mails)
            OBVIOUS
        <3>2. socket = <<>> /\ inHdr = FALSE /\ inbox = NULL /\ sendBusy = FALSE /\ sends = 0
              /\ list = [b \in Boxes |-> <<>>]
            BY DEF Init
        <3> QED BY <3>1, <3>2
    <2>3. /\ step \in [Clients \cup {Worker} -> {"idle", "send", "sent", "unlock", "empty?",
                 "removed", "await", "pull", "copy", "put", "append", "release"}]
          /\ \A t \in Clients : step[t] = "idle"
        BY PostConstants DEF Init
    <2>4. box \in [Clients -> Boxes \cup {NULL}]
        BY DEF Init
    <2>5. mail \in [Clients \cup {Worker} -> Mails \cup {NULL}]
        <3>1. mail = [t \in Clients \cup {Worker} |-> NULL] /\ NULL \in Mails \cup {NULL}
            BY DEF Init
        <3> QED BY <3>1
    <2>6. /\ posted \in [Clients -> 0 .. MaxSends] /\ receives \in [Clients -> 0 .. MaxReceives]
          /\ yields \in 0 .. MaxYields
        BY <2>1 DEF Init
    <2> QED BY <1>2, <2>2, <2>3, <2>4, <2>5, <2>6 DEF TypeOK
<1>4. Well
    BY PostConstants DEF Init, KernelInit, Well, ClientWell, WorkerWell
<1>5. PacketAnnounced /\ AnswerOwed
    <2>1. value[messageAvailable] = 0 /\ value[messageSent] = 0
        BY PostConstants, PostAssumption DEF Init, SynchInit
    <2>2. \A t \in Clients : ~ Expects(t)
        BY PostConstants DEF Init, Expects
    <2> QED BY <2>1, <2>2 DEF Init, PacketAnnounced, AnswerOwed
<1>6. MailAwaited
    BY PostConstants DEF Init, SynchInit, MailAwaited
<1>7. PacketThere /\ Copying /\ WorkerOff
    BY PostConstants DEF Init, PacketThere, Copying, WorkerOff
<1> QED BY <1>1, <1>3, <1>4, <1>5, <1>6, <1>7 DEF Init, KernelInit, PostInv

(* Where the worker is not interrupted, the copy is what comes next. *)
LEMMA OnlyCopies ==
    ASSUME PostInv, [Next]_vars, ~ Interruptible, step[Worker] = "copy"
    PROVE  CopyInbox \/ UNCHANGED vars
<1>0. /\ Executing(Worker) /\ pc[Worker] = "client" /\ currentThread = Worker
      /\ status[Worker] = "RUNNING"
      /\ Worker # Main /\ Worker \notin Clients
    BY PostConstants DEF PostInv, Copying, Executing
<1>8. ~ Slices \/ level = "Off"
    BY <1>0 DEF Interruptible, PostInv, WorkerOff, OffFor
<1>9. ~ Window
    BY <1>0, <1>8 DEF Window, InterruptWindow, Sleeping
<1>1. ~ ReceiveHeader /\ ~ Deliver
    BY DEF ReceiveHeader, Deliver, AppendAndSignal, Goto
<1>2. ~ CheckPktAvail /\ ~ PollInVain /\ ~ SendDone
    BY <1>9 DEF CheckPktAvail, PollInVain, SendDone, HandlerV
<1>3. ASSUME NEW t, t # Worker
      PROVE  /\ ~ Executing(t)
             /\ \A u : ~ Fork(t, u)
             /\ ~ Finish(t) /\ ~ Yield(t)
             /\ \A q : ~ P(t, q) /\ ~ Acquire(t, q) /\ ~ Release(t, q)
    BY <1>0, <1>3 DEF Executing, Fork, Finish, Yield, P, Acquire, Release
<1>4. ~ MainStep
    BY <1>0, <1>3 DEF MainStep
<1>5. ASSUME NEW t \in Clients PROVE ~ ClientStep(t)
    <2>1. t # Worker
        BY <1>0
    <2> QED BY <1>3, <2>1
        DEF ClientStep, Send, Receive, NetworkSend, SendReturn, Remove, ReceiveReturn, FinishStep
<1>6. ASSUME NEW t \in Threads PROVE ~ YieldStep(t)
    BY <1>0, <1>3, <1>8 DEF YieldStep
<1>7. ~ SystemStep
    <2>1. ~ Sleeping /\ \A t : ~ Resuming(t)
        BY <1>0 DEF Sleeping, Resuming
    <2> QED BY <2>1 DEF SystemStep, KernelStep, Dispatch, ThreadRoot, YieldReturn, ResumeP, ResumeWait
<1> QED BY <1>1, <1>2, <1>4, <1>5, <1>6, <1>7 DEF Next

LEMMA ClientLeavesWorker ==
    ASSUME PostInv, NEW t \in Clients, ClientStep(t)
    PROVE  /\ UNCHANGED <<inHdr, inbox>>
           /\ step'[Worker] = step[Worker] /\ mail'[Worker] = mail[Worker]
<1>0. /\ step \in [Clients \cup {Worker} -> Steps] /\ Worker \notin Clients
      /\ mail \in [Clients \cup {Worker} -> Mails \cup {NULL}]
    BY PostConstants DEF PostInv, TypeOK, Steps
<1>1. CASE Remove(t)
    BY <1>0, <1>1 DEF Remove, Goto, networkVars
<1>2. CASE ~ Remove(t)
    BY <1>0, <1>2
    DEF ClientStep, Send, Receive, NetworkSend, SendReturn, ReceiveReturn, FinishStep,
        Goto, networkVars, clientVars, postVars
<1> QED BY <1>1, <1>2

(* The worker owns its mailbox's lock when it first comes back from there. *)
LEMMA OffStep ==
    ASSUME PostInv, [Next]_vars
    PROVE  WorkerOff'
<1>0. step \in [Clients \cup {Worker} -> Steps] /\ Worker \notin Clients /\ Worker \in Threads
    BY PostConstants DEF PostInv, TypeOK, Steps
<1>1. OffFor(Worker) => OffFor(Worker)'
    BY <1>0, PostIsRoutine, OffForGood DEF PostInv
<1>2. ASSUME UNCHANGED mail \/ mail'[Worker] = mail[Worker],
             \/ step'[Worker] = step[Worker]
             \/ step[Worker] \in {"await", "pull"}
             \/ step'[Worker] \in {"put", "append", "release"}
      PROVE  WorkerOff'
    BY <1>1, <1>2 DEF PostInv, WorkerOff
<1>3. ASSUME NEW t \in Clients, ClientStep(t) PROVE WorkerOff'
    BY <1>2, <1>3, ClientLeavesWorker
<1>4. CASE CopyInbox
    BY <1>0, <1>4 DEF CopyInbox, Goto, WorkerOff
<1>5. CASE ReceiveHeader
    BY <1>0, <1>2, <1>5 DEF ReceiveHeader, Goto
<1>6. CASE Deliver
    <2>1. CASE step[Worker] = "release"
        <3>1. /\ Executing(Worker)
              /\ UNCHANGED <<currentThread, level, oldLevel, pc>>
            BY <1>6, <2>1 DEF Deliver, AppendAndSignal, Goto, Release
        <3>2. /\ lockOwner[lock(mail[Worker].to)] = Worker
              /\ lock(mail[Worker].to) \in Locks
            BY <2>1, PostConstants, MailBoxes DEF PostInv, Well, WorkerWell
        <3>3. level = "Off"
            BY <1>0, <3>1, <3>2 DEF PostInv, SynchInv, ThreadInv, Uninterrupted, Executing
        <3> QED BY <3>1, <3>3 DEF WorkerOff, OffFor, Executing
    <2>2. CASE step[Worker] # "release"
        BY <1>0, <1>2, <1>6, <2>2 DEF Deliver, AppendAndSignal, Goto
    <2> QED BY <2>1, <2>2
<1>7. CASE MainStep \/ PollInVain \/ SendDone \/ CheckPktAvail \/ UNCHANGED vars
           \/ (SystemStep /\ UNCHANGED postVars) \/ \E t \in Threads : YieldStep(t)
    BY <1>2, <1>7 DEF MainStep, PollInVain, SendDone, CheckPktAvail, YieldStep, vars, postVars, clientVars
<1> QED BY <1>3, <1>4, <1>5, <1>6, <1>7 DEF Next

LEMMA BufferStep ==
    ASSUME PostInv, [Next]_vars
    PROVE  PacketThere' /\ Copying'
<1>0. step \in [Clients \cup {Worker} -> Steps] /\ Worker \notin Clients
    BY PostConstants DEF PostInv, TypeOK, Steps
<1>1. CASE ReceiveHeader
    <2>1. Executing(Worker) /\ ~ inHdr' /\ inbox' = inbox
          /\ step'[Worker] = IF inHdr THEN "copy" ELSE "put"
        BY <1>0, <1>1 DEF ReceiveHeader, Goto
    <2>2. PacketThere'
        BY <2>1 DEF PostInv, PacketThere
    <2>3. inHdr => Executing(Worker)'
        BY <1>1, <2>1 DEF ReceiveHeader, Executing, kernelVars
    <2> QED BY <2>1, <2>2, <2>3 DEF Copying
<1>2. CASE CheckPktAvail
    <2>1. inbox' \in Mails
        BY <1>2, HeadTailProperties DEF CheckPktAvail, PostInv, TypeOK
    <2>2. step' = step /\ mail' = mail
        BY <1>2 DEF CheckPktAvail, clientVars
    <2>3. Interruptible \/ step[Worker] # "copy"
        <3>1. inHdr' # inHdr /\ step'[Worker] = step[Worker]
            BY <1>2, <2>2 DEF CheckPktAvail
        <3>2. ASSUME ~ Interruptible, step[Worker] = "copy" PROVE FALSE
            <4>1. CopyInbox \/ UNCHANGED vars
                BY <3>2, OnlyCopies
            <4> QED BY <3>1, <4>1 DEF CopyInbox, networkVars, vars, postVars
        <3> QED BY <3>2
    <2> QED BY <2>1, <2>2, <2>3 DEF PacketThere, Copying, Interruptible
<1>3. CASE UNCHANGED vars
    BY <1>3 DEF vars, postVars, kernelVars, networkVars, clientVars,
                PostInv, PacketThere, Copying, Executing, Interruptible
<1>4. CASE ~ ReceiveHeader /\ ~ CheckPktAvail /\ Next
    <2>1. /\ UNCHANGED <<inHdr, inbox>>
          /\ \/ step'[Worker] = step[Worker] /\ mail'[Worker] = mail[Worker]
             \/ step'[Worker] \in {"pull", "put", "append", "release", "await"}
        <3>1. ASSUME NEW t \in Clients, ClientStep(t)
              PROVE  /\ UNCHANGED <<inHdr, inbox>>
                     /\ step'[Worker] = step[Worker] /\ mail'[Worker] = mail[Worker]
            BY <3>1, ClientLeavesWorker
        <3>2. CASE Deliver \/ CopyInbox
            BY <1>0, <3>2 DEF Deliver, CopyInbox, AppendAndSignal, Goto, networkVars
        <3>3. CASE MainStep \/ PollInVain \/ SendDone \/ (SystemStep /\ UNCHANGED postVars)
                   \/ \E t \in Threads : YieldStep(t)
            BY <3>3 DEF MainStep, PollInVain, SendDone, YieldStep, vars, postVars, networkVars, clientVars
        <3> QED BY <1>4, <3>1, <3>2, <3>3 DEF Next
    <2>2. step'[Worker] = "copy" => step[Worker] = "copy" /\ mail'[Worker] = mail[Worker]
        BY <2>1
    <2>3. PacketThere'
        BY <2>1, <2>2 DEF PostInv, PacketThere
    <2>4. ASSUME ~ Interruptible', step'[Worker] = "copy" PROVE Executing(Worker)'
        <3>0. ~ Interruptible
            BY <2>2, <2>4 DEF Interruptible
        <3>1. CopyInbox \/ UNCHANGED vars
            BY <2>2, <2>4, <3>0, OnlyCopies
        <3>2. UNCHANGED vars
            BY <1>0, <2>4, <3>1 DEF CopyInbox, Goto
        <3> QED BY <2>2, <2>4, <3>0, <3>2 DEF vars, kernelVars, PostInv, Copying, Executing
    <2> QED BY <2>3, <2>4 DEF Copying
<1> QED BY <1>1, <1>2, <1>3, <1>4

LEMMA PostStep == PostInv /\ [Next]_vars => PostInv'
<1> SUFFICES ASSUME PostInv, [Next]_vars PROVE PostInv'
    OBVIOUS
<1>1. SynchInv'
    BY PostIsRoutine, RoutineStepInv DEF PostInv
<1>2. TypeOK'
    BY <1>1, NextTypes DEF PostInv
<1> QED BY <1>1, <1>2, NextPost, BufferStep, OffStep DEF PostInv

LEMMA PostInvariant == Spec => []PostInv
BY PostInit, PostStep, PTL DEF Spec

-----------------------------------------------------------------------------
(* The variables of the post office and of the kernel keep their types; what *)
(* a receiver takes out of its mailbox is a mail.                            *)
THEOREM PostTypes == Spec => []TypeOK
<1>1. PostInv => TypeOK
    BY DEF PostInv
<1> QED BY <1>1, PostInvariant, PTL

(* The semaphore messageAvailable counts the device's buffer exactly: the     *)
(* worker never pulls from an empty one, and no packet stays there unnoticed. *)
THEOREM PacketsAreAnnounced == Spec => []PacketAnnounced
<1>1. PostInv => PacketAnnounced
    BY DEF PostInv
<1> QED BY <1>1, PostInvariant, PTL

(* However many clients send, whether or not packets are lost, the network    *)
(* has one request at a time and its answer is for the sender that waits.     *)
THEOREM AnswersAreTheSenders == Spec => []SentIsMine
<1>1. ASSUME PostInv PROVE SentIsMine
    <2>1. sends \in Nat /\ value[messageSent] \in Nat
        BY <1>1, PostConstants DEF PostInv, TypeOK, SynchTypeOK
    <2>2. \A t \in Clients : Expects(t) => lockOwner[sendLock] = t /\ step[t] \in {"sent", "unlock"}
        BY DEF Expects
    <2>3. sends + value[messageSent] = IF \E t \in Clients : Expects(t) THEN 1 ELSE 0
        BY <1>1 DEF PostInv, AnswerOwed
    <2>4. sends + value[messageSent] <= 1
        BY <2>1, <2>3
    <2>5. ASSUME sends + value[messageSent] = 1 PROVE \E t \in Clients : Expects(t)
        BY <2>3, <2>5
    <2> QED BY <2>2, <2>4, <2>5 DEF SentIsMine
<1> QED BY <1>1, PostInvariant, PTL

(* No mail lies in a mailbox whose receivers all sleep, for every number of   *)
(* receivers, of mailboxes and of mails: Signal may be lost on a thread that  *)
(* has been woken and finds its mail taken, never on one that still sleeps.   *)
THEOREM ReceiversDontSleepOnMail == Spec => []NoSleepingReceiver
<1>1. ASSUME PostInv PROVE NoSleepingReceiver
    <2>1. ASSUME NEW b \in Boxes
          PROVE  Lookers(b) = {t \in Clients :
                    /\ step[t] = "empty?" /\ box[t] = b
                    /\ \A i \in DOMAIN queue[listEmpty(b)] : queue[listEmpty(b)][i] # t}
        BY DEF Lookers, Looking, Range
    <2> QED BY <1>1, <2>1 DEF PostInv, MailAwaited, NoSleepingReceiver
<1> QED BY <1>1, PostInvariant, PTL

(* No ASSERT on the way of a mail fails: Wait's, since the caller owns the    *)
(* lock; Network::Send's, since the device is not busy; and PostalDelivery's, *)
(* since there is a packet when it takes one out.                             *)
THEOREM PostOfficeNeverAborts == Spec => [](machine # "aborted")
<1>1. PostInv => machine # "aborted"
    BY DEF PostInv
<1> QED BY <1>1, PostInvariant, PTL

-----------------------------------------------------------------------------
(* The mail of a mailbox. Induction over its number is the existence of a *)
(* least counterexample.                                                  *)
LEMMA LeastNumber ==
    ASSUME NEW T \in SUBSET Nat, T # {}
    PROVE  \E m \in T : \A k \in T : m <= k
<1>1. PICK m \in T : \A k \in T : ~ (<<k, m>> \in OpToRel(<, Nat))
    BY NatLessThanWellFounded, WFMin
<1>2. ASSUME NEW k \in T PROVE m <= k
    <2>1. k \in Nat /\ m \in Nat
        OBVIOUS
    <2>2. ~ (k < m)
        BY <1>1, <2>1 DEF OpToRel
    <2> QED BY <2>1, <2>2
<1> QED BY <1>2

LEMMA UpTo ==
    ASSUME NEW n \in Nat, NEW S, 0 \in S, \A k \in 0 .. n - 1 : k \in S => k + 1 \in S
    PROVE  0 .. n \subseteq S
<1> DEFINE T == (0 .. n) \ S
<1> SUFFICES ASSUME T # {} PROVE FALSE
    OBVIOUS
<1>1. PICK m \in T : \A k \in T : m <= k
    <2>1. T \in SUBSET Nat
        OBVIOUS
    <2> HIDE DEF T
    <2> QED BY <2>1, LeastNumber
<1>2. m - 1 \in 0 .. n - 1 /\ (m - 1) + 1 = m
    BY <1>1
<1>3. m - 1 \in S
    BY <1>1, <1>2
<1> QED BY <1>1, <1>2, <1>3

(* The values of the recursion in AddressedTo: its[n] is the mail for b among *)
(* the first n packets.                                                       *)
Its(b, packets, its) ==
    /\ its \in [0 .. Len(packets) -> Seq(Mails)]
    /\ its[0] = <<>>
    /\ \A n \in 1 .. Len(packets) :
          its[n] = IF packets[n].to = b THEN Append(its[n - 1], packets[n]) ELSE its[n - 1]

LEMMA AddressedRecursion ==
    ASSUME NEW packets \in Seq(Mails), NEW b
    PROVE  \E its : Its(b, packets, its) /\ AddressedTo(b, packets) = its[Len(packets)]
<1> DEFINE N == Len(packets)
           Made(n, f) == f = [k \in 0 .. n |->
               IF k = 0 THEN <<>>
               ELSE IF packets[k].to = b THEN Append(f[k - 1], packets[k]) ELSE f[k - 1]]
           S == {n \in 0 .. N : \E f : Made(n, f)}
<1>0. N \in Nat /\ \A k \in 1 .. N : packets[k] \in Mails
    BY LenProperties
<1> HIDE DEF N
<1>1. 0 \in S
    <2>1. Made(0, [k \in 0 .. 0 |-> <<>>])
        OBVIOUS
    <2> HIDE DEF Made
    <2> QED BY <1>0, <2>1
<1>2. ASSUME NEW n \in 0 .. N - 1, n \in S PROVE n + 1 \in S
    <2>1. PICK f : Made(n, f)
        BY <1>2
    <2> DEFINE next == IF packets[n + 1].to = b THEN Append(f[n], packets[n + 1]) ELSE f[n]
               g == [k \in 0 .. n + 1 |-> IF k = n + 1 THEN next ELSE f[k]]
    <2>2. ASSUME NEW k \in 0 .. n + 1
          PROVE  g[k] = IF k = 0 THEN <<>>
                        ELSE IF packets[k].to = b THEN Append(g[k - 1], packets[k]) ELSE g[k - 1]
        <3>1. CASE k = 0
            BY <1>0, <2>1, <3>1
        <3>2. CASE k = n + 1
            BY <1>0, <3>2
        <3>3. CASE k \in 1 .. n
            <4>1. k - 1 \in 0 .. n /\ k \in 0 .. n /\ k # 0 /\ k # n + 1 /\ k - 1 # n + 1
                BY <1>0, <3>3
            <4>2. f[k] = IF packets[k].to = b THEN Append(f[k - 1], packets[k]) ELSE f[k - 1]
                BY <2>1, <4>1
            <4>3. g[k] = f[k] /\ g[k - 1] = f[k - 1]
                BY <1>0, <4>1
            <4> HIDE DEF g, Made
            <4> QED BY <4>1, <4>2, <4>3
        <3> QED BY <1>0, <3>1, <3>2, <3>3
    <2>3. Made(n + 1, g) /\ n + 1 \in 0 .. N
        BY <1>0, <2>2
    <2> HIDE DEF Made, g
    <2> QED BY <2>3
<1>3. \E f : Made(N, f)
    <2> HIDE DEF Made
    <2>1. 0 .. N \subseteq S
        <3> HIDE DEF S
        <3> QED BY <1>0, <1>1, <1>2, UpTo
    <2> QED BY <1>0, <2>1
<1> DEFINE its == CHOOSE f : Made(N, f)
<1>4. Made(N, its)
    BY <1>3
<1>5. AddressedTo(b, packets) = its[N]
    BY DEF AddressedTo, N
<1> HIDE DEF its
<1>6. /\ its[0] = <<>>
      /\ \A n \in 1 .. N :
            its[n] = IF packets[n].to = b THEN Append(its[n - 1], packets[n]) ELSE its[n - 1]
    <2>1. 0 \in 0 .. N /\ \A n \in 1 .. N : n \in 0 .. N /\ n # 0
        BY <1>0
    <2>2. \A n \in 0 .. N : its[n] = IF n = 0 THEN <<>>
              ELSE IF packets[n].to = b THEN Append(its[n - 1], packets[n]) ELSE its[n - 1]
        BY <1>4
    <2> HIDE DEF Made
    <2> QED BY <2>1, <2>2
<1>7. \A n \in 0 .. N : its[n] \in Seq(Mails)
    <2> DEFINE T == {n \in 0 .. N : its[n] \in Seq(Mails)}
    <2>1. 0 \in T
        <3>1. 0 \in 0 .. N /\ <<>> \in Seq(Mails)
            BY <1>0
        <3> QED BY <1>6, <3>1
    <2>2. ASSUME NEW n \in 0 .. N - 1, n \in T PROVE n + 1 \in T
        <3>1. n + 1 \in 1 .. N /\ n + 1 \in 0 .. N /\ (n + 1) - 1 = n
            BY <1>0
        <3>2. its[n + 1] = IF packets[n + 1].to = b THEN Append(its[n], packets[n + 1]) ELSE its[n]
            BY <1>6, <3>1
        <3>3. packets[n + 1] \in Mails /\ its[n] \in Seq(Mails)
            BY <1>0, <2>2, <3>1
        <3>4. its[n + 1] \in Seq(Mails)
            <4> HIDE DEF Made
            <4> QED BY <3>2, <3>3
        <3> QED BY <3>1, <3>4
    <2> HIDE DEF T
    <2>3. 0 .. N \subseteq T
        BY <1>0, <2>1, <2>2, UpTo
    <2> QED BY <2>3 DEF T
<1>8. Its(b, packets, its)
    <2>1. DOMAIN its = 0 .. N /\ its = [k \in 0 .. N |-> its[k]]
        BY <1>4
    <2> HIDE DEF Made
    <2> QED BY <1>7, <1>6, <2>1 DEF Its, N
<1> QED BY <1>5, <1>8 DEF N

LEMMA AddressedType ==
    \A packets \in Seq(Mails) : \A b : AddressedTo(b, packets) \in Seq(Mails)
<1> SUFFICES ASSUME NEW packets \in Seq(Mails), NEW b PROVE AddressedTo(b, packets) \in Seq(Mails)
    OBVIOUS
<1>1. Len(packets) \in 0 .. Len(packets)
    BY LenProperties
<1> QED BY <1>1, AddressedRecursion DEF Its

(* Packets that stand behind others are added to what these give. *)
Behind(d, s, r) ==
    d \in Nat /\ d + Len(s) <= Len(r) /\ \A k \in 1 .. Len(s) : r[d + k] = s[k]
Adds(d, s, f, g) == g[d + Len(s)] = g[d] \o f[Len(s)]

LEMMA ItsShifted ==
    ASSUME NEW b, NEW s \in Seq(Mails), NEW r \in Seq(Mails), NEW f, NEW g, Its(b, s, f), Its(b, r, g),
           NEW d, Behind(d, s, r)
    PROVE  Adds(d, s, f, g)
<1> DEFINE N == Len(s)
           S == {n \in 0 .. N : g[d + n] = g[d] \o f[n]}
<1>0. N \in Nat /\ Len(r) \in Nat /\ d \in 0 .. Len(r) /\ d + N <= Len(r) /\ d \in Nat
    BY LenProperties DEF Behind
<1>1. /\ g[d] \in Seq(Mails) /\ f[0] = <<>> /\ \A n \in 0 .. N : f[n] \in Seq(Mails)
      /\ \A n \in 1 .. N : s[n] \in Mails
    BY <1>0, LenProperties DEF Its
<1>2. \A n \in 1 .. N : /\ f[n] = IF s[n].to = b THEN Append(f[n - 1], s[n]) ELSE f[n - 1]
                        /\ g[d + n] = IF s[n].to = b THEN Append(g[d + n - 1], s[n]) ELSE g[d + n - 1]
    <2> TAKE n \in 1 .. N
    <2>1. d + n \in 1 .. Len(r) /\ r[d + n] = s[n]
        BY <1>0 DEF Behind
    <2> QED BY <1>0, <2>1 DEF Its
<1> HIDE DEF N
<1>3. 0 \in S
    <2>1. 0 \in 0 .. N /\ d + 0 = d
        BY <1>0
    <2>2. g[d] \o f[0] = g[d]
        BY <1>1, ConcatEmptySeq
    <2> QED BY <2>1, <2>2
<1>4. ASSUME NEW n \in 0 .. N - 1, n \in S PROVE n + 1 \in S
    <2>1. n + 1 \in 1 .. N /\ (n + 1) - 1 = n /\ d + (n + 1) - 1 = d + n /\ n \in 0 .. N
        BY <1>0
    <2>2. /\ f[n + 1] = IF s[n + 1].to = b THEN Append(f[n], s[n + 1]) ELSE f[n]
          /\ g[d + (n + 1)] = IF s[n + 1].to = b THEN Append(g[d] \o f[n], s[n + 1]) ELSE g[d] \o f[n]
        BY <1>2, <1>4, <2>1
    <2>3. Append(g[d] \o f[n], s[n + 1]) = g[d] \o Append(f[n], s[n + 1])
        <3> DEFINE p == g[d]
                   q == f[n]
                   m == s[n + 1]
        <3>1. p \in Seq(Mails) /\ q \in Seq(Mails) /\ m \in Mails /\ <<m>> \in Seq(Mails)
            BY <1>1, <2>1
        <3> HIDE DEF p, q, m
        <3>2. p \o q \in Seq(Mails) /\ Append(q, m) = q \o <<m>>
            BY <3>1, ConcatProperties, AppendIsConcat
        <3>3. Append(p \o q, m) = (p \o q) \o <<m>>
            BY <3>1, <3>2, AppendIsConcat
        <3>4. (p \o q) \o <<m>> = p \o (q \o <<m>>)
            BY <3>1, ConcatAssociative
        <3> QED BY <3>2, <3>3, <3>4 DEF p, q, m
    <2>4. g[d + (n + 1)] = g[d] \o f[n + 1]
        BY <2>2, <2>3
    <2>5. n + 1 \in 0 .. N
        BY <1>0, <2>1
    <2> QED BY <2>4, <2>5
<1> HIDE DEF S
<1>5. 0 .. N \subseteq S
    BY <1>0, <1>3, <1>4, UpTo
<1>6. N \in S
    BY <1>0, <1>5
<1>7. g[d + N] = g[d] \o f[N]
    BY <1>6 DEF S
<1> QED BY <1>7 DEF Adds, N

LEMMA AddressedConcat ==
    ASSUME NEW b, NEW s \in Seq(Mails), NEW t \in Seq(Mails)
    PROVE  AddressedTo(b, s \o t) = AddressedTo(b, s) \o AddressedTo(b, t)
<1> DEFINE r == s \o t
<1>1. /\ r \in Seq(Mails) /\ Len(r) = Len(s) + Len(t) /\ Len(s) \in Nat /\ Len(t) \in Nat
      /\ \A k \in 1 .. Len(s) + Len(t) : r[k] = IF k <= Len(s) THEN s[k] ELSE t[k - Len(s)]
    BY ConcatProperties, LenProperties
<1> DEFINE none == 0
           first == Len(s)
<1>2. Behind(none, s, r) /\ none + Len(s) = first
    BY <1>1 DEF Behind
<1>3. Behind(first, t, r) /\ first + Len(t) = Len(r)
    <2> HIDE DEF r
    <2>1. ASSUME NEW k \in 1 .. Len(t) PROVE r[Len(s) + k] = t[k]
        <3>1. Len(s) + k \in 1 .. Len(s) + Len(t) /\ ~(Len(s) + k <= Len(s)) /\ (Len(s) + k) - Len(s) = k
            BY <1>1
        <3> QED BY <1>1, <3>1
    <2> QED BY <1>1, <2>1 DEF Behind
<1>4. PICK f : Its(b, s, f) /\ AddressedTo(b, s) = f[first]
    BY AddressedRecursion
<1>5. PICK g : Its(b, t, g) /\ AddressedTo(b, t) = g[Len(t)]
    BY AddressedRecursion
<1> HIDE DEF r
<1>6. PICK h : Its(b, r, h) /\ AddressedTo(b, r) = h[Len(r)]
    BY <1>1, AddressedRecursion
<1>7. h[none] = <<>> /\ f[first] \in Seq(Mails)
    <2>1. Len(s) \in 0 .. Len(s)
        BY <1>1
    <2>2. f[Len(s)] \in Seq(Mails)
        BY <1>4, <2>1 DEF Its
    <2>3. h[0] = <<>>
        BY <1>6 DEF Its
    <2> QED BY <2>2, <2>3
<1> HIDE DEF none, first
<1>8. h[none + Len(s)] = h[none] \o f[Len(s)]
    <2>1. Adds(none, s, f, h)
        BY <1>1, <1>2, <1>4, <1>6, ItsShifted
    <2> QED BY <2>1 DEF Adds
<1>9. h[first + Len(t)] = h[first] \o g[Len(t)]
    <2>1. Adds(first, t, g, h)
        BY <1>1, <1>3, <1>5, <1>6, ItsShifted
    <2> QED BY <2>1 DEF Adds
<1>10. h[first] = f[first]
    BY <1>2, <1>7, <1>8, ConcatEmptySeq DEF first
<1> QED BY <1>3, <1>4, <1>5, <1>6, <1>9, <1>10 DEF r

LEMMA AddressedOne ==
    ASSUME NEW b
    PROVE  /\ AddressedTo(b, <<>>) = <<>>
           /\ \A m \in Mails : AddressedTo(b, <<m>>) = IF m.to = b THEN <<m>> ELSE <<>>
<1>1. AddressedTo(b, <<>>) = <<>>
    <2> DEFINE s == <<>>
    <2>1. s \in Seq(Mails) /\ Len(s) = 0
        OBVIOUS
    <2> HIDE DEF s
    <2>2. PICK f : Its(b, s, f) /\ AddressedTo(b, s) = f[0]
        BY <2>1, AddressedRecursion
    <2> QED BY <2>2 DEF Its, s
<1>2. ASSUME NEW m \in Mails PROVE AddressedTo(b, <<m>>) = IF m.to = b THEN <<m>> ELSE <<>>
    <2> DEFINE s == <<m>>
    <2>1. s \in Seq(Mails) /\ Len(s) = 1 /\ s[1] = m /\ Append(<<>>, m) = s
        OBVIOUS
    <2> HIDE DEF s
    <2>2. PICK f : Its(b, s, f) /\ AddressedTo(b, s) = f[1]
        BY <2>1, AddressedRecursion
    <2>3. f[1] = IF m.to = b THEN Append(<<>>, m) ELSE <<>>
        BY <2>1, <2>2 DEF Its
    <2> QED BY <2>1, <2>2, <2>3 DEF s
<1> QED BY <1>1, <1>2

-----------------------------------------------------------------------------
(* The refinement: what a step does to the channels. *)
Channel(b) == list[b] \o AddressedTo(b, OnTheWay)

LEMMA WayTypes ==
    ASSUME PostInv
    PROVE  /\ Carried \in Seq(Mails) /\ Buffered \in Seq(Mails) /\ socket \in Seq(Mails)
           /\ OnTheWay \in Seq(Mails) /\ list \in [Boxes -> Seq(Mails)]
           /\ \A b \in Boxes : list[b] \in Seq(Mails)
<1>1. step[Worker] \in {"put", "append"} => mail[Worker] \in Mails
    BY DEF PostInv, Well, WorkerWell
<1>2. Carried \in Seq(Mails) /\ Buffered \in Seq(Mails) /\ socket \in Seq(Mails)
    BY <1>1 DEF PostInv, PacketThere, TypeOK, Carried, Buffered
<1>3. OnTheWay \in Seq(Mails)
    BY <1>2, ConcatProperties DEF OnTheWay
<1> QED BY <1>2, <1>3 DEF PostInv, TypeOK

LEMMA SameChannels ==
    ASSUME UNCHANGED <<posted, list>>, OnTheWay' = OnTheWay,
           \A t \in Clients : mail'[t] = mail[t]
    PROVE  UNCHANGED Abstract!vars
<1>1. Channels' = Channels
    BY DEF Channels
<1> QED BY <1>1 DEF Abstract!vars

LEMMA OneChannel ==
    ASSUME NEW b \in Boxes, NEW new, Channel(b)' = new,
           \A d \in Boxes : d # b => Channel(d)' = Channel(d)
    PROVE  Channels' = [Channels EXCEPT ![b] = new]
BY DEF Channels, Channel

LEMMA HeadOfConcat ==
    ASSUME NEW p \in Seq(Mails), NEW q \in Seq(Mails), p # <<>>
    PROVE  p \o q # <<>> /\ Head(p \o q) = Head(p) /\ Tail(p \o q) = Tail(p) \o q
<1> DEFINE r == p \o q
<1>1. /\ r \in Seq(Mails) /\ Len(r) = Len(p) + Len(q) /\ Len(p) \in Nat \ {0} /\ Len(q) \in Nat
      /\ \A k \in 1 .. Len(r) : r[k] = IF k <= Len(p) THEN p[k] ELSE q[k - Len(p)]
    BY ConcatProperties, LenProperties, EmptySeq
<1> HIDE DEF r
<1>2. r # <<>> /\ r[1] = p[1]
    BY <1>1
<1>3. Head(r) = Head(p)
    BY <1>2
<1>4. /\ Tail(r) \in Seq(Mails) /\ Len(Tail(r)) = Len(r) - 1
      /\ \A k \in 1 .. Len(r) - 1 : Tail(r)[k] = r[k + 1]
    BY <1>1, <1>2, HeadTailProperties
<1>5. /\ Tail(p) \in Seq(Mails) /\ Len(Tail(p)) = Len(p) - 1
      /\ \A k \in 1 .. Len(p) - 1 : Tail(p)[k] = p[k + 1]
    BY HeadTailProperties
<1> DEFINE s == Tail(p) \o q
<1>6. /\ s \in Seq(Mails) /\ Len(s) = Len(p) - 1 + Len(q)
      /\ \A k \in 1 .. Len(p) - 1 + Len(q) :
            s[k] = IF k <= Len(p) - 1 THEN Tail(p)[k] ELSE q[k - (Len(p) - 1)]
    BY <1>5, ConcatProperties
<1> HIDE DEF s
<1>7. ASSUME NEW k \in 1 .. Len(r) - 1 PROVE Tail(r)[k] = s[k]
    <2>1. k + 1 \in 1 .. Len(r) /\ k \in 1 .. Len(p) - 1 + Len(q) /\ (k + 1) - Len(p) = k - (Len(p) - 1)
        BY <1>1
    <2>2. Tail(r)[k] = r[k + 1]
        BY <1>4
    <2>3. CASE k <= Len(p) - 1
        <3>1. k \in 1 .. Len(p) - 1 /\ k + 1 <= Len(p)
            BY <1>1, <2>3
        <3>2. r[k + 1] = p[k + 1] /\ s[k] = Tail(p)[k]
            BY <1>1, <1>6, <2>1, <2>3, <3>1
        <3> QED BY <1>5, <2>2, <3>1, <3>2
    <2>4. CASE ~(k <= Len(p) - 1)
        <3>1. ~(k + 1 <= Len(p))
            BY <1>1, <2>4
        <3>2. r[k + 1] = q[(k + 1) - Len(p)] /\ s[k] = q[k - (Len(p) - 1)]
            BY <1>1, <1>6, <2>1, <2>4, <3>1
        <3> QED BY <2>1, <2>2, <3>2
    <2> QED BY <2>3, <2>4
<1>8. Tail(r) = s
    BY <1>1, <1>4, <1>6, <1>7, SeqEqual
<1> QED BY <1>2, <1>3, <1>8 DEF r, s

(* A packet the network takes is the last one on the way. *)
LEMMA PostsMail ==
    ASSUME PostInv, NEW t \in Clients, NetworkSend(t)
    PROVE  \E b \in Boxes : Abstract!Post(t, b)
<1>0. PICK b \in Boxes : b = box[t]
    BY DEF NetworkSend, Goto, PostInv, Well, ClientWell
<1> DEFINE m == [from |-> t, n |-> posted[t], to |-> b]
<1>1. /\ step[t] = "send" /\ step' = [step EXCEPT ![t] = "sent"] /\ ~ sendBusy
      /\ ClientWell(t) /\ t # Worker
    BY PostConstants DEF NetworkSend, Goto, PostInv, Well
<1>2. m \in Mails
    <2>1. posted[t] \in 0 .. MaxSends /\ posted[t] < MaxSends
        BY <1>1 DEF ClientWell, PostInv, TypeOK
    <2> QED BY <2>1, PostAssumption DEF Mails
<1>3. /\ posted' = [posted EXCEPT ![t] = @ + 1] /\ UNCHANGED <<inHdr, inbox, list, mail>>
      /\ socket' = Append(socket, m) \/ UNCHANGED socket
    BY <1>0, <1>1 DEF NetworkSend
<1>4. Carried' = Carried /\ Buffered' = Buffered
    BY <1>1, <1>3 DEF Carried, Buffered, PostInv, TypeOK
<1>5. [u \in Clients |-> mail[u]]' = [u \in Clients |-> mail[u]]
    BY <1>3
<1> HIDE DEF m
<1>6. CASE UNCHANGED socket
    <2>1. Channels' = Channels
        BY <1>3, <1>4, <1>6 DEF Channels, OnTheWay
    <2> QED BY <1>2, <1>3, <1>5, <2>1 DEF Abstract!Post
<1>7. CASE socket' = Append(socket, m)
    <2>1. OnTheWay' = OnTheWay \o <<m>> /\ <<m>> \in Seq(Mails)
        <3> DEFINE before == Carried \o Buffered
        <3>1. before \in Seq(Mails) /\ socket \in Seq(Mails) /\ <<m>> \in Seq(Mails)
            BY <1>2, WayTypes, ConcatProperties
        <3>2. OnTheWay' = before \o (socket \o <<m>>)
            BY <1>2, <1>4, <1>7, <3>1, AppendIsConcat DEF OnTheWay
        <3>3. OnTheWay = before \o socket
            BY DEF OnTheWay
        <3> HIDE DEF before
        <3> QED BY <3>1, <3>2, <3>3, ConcatAssociative
    <2>2. \A d \in Boxes : Channel(d)' = list[d] \o (AddressedTo(d, OnTheWay) \o (IF m.to = d THEN <<m>> ELSE <<>>))
        <3> TAKE d \in Boxes
        <3>1. AddressedTo(d, OnTheWay \o <<m>>) = AddressedTo(d, OnTheWay) \o AddressedTo(d, <<m>>)
            BY <2>1, WayTypes, AddressedConcat
        <3>2. AddressedTo(d, <<m>>) = IF m.to = d THEN <<m>> ELSE <<>>
            BY <1>2, AddressedOne
        <3>3. Channel(d)' = list'[d] \o AddressedTo(d, OnTheWay')
            BY DEF Channel
        <3> QED BY <1>3, <2>1, <3>1, <3>2, <3>3
    <2>3. ASSUME NEW d \in Boxes, d # b PROVE Channel(d)' = Channel(d)
        <3>1. m.to # d
            BY <2>3 DEF m
        <3> QED BY <2>2, <3>1, WayTypes, AddressedType, ConcatEmptySeq DEF Channel
    <2>4. Channel(b)' = Append(Channel(b), m)
        <3> DEFINE p == list[b]
                   q == AddressedTo(b, OnTheWay)
        <3>1. p \in Seq(Mails) /\ q \in Seq(Mails)
            BY <1>2, WayTypes, AddressedType
        <3>2. Channel(b)' = p \o (q \o <<m>>)
            BY <1>2, <2>2 DEF m
        <3>3. Channel(b) = p \o q
            BY DEF Channel
        <3> HIDE DEF p, q
        <3>4. p \o q \in Seq(Mails) /\ (p \o q) \o <<m>> = p \o (q \o <<m>>)
            BY <2>1, <3>1, ConcatProperties, ConcatAssociative
        <3> QED BY <1>2, <3>2, <3>3, <3>4, AppendIsConcat
    <2>5. Channels' = [Channels EXCEPT ![b] = Append(@, m)]
        <3>1. Channels' = [Channels EXCEPT ![b] = Append(Channel(b), m)]
            BY <1>2, <2>3, <2>4, OneChannel
        <3>2. Channels[b] = Channel(b)
            BY <1>2 DEF Channels, Channel
        <3> QED BY <3>1, <3>2
    <2> QED BY <1>2, <1>3, <1>5, <2>5 DEF Abstract!Post, Abstract!Mail, m
<1> QED BY <1>3, <1>6, <1>7

(* A receiver takes the first mail of its box. *)
LEMMA TakesMail ==
    ASSUME PostInv, NEW t \in Clients, Remove(t), list[box[t]] # <<>>
    PROVE  \E b \in Boxes : Abstract!Take(t, b)
<1>0. PICK b \in Boxes : b = box[t]
    BY DEF Remove, PostInv, Well, ClientWell
<1> DEFINE p == list[b]
           q == AddressedTo(b, OnTheWay)
<1>1. /\ step[t] = "empty?" /\ step' = [step EXCEPT ![t] = "removed"] /\ ClientWell(t) /\ t # Worker
      /\ mail' = [mail EXCEPT ![t] = Head(p)] /\ list' = [list EXCEPT ![b] = Tail(p)]
      /\ UNCHANGED <<inHdr, inbox, socket, posted>>
    BY <1>0, PostConstants DEF Remove, Goto, PostInv, Well, networkVars
<1>2. p \in Seq(Mails) /\ q \in Seq(Mails) /\ p # <<>>
    BY <1>0, WayTypes, AddressedType
<1>3. OnTheWay' = OnTheWay
    <2>1. step'[Worker] = step[Worker] /\ mail'[Worker] = mail[Worker]
        BY <1>1 DEF PostInv, TypeOK
    <2> QED BY <1>1, <2>1 DEF OnTheWay, Carried, Buffered
<1>4. Channel(b) = p \o q /\ Channel(b)' = Tail(p) \o q
    <2>1. list'[b] = Tail(p)
        BY <1>1, <1>2, WayTypes
    <2> QED BY <1>3, <2>1 DEF Channel
<1>5. \A d \in Boxes : d # b => Channel(d)' = Channel(d)
    BY <1>1, <1>3, WayTypes DEF Channel
<1>6. Channels[b] = Channel(b)
    BY <1>2 DEF Channels, Channel
<1>7. [u \in Clients |-> mail[u]]' = [[u \in Clients |-> mail[u]] EXCEPT ![t] = Head(p)]
    <2>1. Clients \subseteq Clients \cup {Worker} /\ mail \in [Clients \cup {Worker} -> Mails \cup {NULL}]
        BY DEF PostInv, TypeOK
    <2> HIDE DEF p
    <2> QED BY <1>1, <2>1
<1>8. p \o q # <<>> /\ Head(p \o q) = Head(p) /\ Tail(p \o q) = Tail(p) \o q
    <2> HIDE DEF p, q
    <2> QED BY <1>2, HeadOfConcat
<1> HIDE DEF p, q
<1>9. Channels' = [Channels EXCEPT ![b] = Tail(p) \o q]
    BY <1>2, <1>4, <1>5, OneChannel
<1> QED BY <1>1, <1>2, <1>4, <1>6, <1>7, <1>8, <1>9 DEF Abstract!Take

(* The worker puts the oldest packet on the way into its mailbox. *)
LEMMA AppendsUnseen ==
    ASSUME PostInv, AppendAndSignal, UNCHANGED <<networkVars, box, mail, posted, receives, yields>>
    PROVE  UNCHANGED Abstract!vars
<1> DEFINE m == mail[Worker]
           rest == Buffered \o socket
<1>1. /\ step[Worker] = "append" /\ step'[Worker] = "release"
      /\ list' = [list EXCEPT ![m.to] = Append(list[m.to], m)]
      /\ UNCHANGED <<inHdr, inbox, socket, mail, posted>>
    BY DEF AppendAndSignal, Goto, networkVars, PostInv, TypeOK
<1>2. m \in Mails /\ m.to \in Boxes /\ <<m>> \in Seq(Mails)
    BY <1>1, MailBoxes DEF PostInv, Well, WorkerWell
<1>3. rest \in Seq(Mails) /\ OnTheWay = <<m>> \o rest /\ OnTheWay' = rest
    <2>1. Carried = <<m>> /\ Carried' = <<>> /\ Buffered' = Buffered
        BY <1>1 DEF Carried, Buffered
    <2>2. rest \in Seq(Mails)
        BY WayTypes, ConcatProperties
    <2>3. OnTheWay = <<m>> \o rest
        BY <1>2, <2>1, WayTypes, ConcatAssociative DEF OnTheWay
    <2>4. OnTheWay' = (<<>> \o Buffered) \o socket
        BY <1>1, <2>1 DEF OnTheWay
    <2> QED BY <2>2, <2>3, <2>4, WayTypes, ConcatEmptySeq
<1> HIDE DEF rest, m
<1>4. ASSUME NEW d \in Boxes PROVE Channel(d)' = Channel(d)
    <2> DEFINE p == list[d]
               q == AddressedTo(d, rest)
    <2>1. p \in Seq(Mails) /\ q \in Seq(Mails)
        BY <1>3, WayTypes, AddressedType
    <2>2. Channel(d) = p \o ((IF m.to = d THEN <<m>> ELSE <<>>) \o q)
        <3>1. AddressedTo(d, OnTheWay) = AddressedTo(d, <<m>>) \o q
            BY <1>2, <1>3, AddressedConcat
        <3>2. AddressedTo(d, <<m>>) = IF m.to = d THEN <<m>> ELSE <<>>
            BY <1>2, AddressedOne
        <3> QED BY <3>1, <3>2 DEF Channel
    <2>3. Channel(d)' = list'[d] \o q
        BY <1>3 DEF Channel
    <2>4. list'[d] = IF m.to = d THEN Append(p, m) ELSE p
        BY <1>1, <1>2, WayTypes DEF m
    <2> HIDE DEF p, q
    <2>5. CASE m.to = d
        <3>1. Append(p, m) = p \o <<m>>
            BY <1>2, <2>1, AppendIsConcat
        <3>2. (p \o <<m>>) \o q = p \o (<<m>> \o q)
            BY <1>2, <2>1, ConcatAssociative
        <3> QED BY <2>2, <2>3, <2>4, <2>5, <3>1, <3>2
    <2>6. CASE m.to # d
        BY <2>1, <2>2, <2>3, <2>4, <2>6, ConcatEmptySeq
    <2> QED BY <2>5, <2>6
<1>5. Channels' = Channels
    BY <1>4 DEF Channels, Channel
<1> QED BY <1>1, <1>5 DEF Abstract!vars

(* Everything else leaves what is on the way, in its order. *)
LEMMA PullsUnseen ==
    ASSUME PostInv, ReceiveHeader
    PROVE  UNCHANGED Abstract!vars
<1>1. inHdr /\ inbox \in Mails /\ step[Worker] = "pull" /\ UNCHANGED <<posted, list, socket, inbox, mail>>
    <2>1. inHdr
        BY PostConstants DEF ReceiveHeader, Executing, Goto, PostInv, PacketAnnounced, TypeOK, SynchTypeOK
    <2> QED BY <2>1 DEF ReceiveHeader, Goto, PostInv, PacketThere
<1>2. ~ inHdr' /\ step'[Worker] = "copy"
    BY <1>1, PostConstants DEF ReceiveHeader, Goto, PostInv, TypeOK
<1>3. OnTheWay' = OnTheWay
    <2>1. Carried = <<>> /\ Carried' = <<inbox>> /\ Buffered = <<inbox>> /\ Buffered' = <<>>
        BY <1>1, <1>2 DEF Carried, Buffered
    <2>2. <<>> \o <<inbox>> = <<inbox>> /\ <<inbox>> \o <<>> = <<inbox>>
        <3>1. <<inbox>> \in Seq(Mails)
            BY <1>1
        <3> QED BY <3>1, ConcatEmptySeq
    <2> QED BY <1>1, <2>1, <2>2 DEF OnTheWay
<1> QED BY <1>1, <1>3, SameChannels

LEMMA CopiesUnseen ==
    ASSUME PostInv, CopyInbox
    PROVE  UNCHANGED Abstract!vars
<1>1. /\ step[Worker] = "copy" /\ step'[Worker] = "put" /\ mail'[Worker] = inbox
      /\ UNCHANGED <<posted, list, socket, inHdr, inbox>>
      /\ \A t \in Clients : mail'[t] = mail[t]
    BY PostConstants DEF CopyInbox, Goto, networkVars, PostInv, TypeOK
<1>2. OnTheWay' = OnTheWay
    BY <1>1 DEF OnTheWay, Carried, Buffered
<1> QED BY <1>1, <1>2, SameChannels

LEMMA ArrivesUnseen ==
    ASSUME PostInv, CheckPktAvail, ~ Overwritten
    PROVE  UNCHANGED Abstract!vars
<1>0. ~ inHdr /\ inHdr' /\ socket # <<>> /\ inbox' = Head(socket) /\ socket' = Tail(socket)
    BY DEF CheckPktAvail
<1>1. /\ ~ inHdr /\ inHdr' /\ socket # <<>> /\ inbox' = Head(socket) /\ socket' = Tail(socket)
      /\ UNCHANGED <<posted, list, mail, step>> /\ step[Worker] # "copy"
    <2>1. UNCHANGED <<posted, list, mail, step>>
        BY DEF CheckPktAvail, clientVars
    <2>2. ASSUME step[Worker] = "copy" PROVE FALSE
        <3>1. ~ Interruptible
            BY <2>2 DEF Overwritten, Interruptible
        <3>2. CopyInbox \/ UNCHANGED vars
            BY <2>2, <3>1, OnlyCopies DEF Next
        <3> QED BY <1>0, <3>2 DEF CopyInbox, networkVars, vars, postVars
    <2> QED BY <1>0, <2>1, <2>2
<1>2. Head(socket) \in Mails /\ Tail(socket) \in Seq(Mails) /\ socket = <<Head(socket)>> \o Tail(socket)
    <2> DEFINE s == socket
               r == <<Head(s)>> \o Tail(s)
    <2>1. s \in Seq(Mails) /\ Len(s) \in Nat \ {0}
        BY <1>1, WayTypes, EmptySeq
    <2>2. /\ Head(s) \in Mails /\ Tail(s) \in Seq(Mails) /\ Len(Tail(s)) = Len(s) - 1
          /\ \A i \in 1 .. Len(s) - 1 : Tail(s)[i] = s[i + 1]
        BY <1>1, <2>1, HeadTailProperties
    <2>3. <<Head(s)>> \in Seq(Mails) /\ Len(<<Head(s)>>) = 1 /\ <<Head(s)>>[1] = s[1]
        BY <2>2
    <2> HIDE DEF s
    <2>4. r \in Seq(Mails) /\ Len(r) = Len(s)
          /\ \A i \in 1 .. Len(s) : r[i] = IF i <= 1 THEN <<Head(s)>>[i] ELSE Tail(s)[i - 1]
        BY <2>1, <2>2, <2>3, ConcatProperties
    <2> HIDE DEF r
    <2>5. ASSUME NEW i \in 1 .. Len(s) PROVE r[i] = s[i]
        <3>1. CASE i = 1
            BY <2>3, <2>4, <3>1
        <3>2. CASE i # 1
            <4>1. i - 1 \in 1 .. Len(s) - 1 /\ (i - 1) + 1 = i /\ ~(i <= 1)
                BY <2>1, <3>2
            <4> QED BY <2>2, <2>4, <4>1
        <3> QED BY <3>1, <3>2
    <2>6. r = s
        BY <2>1, <2>4, <2>5, SeqEqual
    <2> QED BY <2>2, <2>6 DEF r, s
<1>3. OnTheWay' = OnTheWay
    <2>1. Carried' = Carried /\ Buffered = <<>> /\ Buffered' = <<Head(socket)>>
        BY <1>1, <1>2, PostConstants DEF Carried, Buffered
    <2>2. OnTheWay' = (Carried \o <<Head(socket)>>) \o Tail(socket)
        BY <1>1, <2>1 DEF OnTheWay
    <2>3. <<Head(socket)>> \in Seq(Mails)
        BY <1>2
    <2>4. OnTheWay' = Carried \o (<<Head(socket)>> \o Tail(socket))
        <3> DEFINE c == Carried
                   h == <<Head(socket)>>
                   r == Tail(socket)
        <3>1. c \in Seq(Mails) /\ h \in Seq(Mails) /\ r \in Seq(Mails)
            BY <1>2, <2>3, WayTypes
        <3> HIDE DEF c, h, r
        <3>2. (c \o h) \o r = c \o (h \o r)
            BY <3>1, ConcatAssociative
        <3> QED BY <2>2, <3>2 DEF c, h, r
    <2>5. OnTheWay = Carried \o socket
        BY <2>1, WayTypes, ConcatEmptySeq DEF OnTheWay
    <2> QED BY <1>2, <2>4, <2>5
<1> QED BY <1>1, <1>3, SameChannels

LEMMA StaysOnTheWay ==
    ASSUME UNCHANGED <<inHdr, inbox, socket, list, mail, posted>>,
           step[Worker] = "copy" <=> step'[Worker] = "copy",
           step[Worker] \in {"put", "append"} <=> step'[Worker] \in {"put", "append"}
    PROVE  UNCHANGED Abstract!vars
<1>1. OnTheWay' = OnTheWay
    BY DEF OnTheWay, Carried, Buffered
<1> QED BY <1>1, SameChannels

LEMMA MailStep ==
    PostInv /\ [Next]_vars => [Abstract!Next \/ Overwritten]_(Abstract!vars)
<1> SUFFICES ASSUME PostInv, [Next]_vars, ~ Overwritten PROVE [Abstract!Next]_(Abstract!vars)
    OBVIOUS
<1>0. step \in [Clients \cup {Worker} -> Steps] /\ Worker \notin Clients
    BY PostConstants DEF PostInv, TypeOK, Steps
<1>1. ASSUME UNCHANGED <<networkVars, list, clientVars>> PROVE UNCHANGED Abstract!vars
    BY <1>1, StaysOnTheWay DEF networkVars, clientVars
<1>2. ASSUME NEW t \in Clients, ClientStep(t) PROVE [Abstract!Next]_(Abstract!vars)
    <2>1. CASE NetworkSend(t)
        BY <2>1, PostsMail DEF Abstract!Next
    <2>2. CASE Remove(t) /\ list[box[t]] # <<>>
        BY <2>2, TakesMail DEF Abstract!Next
    <2>3. CASE Remove(t) /\ list[box[t]] = <<>>
        BY <1>1, <2>3 DEF Remove, clientVars
    <2>4. CASE FinishStep(t)
        BY <1>1, <2>4 DEF FinishStep, postVars
    <2>5. CASE SendReturn(t) \/ ReceiveReturn(t) \/ \E b \in Boxes : Send(t, b) \/ Receive(t, b)
        <3>1. UNCHANGED <<inHdr, inbox, socket, list, mail, posted>> /\ step'[Worker] = step[Worker]
            BY <1>0, <2>5 DEF SendReturn, ReceiveReturn, Send, Receive, Goto, networkVars
        <3> QED BY <3>1, StaysOnTheWay
    <2> QED BY <1>2, <2>1, <2>2, <2>3, <2>4, <2>5 DEF ClientStep
<1>3. CASE Deliver
    <2>1. CASE AppendAndSignal
        BY <1>3, <2>1, AppendsUnseen DEF Deliver
    <2>2. CASE ~ AppendAndSignal
        <3>1. UNCHANGED <<inHdr, inbox, socket, list, mail, posted>>
            BY <1>3, <2>2 DEF Deliver, networkVars
        <3>2. /\ step[Worker] # "copy" /\ step'[Worker] # "copy"
              /\ step[Worker] \in {"put", "append"} <=> step'[Worker] \in {"put", "append"}
            BY <1>0, <1>3, <2>2 DEF Deliver, Goto
        <3> QED BY <3>1, <3>2, StaysOnTheWay
    <2> QED BY <2>1, <2>2
<1>4. CASE ReceiveHeader \/ CopyInbox
    BY <1>4, PullsUnseen, CopiesUnseen
<1>5. CASE CheckPktAvail
    BY <1>5, ArrivesUnseen
<1>6. CASE SendDone
    BY <1>6, StaysOnTheWay DEF SendDone, clientVars
<1>7. CASE MainStep \/ PollInVain \/ UNCHANGED vars \/ (SystemStep /\ UNCHANGED postVars)
           \/ \E t \in Threads : YieldStep(t)
    BY <1>1, <1>7 DEF MainStep, PollInVain, vars, postVars, YieldStep
<1> QED BY <1>2, <1>3, <1>4, <1>5, <1>6, <1>7 DEF Next

(* The clients see a channel that loses mail and never reorders, repeats or   *)
(* misdelivers it: what a client receives is the oldest mail sent to its box  *)
(* that was neither lost nor received, with any clients, boxes and mails.     *)
(* Only the first packet the worker takes can be overwritten, and with -p.    *)
THEOREM PostOfficeIsMailChannel == Spec => ImplementsMailChannel
<1>1. Init => Abstract!Init
    <2> SUFFICES ASSUME Init PROVE Abstract!Init
        OBVIOUS
    <2>1. OnTheWay = <<>>
        <3>1. Carried = <<>> /\ Buffered = <<>> /\ socket = <<>>
            BY DEF Init, Carried, Buffered
        <3> QED BY <3>1 DEF OnTheWay
    <2>2. Channels = [b \in Boxes |-> <<>>]
        <3>1. \A b \in Boxes : list[b] \o AddressedTo(b, OnTheWay) = <<>>
            <4>1. \A b \in Boxes : list[b] = <<>> /\ AddressedTo(b, OnTheWay) = <<>>
                BY <2>1, AddressedOne DEF Init
            <4>2. <<>> \o <<>> = <<>>
                OBVIOUS
            <4> QED BY <4>1, <4>2
        <3> QED BY <3>1 DEF Channels
    <2>3. [t \in Clients |-> mail[t]] = [t \in Clients |-> NULL]
        BY DEF Init
    <2> QED BY <2>2, <2>3 DEF Init, Abstract!Init
<1>2. PostInv /\ [Next]_vars => [Abstract!Next \/ Overwritten]_(Abstract!vars)
    BY MailStep
<1> QED BY <1>1, <1>2, PostInvariant, PTL DEF Spec, ImplementsMailChannel

(* Without -p there is no exception: the channel is all the clients see. *)
THEOREM UnslicedIsMailChannel == ~ Slices => (Spec => Abstract!Spec)
<1> SUFFICES ASSUME ~ Slices PROVE Spec => Abstract!Spec
    OBVIOUS
<1>1. ImplementsMailChannel => Abstract!Spec
    <2>1. ~ Overwritten
        BY DEF Overwritten
    <2>2. [Abstract!Next \/ Overwritten]_(Abstract!vars) => [Abstract!Next]_(Abstract!vars)
        BY <2>1
    <2> QED BY <2>2, PTL DEF ImplementsMailChannel, Abstract!Spec
<1> QED BY <1>1, PostOfficeIsMailChannel, PTL
=============================================================================
