------------------------------ MODULE PostOffice ------------------------------
(***************************************************************************)
(* The post office (network/post.cc) with its mailboxes, which are         *)
(* synchronized lists (threads/synchlist.h), and the network device below  *)
(* it (machine/network.cc).  Client threads of one machine send mail to    *)
(* the mailboxes of that machine and receive from them; a worker thread    *)
(* carries each packet from the device's one-packet buffer to its mailbox. *)
(***************************************************************************)
EXTENDS NachosSynch, FiniteSets

CONSTANTS
    Clients,     \* the threads that send and receive, forked by Main
    Worker,      \* the postal worker
    Boxes,       \* the mailboxes
    Lossy,       \* whether the network loses packets ("nachos -l" below 1)
    Slices,      \* whether time slices end anywhere ("nachos -p")
    MaxSends,    \* mails a client sends, at most
    MaxReceives, \* mails a client asks for, at most
    MaxYields    \* Yields, by a thread or the timer, at most

messageAvailable == <<"PostOffice", "messageAvailable">>
messageSent == <<"PostOffice", "messageSent">>
sendLock == <<"PostOffice", "sendLock">>
lock(b) == <<b, "lock">>            \* SynchList::lock of mailbox b
listEmpty(b) == <<b, "listEmpty">>  \* SynchList::listEmpty of mailbox b

Mails == [from : Clients, n : 0 .. MaxSends - 1, to : Boxes]

ASSUME PostAssumption ==
    /\ Threads = Clients \cup {Main, Worker}
    /\ Main \notin Clients /\ Worker \notin Clients \cup {Main}
    /\ Semaphores = {messageAvailable, messageSent}
    /\ \A s \in Semaphores : InitialValue[s] = 0
    /\ Locks = {sendLock} \cup {lock(b) : b \in Boxes}
    /\ Conditions = {listEmpty(b) : b \in Boxes}
    /\ Lossy \in BOOLEAN /\ Slices \in BOOLEAN
    /\ NULL \notin Mails
    /\ MaxSends \in Nat /\ MaxReceives \in Nat /\ MaxYields \in Nat

VARIABLES
    socket,    \* the packets in the UNIX socket
    inHdr,     \* whether Network::inHdr.length is not 0
    inbox,     \* Network::inbox, the last packet that came in
    sendBusy,  \* Network::sendBusy
    sends,     \* NetworkSendDone interrupts that are pending
    list,      \* SynchList::list of each mailbox
    step,      \* the statement a thread is at
    box,       \* the mailbox a client's call is about
    mail,      \* what the worker carries, what a client last received
    posted,    \* mails each client has sent
    receives,  \* mails each client has asked for
    yields     \* Yields so far

networkVars == <<socket, inHdr, inbox, sendBusy, sends>>
clientVars == <<step, box, mail, posted, receives>>
postVars == <<networkVars, list, clientVars, yields>>
vars == <<kernelVars, synchVars, postVars>>

Init ==
    /\ KernelInit /\ SynchInit
    /\ socket = <<>> /\ inHdr = FALSE /\ inbox = NULL
    /\ sendBusy = FALSE /\ sends = 0
    /\ list = [b \in Boxes |-> <<>>]
    /\ step = [t \in Clients \cup {Worker} |-> IF t = Worker THEN "await" ELSE "idle"]
    /\ box = [t \in Clients |-> NULL]
    /\ mail = [t \in Clients \cup {Worker} |-> NULL]
    /\ posted = [t \in Clients |-> 0]
    /\ receives = [t \in Clients |-> 0]
    /\ yields = 0

Goto(t, from, to) == step[t] = from /\ step' = [step EXCEPT ![t] = to]

-----------------------------------------------------------------------------
(* Mutant of Send: the send lock is forgotten. *)
SendWithoutLock(t, b) ==
    /\ posted[t] < MaxSends
    /\ Goto(t, "idle", "send")
    /\ Executing(t)
    /\ box' = [box EXCEPT ![t] = b]
    /\ UNCHANGED <<kernelVars, synchVars, networkVars, list, mail, posted, receives, yields>>

(* PostOffice::Send: the send lock is taken. *)
Send(t, b) ==
    /\ posted[t] < MaxSends
    /\ Goto(t, "idle", "send")
    /\ Acquire(t, sendLock)
    /\ box' = [box EXCEPT ![t] = b]
    /\ UNCHANGED <<networkVars, list, mail, posted, receives, yields>>

(* Network::Send: a lost packet schedules the interrupt too. *)
NetworkSend(t) ==
    /\ Executing(t)
    /\ Goto(t, "send", "sent")
    /\ posted' = [posted EXCEPT ![t] = @ + 1]
    /\ IF sendBusy
       THEN Abort /\ UNCHANGED <<sends, socket>>
       ELSE /\ sends' = sends + 1
            /\ \/ socket' = Append(socket, [from |-> t, n |-> posted[t], to |-> box[t]])
               \/ Lossy /\ UNCHANGED socket
            /\ UNCHANGED kernelVars
    /\ UNCHANGED <<synchVars, inHdr, inbox, sendBusy, list, box, mail, receives, yields>>

(* messageSent->P() and sendLock->Release(). *)
SendReturn(t) ==
    /\ \/ Goto(t, "sent", "unlock") /\ P(t, messageSent)
       \/ Goto(t, "unlock", "idle") /\ Release(t, sendLock)
    /\ UNCHANGED <<networkVars, list, box, mail, posted, receives, yields>>

-----------------------------------------------------------------------------
(* PostOffice::Receive, MailBox::Get and SynchList::Remove. *)
Receive(t, b) ==
    /\ receives[t] < MaxReceives
    /\ Goto(t, "idle", "empty?")
    /\ Acquire(t, lock(b))
    /\ box' = [box EXCEPT ![t] = b]
    /\ receives' = [receives EXCEPT ![t] = @ + 1]
    /\ UNCHANGED <<networkVars, list, mail, posted, yields>>

(* The loop of SynchList::Remove and the removal that ends it. *)
Remove(t) ==
    /\ Executing(t) /\ step[t] = "empty?"
    /\ IF list[box[t]] = <<>>
       THEN /\ Wait(t, listEmpty(box[t]), lock(box[t]))
            /\ UNCHANGED <<list, step, mail>>
       ELSE /\ mail' = [mail EXCEPT ![t] = Head(list[box[t]])]
            /\ list' = [list EXCEPT ![box[t]] = Tail(@)]
            /\ Goto(t, "empty?", "removed")
            /\ UNCHANGED <<kernelVars, synchVars>>
    /\ UNCHANGED <<networkVars, box, posted, receives, yields>>

ReceiveReturn(t) ==
    /\ Goto(t, "removed", "idle")
    /\ Release(t, lock(box[t]))
    /\ UNCHANGED <<networkVars, list, box, mail, posted, receives, yields>>

-----------------------------------------------------------------------------
(* Network::Receive in PostOffice::PostalDelivery: the header is taken, and *)
(* with length 0 put in its place the device may read the next packet.  Had *)
(* there been none, the worker's buffer would be delivered as it was; at    *)
(* first it holds nothing an ASSERT lets through.                           *)
ReceiveHeader ==
    /\ Executing(Worker)
    /\ Goto(Worker, "pull", IF inHdr THEN "copy" ELSE "put")
    /\ inHdr' = FALSE
    /\ IF ~ inHdr /\ mail[Worker] = NULL THEN Abort ELSE UNCHANGED kernelVars
    /\ UNCHANGED <<synchVars, socket, inbox, sendBusy, sends, list, box, mail,
                   posted, receives, yields>>

(* The data of the packet follows, out of inbox as it is by now. *)
CopyInbox ==
    /\ Executing(Worker)
    /\ Goto(Worker, "copy", "put")
    /\ mail' = [mail EXCEPT ![Worker] = inbox]
    /\ UNCHANGED <<kernelVars, synchVars, networkVars, list, box, posted, receives, yields>>

(* Mutant of Append: a waiter is woken only if the list was empty. *)
AppendSignalsIfEmpty ==
    LET b == mail[Worker].to
    IN /\ Goto(Worker, "append", "release")
       /\ IF list[b] = <<>> THEN Signal(Worker, listEmpty(b))
          ELSE Executing(Worker) /\ UNCHANGED <<kernelVars, synchVars>>
       /\ list' = [list EXCEPT ![b] = Append(@, mail[Worker])]

(* Mutant of Append: Prepend is called in its place. *)
AppendAtFront ==
    LET b == mail[Worker].to
    IN /\ Goto(Worker, "append", "release")
       /\ Signal(Worker, listEmpty(b))
       /\ list' = [list EXCEPT ![b] = <<mail[Worker]>> \o @]

(* SynchList::Append inside its lock: append and signal. *)
AppendAndSignal ==
    LET b == mail[Worker].to
    IN /\ Goto(Worker, "append", "release")
       /\ Signal(Worker, listEmpty(b))
       /\ list' = [list EXCEPT ![b] = Append(@, mail[Worker])]

(* MailBox::Put, and the return to the top of the loop. *)
Deliver ==
    /\ \/ Goto(Worker, "await", "pull") /\ P(Worker, messageAvailable) /\ UNCHANGED list
       \/ Goto(Worker, "put", "append") /\ Acquire(Worker, lock(mail[Worker].to))
          /\ UNCHANGED list
       \/ AppendAndSignal
       \/ Goto(Worker, "release", "await") /\ Release(Worker, lock(mail[Worker].to))
          /\ UNCHANGED list
    /\ UNCHANGED <<networkVars, box, mail, posted, receives, yields>>

-----------------------------------------------------------------------------
(* Inside Network::Receive nothing turns interrupts on: no handler runs there *)
(* unless a slice ends, whose Yield turns them off and on.                    *)
Window == InterruptWindow /\ (Executing(Worker) /\ step[Worker] = "copy" => Slices)

(* An interrupt handler that does V, and nothing else in the kernel. *)
HandlerV(s) ==
    /\ Window
    /\ ReleaseValue(s)
    /\ UNCHANGED <<currentThread, level, oldLevel, pc, threadToBeDestroyed,
                   destroyed, machine, lockOwner, waitsOn, relock>>

(* Mutants of CheckPktAvail: a packet in the buffer is overwritten; the post *)
(* office is not told.                                                       *)
CheckPktAvailOverwrites ==
    /\ socket # <<>>
    /\ inHdr' = TRUE /\ inbox' = Head(socket)
    /\ socket' = Tail(socket)
    /\ HandlerV(messageAvailable)
    /\ UNCHANGED <<sendBusy, sends, list, clientVars, yields>>

CheckPktAvailWithoutHandler ==
    /\ Window
    /\ ~ inHdr /\ socket # <<>>
    /\ inHdr' = TRUE /\ inbox' = Head(socket)
    /\ socket' = Tail(socket)
    /\ UNCHANGED <<kernelVars, synchVars, sendBusy, sends, list, clientVars, yields>>

(* Network::CheckPktAvail, which polls for ever, and IncomingPacket. *)
CheckPktAvail ==
    /\ ~ inHdr /\ socket # <<>>
    /\ inHdr' = TRUE /\ inbox' = Head(socket)
    /\ socket' = Tail(socket)
    /\ HandlerV(messageAvailable)
    /\ UNCHANGED <<sendBusy, sends, list, clientVars, yields>>

(* A poll that finds the buffer full or the socket empty. *)
PollInVain ==
    /\ Window
    /\ inHdr \/ socket = <<>>
    /\ UNCHANGED vars

(* Mutant of SendDone: the post office is not told. *)
SendDoneWithoutHandler ==
    /\ Window
    /\ sends > 0 /\ sends' = sends - 1
    /\ sendBusy' = FALSE
    /\ UNCHANGED <<kernelVars, synchVars, socket, inHdr, inbox, list, clientVars, yields>>

(* Network::SendDone and PostOffice::PacketSent. *)
SendDone ==
    /\ sends > 0 /\ sends' = sends - 1
    /\ sendBusy' = FALSE
    /\ HandlerV(messageSent)
    /\ UNCHANGED <<socket, inHdr, inbox, list, clientVars, yields>>

-----------------------------------------------------------------------------
(* The post office forks its worker; then the clients are forked. *)
MainStep ==
    /\ \/ status[Worker] = "JUST_CREATED" /\ Fork(Main, Worker)
       \/ status[Worker] # "JUST_CREATED" /\ \E t \in Clients : Fork(Main, t)
       \/ (\A t \in Threads : status[t] # "JUST_CREATED") /\ Finish(Main)
    /\ UNCHANGED <<synchVars, postVars>>

FinishStep(t) ==
    /\ step[t] = "idle" /\ Finish(t)
    /\ UNCHANGED <<synchVars, postVars>>

(* A client yields between two calls; a time slice may end where interrupts *)
(* are on, but inside Network::Receive only with -p.                        *)
YieldStep(t) ==
    /\ yields < MaxYields /\ yields' = yields + 1
    /\ t = Worker /\ step[Worker] = "copy" => Slices
    /\ (t \in Clients /\ step[t] = "idle") \/ level = "On"
    /\ Yield(t)
    /\ UNCHANGED <<synchVars, networkVars, list, clientVars>>

ClientStep(t) ==
    \/ \E b \in Boxes : Send(t, b) \/ Receive(t, b)
    \/ NetworkSend(t) \/ SendReturn(t)
    \/ Remove(t) \/ ReceiveReturn(t)
    \/ FinishStep(t)

Next ==
    \/ MainStep
    \/ \E t \in Clients : ClientStep(t)
    \/ \E t \in Threads : YieldStep(t)
    \/ ReceiveHeader \/ CopyInbox \/ Deliver
    \/ CheckPktAvail \/ PollInVain \/ SendDone
    \/ SystemStep /\ UNCHANGED postVars

(* The CPU runs and simulated time reaches every pending interrupt; the polls *)
(* that find nothing change nothing.                                          *)
Spec == Init /\ [][Next]_vars /\ WF_vars(Next)

-----------------------------------------------------------------------------
TypeOK ==
    /\ KernelTypeOK /\ SynchTypeOK
    /\ socket \in Seq(Mails) /\ sendBusy \in BOOLEAN /\ sends \in Nat
    /\ inHdr \in BOOLEAN /\ inbox \in Mails \cup {NULL}
    /\ list \in [Boxes -> Seq(Mails)]
    /\ step \in [Clients \cup {Worker} -> {"idle", "send", "sent", "unlock", "empty?",
                 "removed", "await", "pull", "copy", "put", "append", "release"}]
    /\ box \in [Clients -> Boxes \cup {NULL}]
    /\ mail \in [Clients \cup {Worker} -> Mails \cup {NULL}]
    /\ posted \in [Clients -> 0 .. MaxSends] /\ receives \in [Clients -> 0 .. MaxReceives]
    /\ yields \in 0 .. MaxYields
    /\ \A t \in Clients : step[t] = "removed" => mail[t] \in Mails

(* A packet is in the device's buffer exactly while the worker has been, or *)
(* is about to be, told of it: Network::Receive never finds the buffer      *)
(* empty, and no packet stays there unnoticed, with slices and without.     *)
PacketAnnounced ==
    LET told == IF step[Worker] = "pull" /\ pc[Worker] # "P" THEN 1 ELSE 0
    IN value[messageAvailable] + told = IF inHdr THEN 1 ELSE 0

(* The answer of the network, pending or given, belongs to the owner of the *)
(* send lock, who waits for it: one packet at a time goes to the device,    *)
(* although Network::sendBusy does not see to it.                           *)
SentIsMine ==
    /\ sends + value[messageSent] <= 1
    /\ sends + value[messageSent] = 1 =>
        \E t \in Clients : lockOwner[sendLock] = t /\ step[t] \in {"sent", "unlock"}

(* While receivers sleep on a mailbox, every mail in it has a receiver that *)
(* Signal woke and that has not looked yet: no mail lies in a mailbox whose *)
(* receivers all sleep, though others may take mail in between.             *)
NoSleepingReceiver == \A b \in Boxes :
    queue[listEmpty(b)] # <<>> =>
        Len(list[b]) <= Cardinality({t \in Clients :
            /\ step[t] = "empty?" /\ box[t] = b
            /\ \A i \in DOMAIN queue[listEmpty(b)] : queue[listEmpty(b)][i] # t})

(* PostOffice::Send returns to its caller, whether or not the packet is lost. *)
SendsReturn == \A t \in Clients : step[t] = "sent" ~> step[t] = "idle"

(* The socket and the device's buffer are emptied again and again, and the *)
(* worker comes back from the mailbox to wait for the next packet.         *)
PacketsArrive == socket # <<>> \/ inHdr ~>
    socket = <<>> /\ ~ inHdr /\ step[Worker] = "await"

(* The mail among a sequence of packets that is for mailbox b, in order. *)
AddressedTo(b, packets) ==
    LET its[n \in 0 .. Len(packets)] ==
            IF n = 0 THEN <<>>
            ELSE IF packets[n].to = b THEN Append(its[n - 1], packets[n]) ELSE its[n - 1]
    IN its[Len(packets)]

(* The packets the worker, the device and the socket hold, oldest first. *)
Carried ==
    IF step[Worker] = "copy" THEN <<inbox>>
    ELSE IF step[Worker] \in {"put", "append"} THEN <<mail[Worker]>> ELSE <<>>
Buffered == IF inHdr THEN <<inbox>> ELSE <<>>
OnTheWay == Carried \o Buffered \o socket

(* What is between Network::Send and SynchList::Remove, as one queue for each *)
(* mailbox.                                                                  *)
Channels == [b \in Boxes |-> list[b] \o AddressedTo(b, OnTheWay)]

Abstract == INSTANCE MailChannel WITH
    None <- NULL, channel <- Channels, got <- [t \in Clients |-> mail[t]]

(* With -p, a poll while the worker is between the header and the data of the *)
(* first packet it ever takes: that packet is lost and the next one doubled.  *)
Overwritten ==
    Slices /\ step[Worker] = "copy" /\ mail[Worker] = NULL /\ CheckPktAvail

(* The post office implements MailChannel: mail is delivered in order, at     *)
(* most once and to one receiver, wherever threads are switched and interrupts *)
(* come, but for Overwritten, the one step that is none of the channel's.      *)
ImplementsMailChannel ==
    Abstract!Init /\ [][Abstract!Next \/ Overwritten]_(Abstract!vars)
=============================================================================
