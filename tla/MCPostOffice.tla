----------------------------- MODULE MCPostOffice -----------------------------
(* A small instance of PostOffice for TLC. *)
EXTENDS PostOffice, TLC

CONSTANTS c1, c2, b1

MCThreads == Clients \cup {Main, Worker}
MCSemaphores == {messageAvailable, messageSent}
MCLocks == {sendLock} \cup {lock(b) : b \in Boxes}
MCConditions == {listEmpty(b) : b \in Boxes}
MCInitialValue == [s \in MCSemaphores |-> 0]
=============================================================================
