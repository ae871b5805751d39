----------------------------- MODULE MCSynchDisk -----------------------------
(* A small instance of SynchDisk for TLC. *)
EXTENDS SynchDisk, TLC

CONSTANTS c1, c2, c3

MCThreads == Clients \cup {Main}
MCInitialValue == [s \in {semaphore} |-> 0]
=============================================================================
