---------------------------- MODULE MCConsoleTest ----------------------------
(* Every short text over a few characters, for TLC. *)
EXTENDS ConsoleTest

MCInitialValue == [s \in {readAvail, writeDone} |-> 0]
=============================================================================
