--------------------------- MODULE MCSynchClient ---------------------------
(* A small instance of SynchClient for TLC. *)
EXTENDS SynchClient, TLC

CONSTANTS t1, t2, t3, s1, l1, c1

MCInitialValue == [s \in {s1} |-> 0]
MCSymmetry == Permutations({t2, t3})
=============================================================================
