------------------------------ MODULE MCDiningPh ------------------------------
(* Five philosophers, as in the code, playing a few rounds. *)
EXTENDS DiningPh

MCThreads == Philosophers \cup {Main}
MCLocks == {dp} \cup {lockCon(i) : i \in Philosophers}
MCConditions == {self(i) : i \in Philosophers}
MCInitialValue == [s \in {} |-> 0]
=============================================================================
