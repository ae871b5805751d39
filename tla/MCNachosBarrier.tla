--------------------------- MODULE MCNachosBarrier ---------------------------
(* Two threads and a barrier for two. *)
EXTENDS NachosBarrier

CONSTANTS t1, t2

MCInitialValue == [s \in {} |-> 0]
=============================================================================
