---------------------------- MODULE MCInterrupt ----------------------------
(* Short times for TLC: a tick is longer than some delays and shorter than *)
(* others, and interrupts fall due together.                               *)
EXTENDS Interrupt
=============================================================================
