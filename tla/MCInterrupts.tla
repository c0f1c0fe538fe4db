--------------------------- MODULE MCInterrupts -----------------------------
(* An instance of Interrupts: words of two halves of one bit, seconds of   *)
(* two ticks of two counts.                                                *)
EXTENDS Interrupts

SomeTimes == {[sec |-> 0, nsec |-> 3], [sec |-> 1, nsec |-> 2]}
=============================================================================
