---------------------------- MODULE MCInterrupts -----------------------------
(***************************************************************************)
(* Small instances of InterruptSystem.  A program works with one of the    *)
(* devices and sees the interrupts of two: Count runs and overflows from   *)
(* the start.                                                              *)
(***************************************************************************)
EXTENDS InterruptSystem

MCUses == {{"timer"}, {"rx"}, {"tx"}}

\* everything off, the timer on, the timer and the receiver on
MCStatusValues ==
    {[ie |-> FALSE, mask |-> {}], [ie |-> TRUE, mask |-> {COUNTER_IRQ_LEVEL}],
     [ie |-> TRUE, mask |-> {rx_irq_level, COUNTER_IRQ_LEVEL}]}
=============================================================================
