-------------------------------- MODULE Cop0 ---------------------------------
(***************************************************************************)
(* The interrupt logic of coprocessor 0 (machine/cop0state.cpp): Status,   *)
(* the pending lines of Cause, and the timer made of Count and Compare.    *)
(* The registers are 32 bits wide in the code, CountMod values here.       *)
(***************************************************************************)
EXTENDS Integers

CONSTANT CountMod

ASSUME Cop0Assumption == CountMod \in Nat \ {0} /\ CountMod % 2 = 0

Word == 0 .. (CountMod - 1)

COUNTER_IRQ_LEVEL == 7
Lines == 0 .. 7

\* what the descriptions of the registers set at reset; EBase is not zero and
\* Status.ERL cannot be written
StatusReset == [ie |-> FALSE, exl |-> FALSE, mask |-> {}]
TimerReset  == [count |-> 0, compare |-> 0, last_core_cycles |-> 0]

\* int32_t of a difference
SignedDifference(a, b) ==
    LET d == (a - b) % CountMod
    IN  IF d < CountMod \div 2 THEN d ELSE d - CountMod

SetInterruptSignal(ip, irq, active) == IF active THEN ip \cup {irq} ELSE ip \ {irq}

\* write_cop0reg of Status: only IE and the mask can be written
WriteStatus(status, ie, mask) == [status EXCEPT !.ie = ie, !.mask = mask]

\* write_cop0reg_count_compare also withdraws the interrupt
WriteCount(timer, v)   == [timer EXCEPT !.count = v]
WriteCompare(timer, v) == [timer EXCEPT !.compare = v]
TimerWritten(ip)       == SetInterruptSignal(ip, COUNTER_IRQ_LEVEL, FALSE)

\* update_count_and_compare_irq: Count advances by the cycles of the core since
\* the last time
UpdateCount(timer, core_cycles) ==
    [timer EXCEPT !.count = (@ + core_cycles - timer.last_core_cycles) % CountMod,
                  !.last_core_cycles = core_cycles]

\* fault: the values are compared as unsigned numbers
ReachedUnsigned(timer, core_cycles) ==
    timer.compare > timer.count /\ timer.compare <= UpdateCount(timer, core_cycles).count

Reached(timer, core_cycles) ==
    /\ SignedDifference(timer.compare, timer.count) > 0
    /\ SignedDifference(timer.compare, UpdateCount(timer, core_cycles).count) <= 0

CompareIrq(timer, ip, core_cycles) ==
    IF Reached(timer, core_cycles)
    THEN SetInterruptSignal(ip, COUNTER_IRQ_LEVEL, TRUE) ELSE ip

\* fault: all the lines of the mask must be pending
CoreInterruptRequestAll(status, ip) ==
    status.mask # {} /\ status.mask \subseteq ip /\ ~status.exl

\* core_interrupt_request, after the timer was updated; Status.IE is not tested
CoreInterruptRequest(status, ip) == ip \cap status.mask # {} /\ ~status.exl
=============================================================================
