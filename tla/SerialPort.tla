------------------------------ MODULE SerialPort -----------------------------
(***************************************************************************)
(* The serial port (machine/memory/backend/serialport.cpp) with the        *)
(* terminal of the user interface behind it (gui/terminaldock.cpp).        *)
(*                                                                         *)
(* The state is a record s of the port's registers and of what it works    *)
(* on: the characters in the terminal's input line and the pending lines   *)
(* of coprocessor 0, which signal_interrupt sets.  Each function of the    *)
(* code is a function of s, so that the calls it ends with are part of it. *)
(***************************************************************************)
EXTENDS Sequences, Cop0

CONSTANT Chars

tx_irq_level == 2
rx_irq_level == 3

NoChar == 0
ASSUME SerialAssumption == NoChar \notin Chars

SerialReset == [rx_ie |-> FALSE, rx_ready |-> FALSE, rx_data |-> NoChar,
                rx_irq_active |-> FALSE, tx_ie |-> FALSE, tx_ready |-> FALSE,
                tx_irq_active |-> FALSE, input |-> <<>>, ip |-> {}]

\* fault: the level is only raised
UpdateRxIrqRaise(s) ==
    IF s.rx_ie /\ s.rx_ready
    THEN [s EXCEPT !.rx_irq_active = TRUE,
                   !.ip = SetInterruptSignal(@, rx_irq_level, TRUE)]
    ELSE s

UpdateRxIrq(s) ==
    LET active == s.rx_ie /\ s.rx_ready
    IN  IF active = s.rx_irq_active THEN s
        ELSE [s EXCEPT !.rx_irq_active = active,
                       !.ip = SetInterruptSignal(@, rx_irq_level, active)]

UpdateTxIrq(s) ==
    LET active == s.tx_ie /\ s.tx_ready
    IN  IF active = s.tx_irq_active THEN s
        ELSE [s EXCEPT !.tx_irq_active = active,
                       !.ip = SetInterruptSignal(@, tx_irq_level, active)]

\* fault: a character is taken although one is still waiting in rx_data
PoolRxByteAgain(s) ==
    IF s.input = <<>> THEN s
    ELSE UpdateRxIrq([s EXCEPT !.rx_ready = TRUE, !.input = Tail(@),
                               !.rx_data = Head(s.input)])

\* pool_rx_byte.  Taking the character from the input line changes its text,
\* which calls rx_queue_check before the character is in rx_data; READY is set
\* already, so that the nested call only updates the interrupt.
PoolRxByte(s) ==
    IF s.rx_ready \/ s.input = <<>> THEN s
    ELSE LET taken  == [s EXCEPT !.rx_ready = TRUE, !.input = Tail(@)]
             nested == UpdateRxIrq(taken)
         IN  [nested EXCEPT !.rx_data = Head(s.input)]

RxQueueCheck(s) == UpdateRxIrq(IF s.rx_ie THEN PoolRxByte(s) ELSE s)

(* Register accesses.                                                       *)

\* an INTERNAL read, from the memory view, takes a character all the same
ReadRxSt(s) == PoolRxByte(s)

\* fault: the next character waits for the next access
ReadRxDataOne(s) ==
    LET pooled == PoolRxByte(s)
    IN  UpdateRxIrq([pooled EXCEPT !.rx_ready = FALSE])

ReadRxData(s) ==
    LET pooled == PoolRxByte(s)
    IN  RxQueueCheck(IF pooled.rx_ready
                     THEN UpdateRxIrq([pooled EXCEPT !.rx_ready = FALSE])
                     ELSE pooled)

\* the value a regular read of rx_data returns
ReceivedChar(s) ==
    LET pooled == PoolRxByte(s)
    IN  IF pooled.rx_ready THEN pooled.rx_data ELSE NoChar

ReadRxDataInternal(s) == RxQueueCheck(PoolRxByte(s))

WriteRxSt(s, ie) == UpdateRxIrq(RxQueueCheck([s EXCEPT !.rx_ie = ie]))

WriteTxSt(s, ie) == UpdateTxIrq([s EXCEPT !.tx_ie = ie])

WriteTxData(s) == UpdateTxIrq(s)

(* The input line of the terminal.                                          *)

TypeChar(s, c) == RxQueueCheck([s EXCEPT !.input = Append(@, c)])

EraseInput(s, n) == RxQueueCheck([s EXCEPT !.input = SubSeq(@, 1, n)])
=============================================================================
