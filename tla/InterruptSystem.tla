--------------------------- MODULE InterruptSystem ---------------------------
(***************************************************************************)
(* The core without a pipeline, coprocessor 0 with its timer, the serial   *)
(* port and the user at the terminal, seen from the interrupts.            *)
(*                                                                         *)
(* Of CoreSingle::do_step this keeps what the fetch found: dt_f is the     *)
(* excause of the fetched instruction, or BUBBLE after dtFetchInit.  The   *)
(* instructions are the ones that write coprocessor 0 or a register of the *)
(* port; all others are Other.  The events of the user interface run       *)
(* between two steps, in the same thread.                                  *)
(***************************************************************************)
EXTENDS SerialPort

CONSTANTS DelaySlots,     \* the values of jmp_delay_slot
          Uses,           \* the sets of devices that the program works with:
                          \* the timer, the receiver, the transmitter
          TimerValues,    \* what it writes to Count and Compare
          StatusValues,   \* the IE bit and interrupt mask it writes to Status
          MaxInput,       \* bound: characters in the input line
          AllowRestart    \* whether Machine::restart is used

ASSUME InterruptAssumption ==
    /\ DelaySlots \subseteq BOOLEAN
    /\ Uses \subseteq SUBSET {"timer", "rx", "tx"}
    /\ TimerValues \subseteq Word
    /\ StatusValues \subseteq [ie : BOOLEAN, mask : SUBSET Lines]
    /\ MaxInput \in Nat
    /\ AllowRestart \in BOOLEAN

VARIABLES delay_slot, uses,
          status, timer,  \* the registers of coprocessor 0
          sp,             \* the serial port with the pending lines of Cause
          cycle_c,        \* the cycle counter of the core
          dt_f,
          stopped,        \* the next step ignores a breakpoint (skip_break)
          got,            \* the character the program read last
          event           \* "timer" or "restart" when the last step wrote the
                          \* timer or restarted the machine

setup == <<delay_slot, uses>>
vars == <<setup, status, timer, sp, cycle_c, dt_f, stopped, got, event>>

\* dt_f after dtFetchInit; without a delay slot there is none
Empty == IF delay_slot THEN "BUBBLE" ELSE "NONE"

Init ==
    /\ delay_slot \in DelaySlots
    /\ uses \in Uses
    /\ status = StatusReset /\ timer = TimerReset /\ sp = SerialReset
    /\ cycle_c = 0 /\ dt_f = Empty
    /\ stopped = TRUE /\ got = NoChar /\ event = "none"

-----------------------------------------------------------------------------
(* Core::step: the cycle is counted, then do_step fetches.  At a breakpoint *)
(* the fetch does not ask coprocessor 0.                                    *)

Cycle == (cycle_c + 1) % CountMod

FetchTimer(brk) == IF brk THEN timer ELSE UpdateCount(timer, Cycle)

FetchPort(brk) ==
    IF brk THEN sp ELSE [sp EXCEPT !.ip = CompareIrq(timer, @, Cycle)]

Fetched(brk) ==
    IF brk THEN "HWBREAK"
    ELSE IF CoreInterruptRequest(status, FetchPort(brk).ip) THEN "INT" ELSE "NONE"

\* what goes through the stages: the instruction fetched before, or this one
Current(brk) == IF delay_slot THEN dt_f ELSE Fetched(brk)

Begin(brk) == /\ brk => ~stopped
              /\ cycle_c' = Cycle
              /\ UNCHANGED setup

KeepFetched(brk) == dt_f' = IF delay_slot THEN Fetched(brk) ELSE dt_f

\* fault: the fetched instruction survives the exception
DropFetchedLate == dt_f' = IF delay_slot THEN Fetched(FALSE) ELSE dt_f

DropFetched == dt_f' = Empty

\* The current instruction carries an exception of its fetch.
\* step_over_exception keeps a breakpoint from the handler; it stops the machine.
TakeException(brk) ==
    /\ Current(brk) \in {"INT", "HWBREAK"}
    /\ Begin(brk) /\ DropFetched
    /\ status' = [status EXCEPT !.exl = @ \/ Current(brk) = "INT"]
    /\ timer' = FetchTimer(brk) /\ sp' = FetchPort(brk)
    /\ stopped' = (Current(brk) = "HWBREAK")
    /\ event' = "none"
    /\ UNCHANGED got

Executes(brk) ==
    /\ Current(brk) = "NONE"
    /\ Begin(brk)
    /\ stopped' = FALSE

\* an instruction without effect here, or a bubble
Other(brk) ==
    /\ Current(brk) \in {"NONE", "BUBBLE"}
    /\ Begin(brk) /\ KeepFetched(brk)
    /\ timer' = FetchTimer(brk) /\ sp' = FetchPort(brk)
    /\ stopped' = FALSE /\ event' = "none"
    /\ UNCHANGED <<status, got>>

\* a likely branch that is not taken discards the delay slot
SkipSlot(brk) ==
    /\ delay_slot
    /\ Executes(brk) /\ DropFetched
    /\ timer' = FetchTimer(brk) /\ sp' = FetchPort(brk)
    /\ event' = "none"
    /\ UNCHANGED <<status, got>>

\* SYSCALL or another trap, for which stepping over may be switched off.  That
\* it may also stop the machine would only keep the next step from a breakpoint.
Trap(brk) ==
    /\ Executes(brk) /\ DropFetched
    /\ \E vectored \in BOOLEAN : status' = [status EXCEPT !.exl = @ \/ vectored]
    /\ timer' = FetchTimer(brk) /\ sp' = FetchPort(brk)
    /\ event' = "none"
    /\ UNCHANGED got

Eret(brk) ==
    /\ Executes(brk) /\ DropFetched
    /\ status' = [status EXCEPT !.exl = FALSE]
    /\ timer' = FetchTimer(brk) /\ sp' = FetchPort(brk)
    /\ event' = "none"
    /\ UNCHANGED got

\* MTC0 to Status, and DI and EI, which also write a general register to it
MoveToStatus(brk) ==
    /\ Executes(brk) /\ KeepFetched(brk)
    /\ \E v \in StatusValues : status' = WriteStatus(status, v.ie, v.mask)
    /\ timer' = FetchTimer(brk) /\ sp' = FetchPort(brk)
    /\ event' = "none"
    /\ UNCHANGED got

MoveToTimer(brk) ==
    /\ "timer" \in uses
    /\ Executes(brk) /\ KeepFetched(brk)
    /\ \E v \in TimerValues :
          timer' \in {WriteCount(FetchTimer(brk), v), WriteCompare(FetchTimer(brk), v)}
    /\ sp' = [FetchPort(brk) EXCEPT !.ip = TimerWritten(@)]
    /\ event' = "timer"
    /\ UNCHANGED <<status, got>>

\* a load or store of a register of the serial port
AccessPort(brk) ==
    /\ Executes(brk) /\ KeepFetched(brk)
    /\ \/ /\ "rx" \in uses
          /\ \/ sp' = ReadRxSt(FetchPort(brk))
             \/ \E ie \in BOOLEAN : sp' = WriteRxSt(FetchPort(brk), ie)
       \/ /\ "tx" \in uses
          /\ \/ sp' = WriteTxData(FetchPort(brk))
             \/ \E ie \in BOOLEAN : sp' = WriteTxSt(FetchPort(brk), ie)
    /\ timer' = FetchTimer(brk)
    /\ event' = "none"
    /\ UNCHANGED <<status, got>>

ReceiveChar(brk) ==
    /\ "rx" \in uses
    /\ Executes(brk) /\ KeepFetched(brk)
    /\ sp' = ReadRxData(FetchPort(brk))
    /\ got' = ReceivedChar(sp)
    /\ timer' = FetchTimer(brk)
    /\ event' = "none"
    /\ UNCHANGED status

Step(brk) ==
    \/ TakeException(brk) \/ Other(brk) \/ SkipSlot(brk) \/ Trap(brk) \/ Eret(brk)
    \/ MoveToStatus(brk) \/ MoveToTimer(brk) \/ AccessPort(brk) \/ ReceiveChar(brk)

Steps == \E brk \in BOOLEAN : Step(brk)

-----------------------------------------------------------------------------
(* Between two steps: the user types, the memory view reads and writes the  *)
(* registers, the machine is restarted.  Machine::restart resets the core,  *)
(* but neither coprocessor 0 nor the port; play() then begins with          *)
(* skip_break.                                                              *)

Terminal ==
    /\ "rx" \in uses
    /\ \/ /\ Len(sp.input) < MaxInput
          /\ \E c \in Chars : sp' = TypeChar(sp, c)
       \/ \E n \in 0 .. (Len(sp.input) - 1) : sp' = EraseInput(sp, n)
    /\ UNCHANGED <<setup, status, timer, cycle_c, dt_f, stopped, got, event>>

MemoryView ==
    /\ "rx" \in uses
    /\ \/ sp' = ReadRxSt(sp)
       \/ sp' = ReadRxDataInternal(sp)
       \/ \E ie \in BOOLEAN : sp' = WriteRxSt(sp, ie)
    /\ UNCHANGED <<setup, status, timer, cycle_c, dt_f, stopped, got, event>>

Restart ==
    /\ AllowRestart
    /\ cycle_c' = 0 /\ dt_f' = Empty /\ stopped' = TRUE /\ event' = "restart"
    /\ UNCHANGED <<setup, status, timer, sp, got>>

Next == Steps \/ Terminal \/ MemoryView \/ Restart

\* The machine is running; a user stopped at a breakpoint continues.
Spec == Init /\ [][Next]_vars /\ WF_vars(Steps)
-----------------------------------------------------------------------------
Port == [rx_ie : BOOLEAN, rx_ready : BOOLEAN, rx_data : Chars \cup {NoChar},
         rx_irq_active : BOOLEAN, tx_ie : BOOLEAN, tx_ready : BOOLEAN,
         tx_irq_active : BOOLEAN, input : Seq(Chars), ip : SUBSET Lines]

\* The registers of coprocessor 0 and of the port keep their types: Count and
\* its copy of the cycle counter wrap around instead of growing.
TypeOK ==
    /\ delay_slot \in BOOLEAN /\ uses \subseteq {"timer", "rx", "tx"}
    /\ status \in [ie : BOOLEAN, exl : BOOLEAN, mask : SUBSET Lines]
    /\ timer \in [count : Word, compare : Word, last_core_cycles : Word]
    /\ sp \in Port
    /\ cycle_c \in Word
    /\ dt_f \in {"NONE", "BUBBLE", "INT", "HWBREAK"}
    /\ stopped \in BOOLEAN /\ event \in {"none", "timer", "restart"}
    /\ got \in Chars \cup {NoChar}

\* The receive line of Cause is a level: it is up exactly while the receiver
\* holds a character and its interrupt is enabled, although update_rx_irq
\* signals changes only, from register accesses, from the memory view and from
\* inside of the terminal's callback.
RxLineLevel ==
    /\ sp.rx_irq_active = (sp.rx_ie /\ sp.rx_ready)
    /\ (rx_irq_level \in sp.ip) = sp.rx_irq_active

\* While the receive interrupt is enabled a character that was typed never
\* waits in the terminal with an empty receiver, where no interrupt would tell
\* the program of it.
RxConsumed == (sp.rx_ie /\ sp.input # <<>>) => sp.rx_ready

Fifo == INSTANCE CharFifo WITH
            waiting <- (IF sp.rx_ready THEN <<sp.rx_data>> ELSE <<>>) \o sp.input

\* The program receives the characters that were typed once each and in order,
\* whatever the memory view reads and however interrupts are switched.
CharsInOrder == Fifo!Spec

\* An interrupt that was fetched is dropped when the instruction before it
\* enters the handler: EPC is never overwritten by a second entry.
FetchedInterruptUnmasked == dt_f = "INT" => ~status.exl

Requested == sp.ip \cap status.mask # {} /\ ~status.exl

\* A request of a peripheral is taken or withdrawn, although fetched
\* instructions are discarded by traps, ERET, likely branches and breakpoints.
RequestServed == Requested ~> (~Requested \/ event = "restart")

\* As long as nobody writes the timer, Count reaches Compare over and over,
\* wherever both start: through the overflow of Count, and although Count
\* stands still at breakpoints and then skips values.
TimerFires == []<>(COUNTER_IRQ_LEVEL \in sp.ip) \/ []<>(event # "none")
=============================================================================
