-------------------------------- MODULE Docks --------------------------------
(***************************************************************************)
(* The general registers and coprocessor 0 (machine/registers.cpp,          *)
(* machine/cop0state.cpp) with the docks of the window that show them       *)
(* (gui/registersdock.cpp, gui/cop0dock.cpp).  Registers are read and       *)
(* written by the core, the timer, peripherals and the OS emulation; a dock *)
(* learns of it only from the signals, of which each value has its text and *)
(* a colour: what the current step wrote, and what it read.                 *)
(*                                                                          *)
(* A general register holds a number, a register of coprocessor 0 the set   *)
(* of its bits.  The registers that no instruction or device changes are    *)
(* represented by Config.  Count's arithmetic is in Cop0.  TableView is     *)
(* extended for what views and docks have to show together.                 *)
(***************************************************************************)
EXTENDS TableView

CONSTANTS GpNames,      \* the general registers but $0
          SpName,       \* the stack pointer among them
          Cop0Values,   \* values written to coprocessor 0
          MaxOps        \* bound: operations of a behaviour

VARIABLE docks

PC_INIT == 1
SP_INIT == 2
Bits    == {0, 1, 2, 8, 15, 31}       \* IE, EXL, the code of Cause, lines 0 and 7, BD

RegNames  == GpNames \cup {"pc", "lo", "hi"}
Cop0Names == {"UserLocal", "Count", "Compare", "Status", "Cause", "EPC", "EBase", "Config"}
Labels    == RegNames \cup Cop0Names

\* a name is that of one register, and a register of coprocessor 0 has the bits above
DocksAssumption == /\ SpName \in GpNames
                   /\ GpNames \cap (Cop0Names \cup {"pc", "lo", "hi"}) = {}
                   /\ Cop0Values \subseteq SUBSET Bits
ASSUME DocksAssumption

\* cop0reg_desc
write_mask == [r \in Cop0Names |->
    IF r \in {"Cause", "Config"} THEN {}
    ELSE IF r = "Status" THEN {0, 8, 15}
    ELSE IF r = "EBase" THEN Bits \ {0, 1}
    ELSE Bits]
init_value == [r \in Cop0Names |-> IF r = "EBase" THEN {31} ELSE {}]

RegReset  == [l \in RegNames |-> IF l = "pc" THEN PC_INIT ELSE IF l = SpName THEN SP_INIT ELSE 0]
NewValues == [l \in Labels |-> IF l \in RegNames THEN RegReset[l] ELSE init_value[l]]

\* value is the machine's, text and colour the docks'; marked holds the flags
\* gp_highlighted, hi_highlighted, lo_highlighted and cop0reg_highlighted, any is
\* cop0reg_highlighted_any; hwr_userlocal is the core's copy of UserLocal.
\* written, seen: since the last tick; set: UserLocal was written.
DockStart == [value |-> NewValues, text |-> NewValues, colour |-> [l \in Labels |-> "normal"],
              marked |-> {}, any |-> FALSE, hwr_userlocal |-> {31}, set |-> FALSE,
              written |-> {}, seen |-> {}, ops |-> 0]

DockInit == docks = DockStart

-----------------------------------------------------------------------------
(* The slots.                                                                *)

\* gp_changed and hi_lo_changed, for each of the labels; pc_changed only shows the value
regs_changed(d, labels) ==
    LET marks == labels \ {"pc"}
    IN  [d EXCEPT !.text = [l \in Labels |-> IF l \in labels THEN d.value[l] ELSE @[l]],
                  !.colour = [l \in Labels |-> IF l \in marks THEN "updated" ELSE @[l]],
                  !.marked = @ \cup marks, !.written = @ \cup labels]

cop0reg_changed(d, r) ==
    [d EXCEPT !.text[r] = d.value[r], !.colour[r] = "updated", !.marked = @ \cup {r},
              !.any = TRUE, !.written = @ \cup {r}]

\* gp_read and hi_lo_read
reg_read(d, l) ==
    [d EXCEPT !.colour[l] = IF l \in d.marked THEN @ ELSE "read", !.marked = @ \cup {l},
              !.seen = @ \cup {l}]

\* a bug: the dock does not note that there is something to take back
ReadUnflagged(d, r) == [reg_read(d, r) EXCEPT !.any = d.any]

cop0reg_read(d, r) ==
    [d EXCEPT !.colour[r] = IF r \in d.marked THEN @ ELSE "read", !.marked = @ \cup {r},
              !.any = TRUE, !.seen = @ \cup {r}]

\* the labels that clear_highlights of each dock takes back, for the signal tick
reg_highlighted(d)  == d.marked \cap RegNames
cop0_highlighted(d) == IF d.any THEN d.marked \cap Cop0Names ELSE {}

clear_highlights(d) ==
    LET cleared == reg_highlighted(d) \cup cop0_highlighted(d)
    IN  [d EXCEPT !.colour = [l \in Labels |-> IF l \in cleared THEN "normal" ELSE @[l]],
                  !.marked = @ \ cleared, !.any = FALSE, !.written = {}, !.seen = {}]

\* setup of both docks shows a new machine; the colours wait for its first tick
setup_registers(d) == [l \in RegNames |-> d.value[l]]
setup_cop0(d)      == [r \in Cop0Names |-> d.value[r]]
setup_docks(d)     == [d EXCEPT !.text = [l \in Labels |->
                          IF l \in RegNames THEN setup_registers(d)[l] ELSE setup_cop0(d)[l]]]

-----------------------------------------------------------------------------
(* The operations that emit the signals.                                     *)

\* pc_inc, pc_jmp, pc_abs_jmp, once the address is aligned; write_gp, write_hi_lo
write_reg(d, l, v) == regs_changed([d EXCEPT !.value[l] = v], {l})

set_cop0reg(d, r, v) == cop0reg_changed([d EXCEPT !.value[r] = v], r)

\* every register is written, the stack pointer twice
reset_registers(d) ==
    regs_changed([d EXCEPT !.value = [l \in Labels |-> IF l \in RegNames THEN RegReset[l] ELSE @[l]]],
                 RegNames)

write_cop0reg_default(d, r, v) ==
    set_cop0reg(d, r, (v \cap write_mask[r]) \cup (d.value[r] \ write_mask[r]))

set_interrupt_signal(d, irq, active) ==
    set_cop0reg(d, "Cause", IF active THEN d.value["Cause"] \cup {8 + irq} ELSE d.value["Cause"] \ {8 + irq})

set_status_exl(d, v) ==
    set_cop0reg(d, "Status", IF v THEN d.value["Status"] \cup {1} ELSE d.value["Status"] \ {1})

update_execption_cause(d, code, in_delay_slot) ==
    set_cop0reg(d, "Cause", ((d.value["Cause"] \ {0, 1, 2, 31}) \cup code)
                       \cup (IF in_delay_slot THEN {31} ELSE {}))

\* Core::set_c0_userlocal and write_cop0reg_user_local call each other until they agree
write_cop0reg_user_local(d, v) ==
    cop0reg_read([write_cop0reg_default(d, "UserLocal", v) EXCEPT !.hwr_userlocal = v, !.set = TRUE],
                 "UserLocal")

set_c0_userlocal(d, v) ==
    LET e == cop0reg_read([d EXCEPT !.hwr_userlocal = v, !.set = TRUE], "UserLocal")
    IN  IF v = d.value["UserLocal"] THEN e ELSE write_cop0reg_user_local(e, v)

write_cop0reg(d, r, v) ==
    CASE r \in {"Count", "Compare"} ->
            write_cop0reg_default(set_interrupt_signal(d, 7, FALSE), r, v)
      [] r = "UserLocal" -> write_cop0reg_user_local(d, v)
      [] OTHER -> write_cop0reg_default(d, r, v)

update_count_and_compare_irq(d, count, reached) ==
    LET e == set_cop0reg(d, "Count", count) IN IF reached THEN set_interrupt_signal(e, 7, TRUE) ELSE e

-----------------------------------------------------------------------------

DockStep(d) == docks.ops < MaxOps /\ docks' = [d EXCEPT !.ops = docks.ops + 1]

DockTick == DockStep(clear_highlights(docks))

\* what a step of the core, a device, the timer or a system call does
RegisterUse ==
    \/ \E l \in RegNames : DockStep(write_reg(docks, l, 3))
    \/ \E l \in RegNames \ {"pc"} : DockStep(reg_read(docks, l))
    \/ \E r \in Cop0Names, v \in Cop0Values : DockStep(write_cop0reg(docks, r, v))
    \/ \E r \in Cop0Names : DockStep(cop0reg_read(docks, r))
    \/ \E active \in BOOLEAN : DockStep(set_interrupt_signal(docks, 0, active)) \/ DockStep(set_status_exl(docks, active))
    \/ \E code \in {{}, {2}}, slot \in BOOLEAN : DockStep(update_execption_cause(docks, code, slot))
    \/ \E v \in Cop0Values : DockStep(set_c0_userlocal(docks, v))
    \/ \E v \in Cop0Values, reached \in BOOLEAN : DockStep(update_count_and_compare_irq(docks, v, reached))

\* Machine::restart leaves coprocessor 0 alone
RegsRestarted == DockStep(reset_registers(docks))

\* MainWindow::create_core; an executable sets pc to its entry
NewMachineShown ==
    \E entry \in {PC_INIT, 3} :
        DockStep(setup_docks([docks EXCEPT !.value = [NewValues EXCEPT !["pc"] = entry],
                                           !.hwr_userlocal = {31}, !.set = FALSE]))

DockNext == DockTick \/ RegisterUse \/ RegsRestarted \/ NewMachineShown

DockSpec == DockInit /\ [][DockNext]_docks

-----------------------------------------------------------------------------

\* A dock shows what the machine holds and marks what was used since the last tick: in red
\* what was written, read afterwards or not, and in blue what was only read.  Nothing of
\* an earlier step stays marked, over a change of machines too (clear_highlights).
DocksMatch ==
    /\ docks.text = docks.value
    /\ \A l \in Labels \ {"pc"} :
          docks.colour[l] = IF l \in docks.written THEN "updated"
                            ELSE IF l \in docks.seen THEN "read" ELSE "normal"

\* Once UserLocal was written, by MTC0 or by a system call, RDHWR and MFC0 read the same
\* (Core::set_c0_userlocal, Cop0State::write_cop0reg_user_local).
UserLocalAgrees == docks.set => docks.hwr_userlocal = docks.value["UserLocal"]

\* Whatever was written, read, restarted or exchanged, the docks show the registers there
\* are (RegistersDock, Cop0Dock).
DocksConsistent == DocksMatch /\ UserLocalAgrees

\* The memory and program views and the docks show the machine, and each shows what it was
\* asked for (MemoryTableView, ProgramTableView, RegistersDock, Cop0Dock).
ViewsConsistent == ViewConsistent /\ DocksConsistent
=============================================================================
