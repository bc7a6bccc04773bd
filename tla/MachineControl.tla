--------------------------- MODULE MachineControl ----------------------------
(***************************************************************************)
(* The control of one Machine (machine.cpp): its status, its run timer and  *)
(* the step in progress.  Machines are created and deleted by a front end,  *)
(* which also receives their signals, so a machine is a record and an       *)
(* operation a function on it; sig collects the signals of an operation in  *)
(* the order they are emitted.  What the core computes is left to the core  *)
(* modules: a core step moves pc anywhere, may raise an exception the       *)
(* machine is to stop on, or may throw a SimulatorException.                *)
(***************************************************************************)
EXTENDS Naturals, Sequences

CONSTANT EndPc     \* program_end of a loaded executable, from its first address

NoMachine == [id |-> 0]

\* the constructor, once the executable (if any) was read
NewMachine(id, load, memory) ==
    [id |-> id, stat |-> "READY", timer |-> FALSE, chunk |-> FALSE, prev |-> "READY",
     skip |-> FALSE, stepping |-> FALSE, pc |-> 0, loaded |-> load, mem |-> memory,
     parity |-> 0, sig |-> <<>>]

executable_loaded(m) == m.loaded

\* without an executable program_end is above everything a program reaches
PastEnd(m) == executable_loaded(m) /\ m.pc >= EndPc

exited(m) == m.stat \in {"EXIT", "TRAPPED"}

CTL_GUARD(m) == exited(m) \/ m.stat = "BUSY"

Emit(m, signal) == [m EXCEPT !.sig = Append(@, signal)]

set_status(m, st) ==
    IF st = m.stat THEN m ELSE Emit([m EXCEPT !.stat = st], <<"status_change", st>>)

set_speed(m, unlimited) == [m EXCEPT !.chunk = unlimited]

-----------------------------------------------------------------------------
(* step_internal, cut where the core runs: a step begins, the core steps     *)
(* once or (in time_chunk) several times, and the step ends.                 *)

step_begin(m, skip_break) ==
    IF CTL_GUARD(m) THEN m
    ELSE Emit(set_status([m EXCEPT !.prev = m.stat, !.skip = skip_break, !.stepping = TRUE],
                         "BUSY"), <<"tick">>)

core_step(m, pc) == [m EXCEPT !.pc = pc, !.parity = 1 - @]

\* a bug: only the time is looked at
StepAgainStopped(m) == m.chunk /\ ~m.skip

\* the loop goes on, if time_chunk has not passed yet
step_again(m) == m.chunk /\ m.stat = "BUSY" /\ ~m.skip

step_trapped(m) ==
    Emit(set_status([m EXCEPT !.timer = FALSE, !.stepping = FALSE], "TRAPPED"),
         <<"program_trap">>)

\* a bug: the timer is left to run when the program is over
FinishTicking(m) ==
    LET d == [m EXCEPT !.stepping = FALSE]
        e == IF PastEnd(m) THEN Emit(set_status(d, "EXIT"), <<"program_exit">>)
             ELSE IF m.stat = "BUSY" THEN set_status(d, m.prev) ELSE d
    IN  Emit(e, <<"post_tick">>)

step_finish(m) ==
    LET d == [m EXCEPT !.stepping = FALSE]
        e == IF PastEnd(m)
             THEN Emit(set_status([d EXCEPT !.timer = FALSE], "EXIT"), <<"program_exit">>)
             ELSE IF m.stat = "BUSY" THEN set_status(d, m.prev) ELSE d
    IN  Emit(e, <<"post_tick">>)

-----------------------------------------------------------------------------

play(m) ==
    IF CTL_GUARD(m) THEN m
    ELSE step_begin([set_status(m, "RUNNING") EXCEPT !.timer = TRUE], TRUE)

pause(m) ==
    IF m.stat # "BUSY" /\ CTL_GUARD(m) THEN m
    ELSE [set_status(m, "READY") EXCEPT !.timer = FALSE]

step(m) == step_begin(m, TRUE)

\* a bug: a running machine counts as busy
TimerGuarded(m) == IF m.stat = "RUNNING" THEN m ELSE step_begin(m, FALSE)

step_timer(m) == step_begin(m, FALSE)

\* the executable's memory comes back, and the registers start over
restart(m) ==
    set_status([pause(m) EXCEPT !.pc = 0, !.mem = IF m.loaded THEN "elf" ELSE @], "READY")
=============================================================================
