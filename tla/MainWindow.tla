----------------------------- MODULE MainWindow ------------------------------
(***************************************************************************)
(* The main window as it drives a machine (mainwindow.cpp): the Run, Pause, *)
(* Step, Restart, Reload, Compile and Build actions, the run timer, builds  *)
(* in the background and the message boxes.  A message box runs an event    *)
(* loop of its own, inside the handler that opened it: timers and finished  *)
(* builds are handled while it is open, the window's actions are not.       *)
(***************************************************************************)
EXTENDS MachineControl, SequencesExt

CONSTANTS MaxMachines, MaxBuilds, MaxDialogs   \* bounds

VARIABLES machine,      \* the current machine, or NoMachine
          ui,           \* which actions are enabled, and the status text
          dialogs,      \* the open message boxes, innermost last, by what opened them
          builds,       \* builds running
          scene,        \* id of the machine the core view's scene shows, or 0
          coreview_shown, speed, reset_at_compile, made

winvars == <<machine, ui, dialogs, builds, scene, coreview_shown, speed, reset_at_compile, made>>

Present == machine # NoMachine

\* the machine runs inside a step, or no handler is active but those with a dialog
Free == Present => ~machine.stepping

UiStart == [pause |-> TRUE, run |-> TRUE, step |-> TRUE, text |-> ""]

WinInit == /\ machine = NoMachine
           /\ ui = UiStart
           /\ dialogs = <<>> /\ builds = 0 /\ scene = 0 /\ made = 0
           /\ coreview_shown = TRUE
           /\ speed = FALSE
           /\ reset_at_compile \in BOOLEAN

-----------------------------------------------------------------------------
(* The slots connected to a machine.                                         *)

machine_status(u, st) ==
    CASE st = "READY"   -> [pause |-> FALSE, run |-> TRUE, step |-> TRUE, text |-> st]
      [] st = "RUNNING" -> [pause |-> TRUE, run |-> FALSE, step |-> FALSE, text |-> st]
      [] st = "BUSY"    -> u
      [] OTHER          -> [u EXCEPT !.text = st]

machine_exit(u) == [u EXCEPT !.pause = FALSE, !.run = FALSE, !.step = FALSE]

Slot(u, signal) ==
    CASE signal[1] = "status_change"                   -> machine_status(u, signal[2])
      [] signal[1] \in {"program_exit", "program_trap"} -> machine_exit(u)
      [] OTHER                                          -> u

\* the actions after the slots ran for the signals of sig, in their order
Handled(u, sig) ==
    LET after[i \in 0 .. Len(sig)] == IF i = 0 THEN u ELSE Slot(after[i - 1], sig[i])
    IN  after[Len(sig)]

\* the machine after an operation, its signals handled
Becomes(m) == /\ ui' = Handled(ui, m.sig)
              /\ machine' = [m EXCEPT !.sig = <<>>]

\* the window is free for the user
Input == dialogs = <<>> /\ Free

actionRun == /\ Input /\ Present /\ ui.run
             /\ Becomes(play(machine))
             /\ UNCHANGED <<dialogs, builds, scene, coreview_shown, speed, reset_at_compile, made>>

actionPause == /\ Input /\ Present /\ ui.pause
               /\ Becomes(pause(machine))
               /\ UNCHANGED <<dialogs, builds, scene, coreview_shown, speed, reset_at_compile, made>>

actionStep == /\ Input /\ Present /\ ui.step
              /\ Becomes(step(machine))
              /\ UNCHANGED <<dialogs, builds, scene, coreview_shown, speed, reset_at_compile, made>>

actionRestart == /\ Input /\ Present
                 /\ Becomes(restart(machine))
                 /\ UNCHANGED <<dialogs, builds, scene, coreview_shown, speed, reset_at_compile, made>>

\* the run timer: also while a message box is open
Timeout == /\ Present /\ Free /\ machine.timer
           /\ Becomes(step_timer(machine))
           /\ UNCHANGED <<dialogs, builds, scene, coreview_shown, speed, reset_at_compile, made>>

\* one step of the core within step_internal; stop_on_exception_reached is connected to pause
CoreStep ==
    /\ Present /\ machine.stepping
    /\ \E pc \in 0 .. EndPc, stop \in BOOLEAN :
         \E m \in {core_step(machine, pc)} : \E n \in {IF stop THEN pause(m) ELSE m} :
            \/ step_again(n) /\ Becomes(n)
            \/ Becomes(step_finish(n))
    /\ UNCHANGED <<dialogs, builds, scene, coreview_shown, speed, reset_at_compile, made>>

\* the core throws: machine_trap disables the actions and opens its message box
CoreTrap ==
    /\ Present /\ machine.stepping /\ Len(dialogs) < MaxDialogs
    /\ Becomes(step_trapped(machine))
    /\ dialogs' = Append(dialogs, "trap")
    /\ UNCHANGED <<builds, scene, coreview_shown, speed, reset_at_compile, made>>

-----------------------------------------------------------------------------
(* Machines come and go.                                                     *)

\* the scene after show_hide_coreview(show), for the machine with this id
show_hide_coreview(s, id, show) ==
    IF ~show /\ s = 0 THEN 0
    ELSE IF id = 0 \/ ~show THEN 0
    ELSE IF s # 0 THEN s ELSE id

\* the memory of a new machine: the executable's, the old machine's, or empty
MemoryOf(load, keep) == IF load THEN "elf" ELSE IF keep /\ Present THEN machine.mem ELSE "empty"

\* a bug: the scene of the deleted machine stays
ScenePersists(load, mem) ==
    /\ machine' = set_speed(NewMachine(made + 1, load, mem), speed)
    /\ scene' = show_hide_coreview(scene, made + 1, coreview_shown)
    /\ ui' = machine_status(ui, "READY")
    /\ made' = made + 1

\* mem is what the handler leaves in the new machine's memory
create_core(load, mem) ==
    /\ machine' = set_speed(NewMachine(made + 1, load, mem), speed)
    /\ scene' = show_hide_coreview(0, made + 1, coreview_shown)
    /\ ui' = machine_status(ui, "READY")
    /\ made' = made + 1

\* reading the executable failed: nothing but the message box
CreateFails(load, what) ==
    /\ load /\ Len(dialogs) < MaxDialogs
    /\ dialogs' = Append(dialogs, what)
    /\ UNCHANGED <<machine, scene, ui, made>>

\* NewDialog::create and create_empty
CreateFromDialog ==
    /\ Input /\ made < MaxMachines
    /\ \/ \E load \in BOOLEAN : create_core(load, MemoryOf(load, ~load)) /\ UNCHANGED dialogs
       \/ CreateFails(TRUE, "create")
    /\ UNCHANGED <<builds, coreview_shown, speed, reset_at_compile>>

machine_reload(force_memory_reset, force_elf_load) ==
    /\ made < MaxMachines
    /\ \E load \in {force_elf_load \/ executable_loaded(machine)} :
         \/ create_core(load, MemoryOf(load, ~force_memory_reset)) /\ UNCHANGED dialogs
         \/ CreateFails(load, "reload")

actionReload == /\ Input /\ Present
                /\ machine_reload(FALSE, FALSE)
                /\ UNCHANGED <<builds, coreview_shown, speed, reset_at_compile>>

\* compile_source: reload first where configured so; if that fails the assembler
\* goes on, once the message box is closed, with the machine there is
compile_source ==
    /\ Input /\ Present
    /\ IF reset_at_compile
       THEN /\ made < MaxMachines
            /\ \/ create_core(executable_loaded(machine), "asm") /\ UNCHANGED dialogs
               \/ CreateFails(executable_loaded(machine), "compile")
       ELSE /\ machine' = [machine EXCEPT !.mem = "asm"]
            /\ UNCHANGED <<scene, ui, made, dialogs>>
    /\ UNCHANGED <<builds, coreview_shown, speed, reset_at_compile>>

\* build_execute_no_check: the process is never remembered, so builds overlap
build_execute == /\ Input /\ builds < MaxBuilds
                 /\ builds' = builds + 1
                 /\ UNCHANGED <<machine, ui, dialogs, scene, coreview_shown, speed,
                                reset_at_compile, made>>

build_execute_finished(ok) ==
    /\ Free /\ builds > 0
    /\ builds' = builds - 1
    /\ IF ok /\ Present /\ reset_at_compile
       THEN machine_reload(TRUE, TRUE)
       ELSE UNCHANGED <<machine, ui, dialogs, scene, made>>
    /\ UNCHANGED <<coreview_shown, speed, reset_at_compile>>

\* a bug: the actions are disabled once the user has read the message
DisabledLate ==
    /\ dialogs # <<>> /\ Free
    /\ dialogs' = Front(dialogs)
    /\ ui' = IF Last(dialogs) = "trap" THEN machine_exit(ui) ELSE ui
    /\ UNCHANGED <<machine, builds, scene, coreview_shown, speed, reset_at_compile, made>>

\* the innermost message box is closed: its handler returns
CloseDialog ==
    /\ dialogs # <<>> /\ Free
    /\ dialogs' = Front(dialogs)
    /\ machine' = IF Last(dialogs) = "compile" THEN [machine EXCEPT !.mem = "asm"] ELSE machine
    /\ UNCHANGED <<ui, builds, scene, coreview_shown, speed, reset_at_compile, made>>

set_speed_action(s) == /\ Input /\ speed' = s
                       /\ machine' = IF Present THEN set_speed(machine, s) ELSE machine
                       /\ UNCHANGED <<ui, dialogs, builds, scene, coreview_shown,
                                      reset_at_compile, made>>

show_coreview(show) == /\ Input /\ coreview_shown' = show
                       /\ scene' = show_hide_coreview(scene, machine.id, show)
                       /\ UNCHANGED <<machine, ui, dialogs, builds, speed, reset_at_compile, made>>

WinNext == \/ actionRun \/ actionPause \/ actionStep \/ actionRestart
           \/ Timeout \/ CoreStep \/ CoreTrap
           \/ CreateFromDialog \/ actionReload \/ compile_source
           \/ build_execute \/ \E ok \in BOOLEAN : build_execute_finished(ok)
           \/ CloseDialog
           \/ \E s \in BOOLEAN : set_speed_action(s) \/ show_coreview(s)

-----------------------------------------------------------------------------

\* Between two steps the run timer is active exactly while the machine is RUNNING
\* (play, pause, step_internal): a machine that exited, trapped, was paused by an
\* exception or replaced by a finished build never ticks again on its own.
TimerMatchesStatus == Present /\ Free => (machine.timer <=> machine.stat = "RUNNING")

\* Whatever happened inside message boxes, Run, Pause and Step offer exactly what the
\* current machine's status allows (machine_status, machine_exit).
ButtonsMatchStatus ==
    Present /\ Free =>
        /\ ui.pause = (machine.stat = "RUNNING")
        /\ ui.run = (machine.stat = "READY") /\ ui.step = ui.run
        /\ ui.text = machine.stat

\* The core view never keeps the scene of a deleted machine, and shows the current
\* one whenever the view is on (create_core, show_hide_coreview).
SceneOfMachine ==
    /\ scene \in {0, machine.id}
    /\ scene = 0 <=> (~Present \/ ~coreview_shown)

\* A core step is made only while the machine is BUSY: after an exception paused it,
\* not one more instruction runs in the same time chunk (step_internal).
StopStopsTheRun ==
    [][machine.id = machine'.id /\ Present /\ machine'.parity # machine.parity
         => machine.stat = "BUSY"]_winvars

\* A running machine keeps executing until it is stopped or replaced (run_t).
RunningAdvances ==
    \A b \in {0, 1} :
        (Present /\ machine.stat = "RUNNING" /\ machine.parity = b)
            ~> (~Present \/ machine.stat \notin {"RUNNING", "BUSY"} \/ machine.parity # b)

\* When no step is under way the run timer, the actions and the core view belong to
\* the current machine and its status, in whatever order ticks, clicks, message boxes
\* and finished builds came (mainwindow.cpp, machine.cpp).
WindowMatchesMachine == TimerMatchesStatus /\ ButtonsMatchStatus /\ SceneOfMachine

\* A machine runs until it is stopped, and not one instruction longer (Machine::play,
\* step_internal, step_timer).
RunsUntilStopped == StopStopsTheRun /\ RunningAdvances
=============================================================================
