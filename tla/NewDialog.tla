------------------------------ MODULE NewDialog -------------------------------
(***************************************************************************)
(* The New machine dialog (newdialog.cpp): widgets, the configuration being *)
(* edited, the settings, and the configuration of the machine created last. *)
(* Writing to a widget may call the handler of its change, which may write  *)
(* to all widgets again: a handler is an operator on the pair of widgets    *)
(* and configuration, called where Qt would call it.                        *)
(***************************************************************************)
EXTENDS MachineConfig

CONSTANTS Times, CacheSizes, Policies, WritePolicies, MaxChanges

DialogAssumption == Times \subseteq Nat /\ CacheSizes \subseteq Nat

ASSUME DialogAssumption

VARIABLES dlg,        \* [config, ui]: the configuration and what the widgets show
          settings,   \* the stored configuration, with the stored preset
          visible, created, picked, changes

dlgvars == <<dlg, settings, visible, created, picked, changes>>

NoConfig == [elf |-> "no machine"]

MemTimes == {"read", "write", "burst"}

\* the widgets as the form file leaves them; preset 0 is Custom
UiForm == [preset |-> 0, pipelined |-> FALSE, delay_slot |-> FALSE, hazard_unit |-> FALSE,
           hazard_radio |-> "STALL_FORWARD", read |-> 1, write |-> 1, burst |-> 0,
           osemu |-> [f \in OsFlags |-> FALSE], fs_root |-> "", reset_at_compile |-> FALSE,
           elf |-> "", program |-> DefaultCache, data |-> DefaultCache,
           delay_slot_enabled |-> TRUE, hazard_unit_enabled |-> TRUE]

\* a bug: the change is not compared with the configuration
ChangesAlways(d, t, v) == TRUE

\* mem_time_read_change, mem_time_write_change and mem_time_burst_change: the handler of a
\* spin box acts on a value that the configuration has not got
TimeChanges(d, t, v) == Getters(d.config)[t] # v

TimeShown(d, t, v) == [d EXCEPT !.ui = [@ EXCEPT ![t] = v]]

\* setValue of a spin box signals a change; if its handler acts it chooses Custom, and
\* the rest of switch2custom writes what config_gui is writing
SetTime(d, t) ==
    LET v == Getters(d.config)[t]
        w == TimeShown(d, t, v)
    IN  IF d.ui[t] # v /\ TimeChanges(w, t, v)
        THEN [w EXCEPT !.config = [@ EXCEPT ![t] = v], !.ui = [@ EXCEPT !.preset = 0]]
        ELSE w

\* the checked one of the two hazard buttons cannot be unchecked
config_gui(d) ==
    LET g == Getters(d.config)
        core == [d EXCEPT !.ui = [@ EXCEPT
            !.elf = g.elf, !.reset_at_compile = g.reset_at_compile,
            !.pipelined = g.pipelined, !.delay_slot = g.delay_slot,
            !.hazard_unit = g.hazard_unit # "NONE",
            !.hazard_radio = IF g.hazard_unit = "NONE" THEN d.ui.hazard_radio ELSE g.hazard_unit]]
        memory == SetTime(SetTime(SetTime(core, "read"), "write"), "burst")
        h == Getters(memory.config)
    IN  [memory EXCEPT !.ui = [@ EXCEPT
            !.program = h.program, !.data = h.data, !.osemu = h.osemu, !.fs_root = h.fs_root,
            !.delay_slot_enabled = ~h.pipelined, !.hazard_unit_enabled = h.pipelined]]

\* toggled of a preset button
set_preset(d) ==
    IF d.ui.preset = 0 THEN d ELSE config_gui([d EXCEPT !.config = preset(@, d.ui.preset)])

\* setChecked of a preset button: the button left is toggled, then the new one;
\* Custom has no handler
CheckPreset(d, p) ==
    LET left == [d EXCEPT !.ui.preset = p]
        then == IF d.ui.preset = 0 THEN left ELSE set_preset(left)
    IN  IF p = d.ui.preset THEN d ELSE IF p = 0 THEN then ELSE set_preset(then)

switch2custom(d) == config_gui(CheckPreset(d, 0))

mem_time_change(d, t, v) ==
    IF TimeChanges(d, t, v) THEN switch2custom([d EXCEPT !.config[t] = v]) ELSE d

\* a stored preset goes before the stored values
load_settings(d, s) ==
    LET fresh == [d EXCEPT !.config = s.config]
        chosen == IF s.preset = 0 THEN CheckPreset(fresh, 0)
                  ELSE CheckPreset([fresh EXCEPT !.config = preset(@, s.preset)], s.preset)
    IN  config_gui(chosen)

DlgInit == /\ settings = [config |-> DefaultConfig, preset |-> 1]
           /\ dlg = load_settings([config |-> DefaultConfig, ui |-> UiForm], settings)
           /\ visible = TRUE /\ created = NoConfig /\ picked = 1 /\ changes = 0

-----------------------------------------------------------------------------
(* The user's changes.                                                       *)

Change(d, p) == /\ visible /\ changes < MaxChanges
                /\ changes' = changes + 1
                /\ dlg' = d /\ picked' = p
                /\ UNCHANGED <<settings, visible, created>>

ChoosePreset(p) == p # dlg.ui.preset /\ Change(CheckPreset(dlg, p), p)

\* a bug: the rest of the dialog is not brought up to date
PipelinedOnly == Change([dlg EXCEPT !.ui.pipelined = ~@, !.config.pipelined = ~dlg.ui.pipelined,
                                    !.ui.preset = 0], 0)

pipelined_change ==
    Change(switch2custom([dlg EXCEPT !.ui.pipelined = ~@,
                                     !.config.pipelined = ~dlg.ui.pipelined]), 0)

delay_slot_change ==
    /\ dlg.ui.delay_slot_enabled
    /\ Change(switch2custom([dlg EXCEPT !.ui.delay_slot = ~@,
                                        !.config.delay_slot = ~dlg.ui.delay_slot]), 0)

\* the group box is clicked, or one of its buttons while it is checked
hazard_unit_change ==
    /\ dlg.ui.hazard_unit_enabled
    /\ \E on \in BOOLEAN, radio \in {"STALL", "STALL_FORWARD"} :
         /\ on # dlg.ui.hazard_unit => radio = dlg.ui.hazard_radio
         /\ on = dlg.ui.hazard_unit => on /\ radio # dlg.ui.hazard_radio
         /\ Change(switch2custom([dlg EXCEPT !.ui.hazard_unit = on, !.ui.hazard_radio = radio,
                                    !.config.hazard_unit = IF on THEN radio ELSE "NONE"]), 0)

TimeEdited(t, v) == v # dlg.ui[t] /\ Change(mem_time_change(TimeShown(dlg, t, v), t, v), 0)

\* the operating system options, the reset option and the two paths belong to no preset
osemu_change(f) == Change([dlg EXCEPT !.ui.osemu[f] = ~@, !.config.osemu[f] = ~dlg.ui.osemu[f]],
                          picked)

reset_at_compile_change ==
    Change([dlg EXCEPT !.ui.reset_at_compile = ~@,
                       !.config.reset_at_compile = ~dlg.ui.reset_at_compile], picked)

PathChange(field, path) == Change([dlg EXCEPT !.ui[field] = path, !.config[field] = path], picked)

\* a bug: the preset stays chosen
CacheEditQuiet(cache, field, v) ==
    Change([dlg EXCEPT !.config[cache] = SetCache(@, field, v), !.ui[cache][field] = v],
           picked)

\* NewDialogCacheHandler: enabled, numsets, blocksize, degreeassociativity, replacement, writeback
CacheEdited(cache, field, v) ==
    Change(switch2custom([dlg EXCEPT !.config[cache] = SetCache(@, field, v)]), 0)

CacheValues(field) ==
    CASE field = "enabled"     -> BOOLEAN
      [] field = "replacement" -> Policies
      [] field = "write"       -> WritePolicies
      [] OTHER                 -> CacheSizes

-----------------------------------------------------------------------------
(* The buttons.                                                              *)

\* closeEvent, with the settings as they are by then
Close(s) == /\ visible' = FALSE
            /\ dlg' = load_settings(dlg, s)
            /\ picked' = s.preset

\* create and create_empty: the machine first, then the settings; if the executable
\* cannot be read nothing happens but a message
create == /\ visible
          /\ created' = dlg.config
          /\ \E s \in {[config |-> store(dlg.config, settings.config), preset |-> dlg.ui.preset]} :
                settings' = s /\ Close(s)
          /\ UNCHANGED changes

\* closing the dialog before there is a machine closes the program
cancel == /\ visible /\ created # NoConfig
          /\ Close(settings)
          /\ UNCHANGED <<settings, created, changes>>

\* MainWindow::machine_reload makes the next machine from a copy of the configuration
reload == /\ ~visible
          /\ created' = CopyOf(created)
          /\ UNCHANGED <<dlg, settings, visible, picked, changes>>

new_machine == /\ ~visible /\ visible' = TRUE
               /\ UNCHANGED <<dlg, settings, created, picked, changes>>

DlgNext == \/ \E p \in 0 .. 4 : ChoosePreset(p)
           \/ pipelined_change \/ delay_slot_change \/ hazard_unit_change
           \/ \E t \in MemTimes, v \in Times : (t = "burst" \/ v > 0) /\ TimeEdited(t, v)
           \/ \E f \in OsFlags : osemu_change(f)
           \/ reset_at_compile_change
           \/ \E field \in {"elf", "fs_root"}, path \in {"", "p"} : PathChange(field, path)
           \/ \E cache \in {"program", "data"}, field \in CacheFields :
                \E v \in CacheValues(field) : CacheEdited(cache, field, v)
           \/ create \/ cancel \/ reload \/ new_machine

DlgSpec == DlgInit /\ [][DlgNext]_dlgvars

-----------------------------------------------------------------------------

\* The dialog shows the configuration a machine would be created from, after every
\* order of changes and however the handlers call each other (config_gui).
DialogShowsConfig ==
    LET g == Getters(dlg.config)
    IN  /\ \A f \in DOMAIN g \ {"hazard_unit"} : dlg.ui[f] = g[f]
        /\ dlg.ui.hazard_unit = (g.hazard_unit # "NONE")
        /\ dlg.ui.hazard_unit => dlg.ui.hazard_radio = g.hazard_unit
        /\ dlg.ui.delay_slot_enabled = ~g.pipelined

\* The chosen preset is the one the user picked, Custom after any change of a value a
\* preset sets: no handler called on the way undoes the choice (switch2custom).
PresetFollowsUser == dlg.ui.preset = picked

\* While a preset is chosen the configuration is that preset's: choosing it again would
\* change nothing.
PresetApplied == dlg.ui.preset # 0 => Getters(preset(dlg.config, dlg.ui.preset)) = Getters(dlg.config)

\* A closed dialog holds the configuration of the machine created last, whatever was
\* changed and cancelled or reloaded since: opening it and pressing Start makes the same
\* machine (store_settings, load_settings, machine_reload).
StoredMachineComesBack == ~visible => Getters(dlg.config) = Getters(created)

\* The widgets, the chosen preset, the stored settings and the last machine agree on one
\* configuration, however the handlers call each other (newdialog.cpp).
DialogConsistent ==
    DialogShowsConfig /\ PresetFollowsUser /\ PresetApplied /\ StoredMachineComesBack
=============================================================================
