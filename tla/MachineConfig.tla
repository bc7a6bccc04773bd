---------------------------- MODULE MachineConfig ----------------------------
(***************************************************************************)
(* The configuration of a machine (machineconfig.cpp): what is set, what    *)
(* the getters make of it, presets, and the form kept in the settings.  The *)
(* memory protections are left out: nothing sets them and no machine reads  *)
(* them.                                                                    *)
(***************************************************************************)
EXTENDS Naturals, TLC

CONSTANT OsFlags     \* the boolean osemu_* options

CacheFields == {"enabled", "sets", "blocks", "assoc", "replacement", "write"}

DefaultCache == [enabled |-> FALSE, sets |-> 1, blocks |-> 1, assoc |-> 1,
                 replacement |-> "RAND", write |-> "THROUGH_NOALLOC"]

DefaultConfig ==
    [pipelined |-> FALSE, delay_slot |-> TRUE, hazard_unit |-> "STALL_FORWARD",
     read |-> 10, write |-> 10, burst |-> 0,
     osemu |-> [f \in OsFlags |-> TRUE], fs_root |-> "", reset_at_compile |-> TRUE, elf |-> "",
     program |-> DefaultCache, data |-> DefaultCache]

AtLeastOne(v) == IF v > 1 THEN v ELSE 1

\* a bug: a size is stored as it is given
SetCacheRaw(c, field, v) == [c EXCEPT ![field] = v]

\* set_set_count, set_block_size and set_associativity never store zero
SetCache(c, field, v) ==
    [c EXCEPT ![field] = IF field \in {"sets", "blocks", "assoc"} THEN AtLeastOne(v) ELSE v]

\* what every reader of the configuration sees
Getters(c) ==
    [c EXCEPT !.delay_slot = c.pipelined \/ @,
              !.hazard_unit = IF c.pipelined THEN @ ELSE "NONE",
              !.read = AtLeastOne(@), !.write = AtLeastOne(@)]

\* MachineConfig(const MachineConfig *): a copy has the getters' values
CopyOf(c) == Getters(c)

\* set_hazard_unit by name, on the command line
HazardUnitNamed == ("none" :> "NONE") @@ ("stall" :> "STALL") @@ ("forward" :> "STALL_FORWARD")
                       @@ ("stall-forward" :> "STALL_FORWARD")

\* a bug: the burst time is not stored
StoredWithoutBurst(c, settings) == [Getters(c) EXCEPT !.burst = settings.burst]

\* store and MachineConfig(const QSettings *): the settings hold the getters' values
store(c, settings) == Getters(c)

\* ConfigPresets 1 .. 4 are CP_SINGLE, CP_SINGLE_CACHE, CP_PIPE_NO_HAZARD and CP_PIPE
CachePreset(c, p) ==
    IF p \in {2, 4}
    THEN [enabled |-> TRUE, sets |-> 4, blocks |-> 2, assoc |-> 2, replacement |-> "RAND",
          write |-> "THROUGH_NOALLOC"]
    ELSE [c EXCEPT !.enabled = FALSE]

preset(c, p) ==
    [c EXCEPT !.pipelined = p \in {3, 4},
              !.delay_slot = IF p \in {1, 2} THEN TRUE ELSE @,
              !.hazard_unit = IF p = 3 THEN "NONE" ELSE IF p = 4 THEN "STALL_FORWARD" ELSE @,
              !.read = DefaultConfig.read, !.write = DefaultConfig.write,
              !.burst = DefaultConfig.burst,
              !.program = CachePreset(@, p), !.data = CachePreset(@, p)]
=============================================================================
