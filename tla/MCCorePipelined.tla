--------------------------- MODULE MCCorePipelined ---------------------------
(***************************************************************************)
(* TLC instances of the pipelined core.                                    *)
(***************************************************************************)
EXTENDS CorePipelined

INSTANCE MCCorePrograms

ASSUME RegularUse

\* With the stalling unit only programs without exceptions: the address of the
\* branch is lost when its delay slot had to wait (handle_exception).
Hazards == ProgramsOf(HazardAlphabet, Skip, Eret) \cup ProgramsOf(JumpAlphabet, Skip, Eret)

MixedPrograms ==
    [hu \in {"HU_STALL", "HU_STALL_FORWARD"} |->
        IF hu = "HU_STALL" THEN Hazards
        ELSE Hazards \cup ProgramsOf(TrapAlphabet, Skip, Eret)]

FewPrograms == [hu \in {"HU_STALL_FORWARD"} |-> ProgramsOf(FewTraps, Skip, Eret)]

NoCauses   == {}
AllButInt  == Causes \ {"INT"}
NoBreaks   == {}
SomeBreaks == {1, 2}
=============================================================================
