---------------------------- MODULE MCCoreSingle -----------------------------
(***************************************************************************)
(* TLC instances of the single cycle core.                                 *)
(***************************************************************************)
EXTENDS CoreSingle

INSTANCE MCCorePrograms

ASSUME RegularUse

\* one instruction for each way through the core
SingleAlphabet ==
    TrapAlphabet \ {Ins("SYSCALL", 0, 0, 0, 0), Ins("BNE", 1, 0, 0, 1), Skip}

\* Without a delay slot the handler does not return: ERET would resume behind
\* the instruction at EPC.
AllPrograms ==
    [ds \in BOOLEAN |->
        IF ds THEN ProgramsOf(SingleAlphabet, Skip, Eret)
        ELSE UNION {ProgramsOf(A, Loop, Nop) : A \in {FewJumps, FewTraps}}]

AllButInt  == Causes \ {"INT"}
SomeBreaks == {2}
=============================================================================
