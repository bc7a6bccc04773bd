--------------------------- MODULE MCCorePrograms ----------------------------
(***************************************************************************)
(* Programs for the runs of the cores: four instructions from an alphabet, *)
(* then a loop on itself, then an exception handler.                       *)
(***************************************************************************)
EXTENDS Integers, FiniteSets

CONSTANT ValMod

Ins(op, rs, rt, rd, imm) == [op |-> op, rs |-> rs, rt |-> rt, rd |-> rd, imm |-> imm]

Nop  == Ins("NOP", 0, 0, 0, 0)
Loop == Ins("J", 0, 0, 0, 4)
Eret == Ins("ERET", 0, 0, 0, 0)

Branches == {"J", "JAL", "JR", "JALR", "BEQ", "BEQL", "BNE", "BLEZ", "BLTZAL"}

\* what follows a branch neither branches nor returns from an exception
WellFormed(p) ==
    \A a \in 0 .. (ValMod - 2) :
        p[a].op \in Branches => p[a + 1].op \notin Branches \cup {"ERET"}

Laid(a, b, c, d, handler, return) ==
    [n \in 0 .. (ValMod - 1) |->
       CASE n = 0 -> a [] n = 1 -> b [] n = 2 -> c [] n = 3 -> d
         [] n = 4 -> Loop [] n = 6 -> handler [] n = 7 -> return [] OTHER -> Nop]

ProgramsOf(alphabet, handler, return) ==
    {p \in {Laid(a, b, c, d, handler, return) : a, b, c, d \in alphabet} :
        WellFormed(p)}

Data == [a \in 0 .. (ValMod - 1) |-> (a + 5) % ValMod]

\* results that are used at once, or by a branch
HazardAlphabet ==
    {Ins("ADDIU", 1, 1, 0, 1), Ins("ADDU", 1, 2, 2, 0), Ins("LW", 1, 1, 0, 1),
     Ins("LW", 0, 2, 0, 0), Ins("SW", 2, 1, 0, 0), Ins("SC", 1, 1, 0, 2),
     Ins("MOVZ", 2, 1, 1, 0), Ins("BNE", 1, 2, 0, 1), Ins("BEQL", 2, 1, 0, 1),
     Ins("BLEZ", 2, 0, 0, 2)}

\* calls and returns through registers
JumpAlphabet ==
    {Ins("ADDIU", 3, 1, 0, 1), Ins("ADDIU", 0, 3, 0, 4), Ins("LW", 1, 3, 0, 2),
     Ins("JAL", 0, 0, 0, 2), Ins("JR", 3, 0, 0, 0), Ins("JALR", 1, 0, 1, 0),
     Ins("BLTZAL", 3, 0, 0, 1), Ins("BEQ", 1, 3, 0, 1), Ins("ADDU", 3, 1, 1, 0),
     Nop}

FewJumps ==
    {Ins("ADDIU", 0, 3, 0, 4), Ins("LW", 1, 3, 0, 2), Ins("JAL", 0, 0, 0, 2),
     Ins("JR", 3, 0, 0, 0), Ins("BLTZAL", 3, 0, 0, 1), Ins("BEQL", 1, 3, 0, 1)}

\* exceptions, in and out of delay slots
TrapAlphabet ==
    {Ins("ADDI", 1, 1, 0, 3), Ins("LW", 0, 1, 0, 1), Ins("TEQ", 1, 2, 0, 0),
     Ins("SYSCALL", 0, 0, 0, 0), Ins("SW", 0, 1, 0, 3), Ins("BNE", 1, 0, 0, 1),
     Ins("BEQL", 1, 2, 0, 1), Ins("JAL", 0, 0, 0, 3), Ins("MTC0", 0, 3, 0, 0),
     Ins("MFC0", 0, 2, 0, 0)}

\* a branch, a delay slot that waits for its operand, and traps
FewTraps ==
    {Ins("LW", 0, 1, 0, 1), Ins("TEQ", 1, 2, 0, 0), Ins("BEQ", 2, 0, 0, 1),
     Ins("SW", 1, 1, 0, 0), Ins("MTC0", 0, 1, 0, 0)}

\* what an exception handler does before it returns
Skip == Ins("MFC0", 0, 2, 0, 0)
=============================================================================
