-------------------------------- MODULE Isa ----------------------------------
(***************************************************************************)
(* What a core promises to the program and to the debugger: instructions   *)
(* take effect one at a time and in program order.  The instruction at pc  *)
(* either completes or raises an exception and has no other effect.  A     *)
(* taken branch first lets the instruction behind it (its delay slot) run. *)
(***************************************************************************)
EXTENDS Instructions

CONSTANTS PcInit, MemImage, Breaks, Irqs, EBaseSet, Vector, StepOver,
          AllowRestart

VARIABLES program,    \* the instructions in memory
          delay_slot, \* whether branches have a delay slot
          pc,        \* the instruction to execute next
          slot,      \* where to go after it when it is in a delay slot
          gp, mem, cop0

setup == <<program, delay_slot>>
vars == <<setup, pc, slot, gp, mem, cop0>>

NoSlot == -1

Init ==
    /\ program \in [Addr -> Instruction] /\ delay_slot \in BOOLEAN
    /\ pc = PcInit /\ slot = NoSlot
    /\ gp = [r \in Reg |-> 0] /\ mem = MemImage
    /\ cop0 = [epc |-> 0, cause |-> "NONE", bd |-> FALSE, exl |-> FALSE]

I == program[pc]
S == gp[I.rs]
T == gp[I.rt]
After == IF slot = NoSlot THEN Wrap(pc + 1) ELSE slot

Set(r, v) == gp' = [gp EXCEPT ![r] = IF r = 0 THEN 0 ELSE v]

\* the instruction raises this exception by itself
Raised ==
    IF I.op = "SYSCALL" THEN "SYSCALL"
    ELSE IF I.op = "TEQ" /\ S = T THEN "TRAP"
    ELSE IF I.op = "ADDI" /\ Signed(S) + Signed(I.imm) # Signed(Wrap(S + I.imm))
         THEN "OVERFLOW"
    ELSE "NONE"

\* EPC is where to resume: the branch, for an instruction in its delay slot.
\* A breakpoint leaves the program counter there too.
Exception(cause) ==
    LET resume  == IF slot = NoSlot THEN pc ELSE Wrap(pc - 1)
        vectors == EBaseSet /\ cause \notin StepOver
    IN  /\ cause # "NONE"
        /\ cop0' = [epc |-> resume, cause |-> cause, bd |-> slot # NoSlot,
                    exl |-> cop0.exl \/ vectors]
        /\ pc' = IF vectors THEN Vector
                 ELSE IF cause = "HWBREAK" THEN resume ELSE After
        /\ slot' = NoSlot
        /\ UNCHANGED <<setup, gp, mem>>

Sequential == pc' = After /\ slot' = NoSlot

Compute ==
    /\ \/ I.op \in {"ADDI", "ADDIU"} /\ Set(I.rt, Wrap(S + I.imm))
       \/ I.op = "ADDU" /\ Set(I.rd, Wrap(S + T))
       \/ I.op = "MOVZ" /\ T = 0 /\ Set(I.rd, S)
       \/ I.op = "MOVZ" /\ T # 0 /\ UNCHANGED gp
       \/ I.op = "MFC0" /\ Set(I.rt, cop0.epc)
       \/ I.op \in {"NOP", "TEQ"} /\ UNCHANGED gp
    /\ Sequential
    /\ UNCHANGED <<setup, mem, cop0>>

Place == Wrap(S + I.imm)

Load ==
    /\ I.op = "LW"
    /\ Set(I.rt, mem[Place])
    /\ Sequential
    /\ UNCHANGED <<setup, mem, cop0>>

Store ==
    /\ I.op \in {"SW", "SC"}
    /\ mem' = [mem EXCEPT ![Place] = T]
    /\ IF I.op = "SC" THEN Set(I.rt, 1) ELSE UNCHANGED gp
    /\ Sequential
    /\ UNCHANGED <<setup, cop0>>

Taken ==
    \/ I.op \in {"J", "JAL", "JR", "JALR"}
    \/ I.op \in {"BEQ", "BEQL"} /\ S = T
    \/ I.op = "BNE" /\ S # T
    \/ I.op = "BLEZ" /\ Signed(S) <= 0
    \/ I.op = "BLTZAL" /\ Signed(S) < 0

Target == IF I.op \in {"JR", "JALR"} THEN S
          ELSE IF I.op \in {"J", "JAL"} THEN I.imm
          ELSE Wrap(pc + I.imm + 1)

Branch ==
    /\ \/ I.op \in {"JAL", "BLTZAL"} /\ Set(LinkReg, Wrap(pc + 2))
       \/ I.op = "JALR" /\ Set(I.rd, Wrap(pc + 2))
       \/ I.op \in {"J", "JR", "BEQ", "BEQL", "BNE", "BLEZ"} /\ UNCHANGED gp
    /\ IF Taken
       THEN IF delay_slot THEN pc' = After /\ slot' = Target
            ELSE pc' = Target /\ slot' = NoSlot
       ELSE /\ pc' = IF delay_slot /\ I.op = "BEQL" THEN Wrap(After + 1) ELSE After
            /\ slot' = NoSlot
    /\ UNCHANGED <<setup, mem, cop0>>

\* MTC0 writes EPC, ERET returns to it
Privileged ==
    \/ /\ I.op = "MTC0"
       /\ cop0' = [cop0 EXCEPT !.epc = T]
       /\ Sequential
       /\ UNCHANGED <<setup, gp, mem>>
    \/ /\ I.op = "ERET"
       /\ cop0' = [cop0 EXCEPT !.exl = FALSE]
       /\ pc' = cop0.epc /\ slot' = NoSlot
       /\ UNCHANGED <<setup, gp, mem>>

Completes == Compute \/ Load \/ Store \/ Branch \/ Privileged

Restart ==
    /\ AllowRestart
    /\ pc' = PcInit /\ slot' = NoSlot
    /\ gp' = [r \in Reg |-> 0] /\ mem' = MemImage
    /\ UNCHANGED <<setup, cop0>>

Next ==
    \/ IF Raised = "NONE" THEN Completes ELSE Exception(Raised)
    \/ pc \in Breaks /\ Exception("HWBREAK")
    \/ Irqs /\ ~cop0.exl /\ Exception("INT")
    \/ Restart

Spec == Init /\ [][Next]_vars
=============================================================================
