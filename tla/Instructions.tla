---------------------------- MODULE Instructions -----------------------------
(***************************************************************************)
(* A small instruction set with every kind of entry the instruction table  *)
(* has (machine/instruction.cpp) and the ALU operations it needs           *)
(* (machine/alu.cpp).  Addresses are word numbers, so the +4 and +8 of the *)
(* code are +1 and +2 here, and a word has ValMod values.                  *)
(***************************************************************************)
EXTENDS Integers

CONSTANTS ValMod,   \* number of values of a word, 2^32 in the code
          LinkReg   \* the last register, $31 in the code

ASSUME InstructionsAssumption ==
    /\ ValMod \in Nat \ {0} /\ ValMod % 2 = 0
    /\ LinkReg \in Nat \ {0}

Val  == 0 .. (ValMod - 1)
Addr == Val
Reg  == 0 .. LinkReg

Wrap(n) == n % ValMod
\* as_i32
Signed(v) == IF v < ValMod \div 2 THEN v ELSE v - ValMod

Ops == {"NOP", "ADDI", "ADDIU", "ADDU", "MOVZ", "LW", "SW", "SC", "TEQ", "SYSCALL",
        "BEQ", "BNE", "BLEZ", "BLTZAL", "BEQL", "J", "JAL", "JR", "JALR",
        "ERET", "MFC0", "MTC0"}

Causes == {"NONE", "INT", "SYSCALL", "OVERFLOW", "TRAP", "HWBREAK"}

Instruction == [op : Ops, rs : Reg, rt : Reg, rd : Reg, imm : Val]

NopInst == [op |-> "NOP", rs |-> 0, rt |-> 0, rd |-> 0, imm |-> 0]

-----------------------------------------------------------------------------
(* The instruction table: flags, ALU operation, memory control.             *)

FLAGS_ALU_I       == {"ALUSRC", "REGWRITE", "ALU_REQ_RS"}
FLAGS_ALU_I_LOAD  == FLAGS_ALU_I \cup {"MEMREAD"}
FLAGS_ALU_I_STORE == {"ALUSRC", "MEMWRITE", "ALU_REQ_RS", "ALU_REQ_RT"}
FLAGS_ALU_T_R_D   == {"REGD", "REGWRITE"}
FLAGS_ALU_T_R_STD == FLAGS_ALU_T_R_D \cup {"ALU_REQ_RS", "ALU_REQ_RT"}
FLAGS_ALU_TRAP_ST == {"ALU_REQ_RS", "ALU_REQ_RT"}
FLAGS_J_B_PC_TO_R31 == {"PC_TO_R31", "REGWRITE"}

Entry(alu, memctl, flags) == [alu |-> alu, memctl |-> memctl, flags |-> flags]

InstructionMap ==
    [NOP     |-> Entry("SLL", "NONE", FLAGS_ALU_T_R_D \cup {"ALU_REQ_RT"}),
     ADDI    |-> Entry("ADD", "NONE", FLAGS_ALU_I),
     ADDIU   |-> Entry("ADDU", "NONE", FLAGS_ALU_I),
     ADDU    |-> Entry("ADDU", "NONE", FLAGS_ALU_T_R_STD),
     MOVZ    |-> Entry("MOVZ", "NONE", FLAGS_ALU_T_R_STD),
     LW      |-> Entry("ADDU", "U32", FLAGS_ALU_I_LOAD),
     SW      |-> Entry("ADDU", "U32", FLAGS_ALU_I_STORE),
     SC      |-> Entry("ADDU", "STORE_CONDITIONAL",
                       FLAGS_ALU_I_STORE \cup {"MEMREAD", "REGWRITE"}),
     TEQ     |-> Entry("TEQ", "NONE", FLAGS_ALU_TRAP_ST),
     SYSCALL |-> Entry("SYSCALL", "NONE", {"EXCEPTION"}),
     BEQ     |-> Entry("SLL", "NONE", {"BJR_REQ_RS", "BJR_REQ_RT", "BRANCH"}),
     BNE     |-> Entry("SLL", "NONE",
                       {"BJR_REQ_RS", "BJR_REQ_RT", "BRANCH", "BJ_NOT"}),
     BLEZ    |-> Entry("SLL", "NONE", {"BJR_REQ_RS", "BRANCH", "BGTZ_BLEZ"}),
     BLTZAL  |-> Entry("PASS_T", "NONE",
                       FLAGS_J_B_PC_TO_R31 \cup {"BJR_REQ_RS", "BRANCH"}),
     BEQL    |-> Entry("SLL", "NONE",
                       {"BJR_REQ_RS", "BJR_REQ_RT", "BRANCH", "NB_SKIP_DS"}),
     J       |-> Entry("SLL", "NONE", {"JUMP"}),
     JAL     |-> Entry("PASS_T", "NONE", FLAGS_J_B_PC_TO_R31 \cup {"JUMP"}),
     JR      |-> Entry("NOP", "NONE", {"BJR_REQ_RS", "JUMP"}),
     JALR    |-> Entry("PASS_T", "NONE",
                       {"REGD", "REGWRITE", "BJR_REQ_RS", "PC8_TO_RT", "JUMP"}),
     ERET    |-> Entry("ERET", "NONE", {"STOP_IF"}),
     MFC0    |-> Entry("MFC0", "NONE", {"REGWRITE"}),
     MTC0    |-> Entry("MTC0", "NONE", {"ALU_REQ_RT"})]

Flags == {"ALUSRC", "REGWRITE", "REGD", "MEMREAD", "MEMWRITE", "ALU_REQ_RS",
          "ALU_REQ_RT", "BJR_REQ_RS", "BJR_REQ_RT", "PC_TO_R31", "PC8_TO_RT",
          "BRANCH", "JUMP", "BJ_NOT", "BGTZ_BLEZ", "NB_SKIP_DS", "STOP_IF",
          "EXCEPTION"}
AluOps == {"NOP", "SLL", "ADD", "ADDU", "MOVZ", "PASS_T", "TEQ", "SYSCALL",
           "ERET", "MFC0", "MTC0"}
MemCtls == {"NONE", "U32", "STORE_CONDITIONAL"}

EncodedException(op) == IF op = "SYSCALL" THEN "SYSCALL" ELSE "NONE"

-----------------------------------------------------------------------------
(* The ALU.  NOP is SLL by 0 to register 0.                                 *)

AluVal(alu, s, t) ==
    IF alu \in {"ADD", "ADDU"} THEN Wrap(s + t)
    ELSE IF alu \in {"SLL", "PASS_T"} THEN t
    ELSE IF alu = "MOVZ" /\ t = 0 THEN s
    ELSE 0

AluDiscard(alu, t) == alu = "MOVZ" /\ t # 0

\* equal signs on input, a different one on output
AluOverflows(s, t) ==
    LET negative(v) == v >= ValMod \div 2
    IN  negative(s) = negative(t) /\ negative(Wrap(s + t)) # negative(s)

AluException(alu, s, t) ==
    IF alu = "ADD" /\ AluOverflows(s, t) THEN "OVERFLOW"
    ELSE IF alu = "TEQ" /\ s = t THEN "TRAP"
    ELSE "NONE"
-----------------------------------------------------------------------------
(* The programs whose meaning the architecture defines.                     *)

JumpOps == {"J", "JAL", "JR", "JALR"}
BranchOps == JumpOps \cup {"BEQ", "BEQL", "BNE", "BLEZ", "BLTZAL"}

\* the empty instruction is a shift of $0 into $0
Encodable(i) == i.op = "NOP" => i.rd = 0

\* No branch stands in the delay slot of another one.  Without delay slots ERET
\* is not used: the core would resume behind the instruction at EPC.
Regular(delay_slots, p) ==
    /\ \A a \in Addr : Encodable(p[a])
    /\ delay_slots => \A a \in Addr : p[a].op \in BranchOps => p[Wrap(a + 1)].op \notin BranchOps
    /\ ~delay_slots => \A a \in Addr : p[a].op # "ERET"

=============================================================================
