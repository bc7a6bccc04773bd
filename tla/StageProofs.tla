----------------------------- MODULE StageProofs -----------------------------
(***************************************************************************)
(* What the stages of both cores do with an instruction, for every word    *)
(* size and number of registers.                                           *)
(***************************************************************************)
EXTENDS CoreStages, TLAPS

\* Entries of the instruction table are well formed.
EntryOK(e) == e.flags \subseteq Flags /\ e.alu \in AluOps /\ e.memctl \in MemCtls

LEMMA TableType == \A op \in Ops : EntryOK(InstructionMap[op])
<1>1. TAKE op \in Ops
<1>2. CASE op \in {"NOP", "ADDI", "ADDIU", "ADDU", "MOVZ", "LW", "SW"}
  BY <1>2, SMTT(30) DEF InstructionMap, EntryOK, Entry, Flags, AluOps, MemCtls, FLAGS_ALU_I,
     FLAGS_ALU_I_LOAD, FLAGS_ALU_I_STORE, FLAGS_ALU_T_R_D, FLAGS_ALU_T_R_STD,
     FLAGS_ALU_TRAP_ST, FLAGS_J_B_PC_TO_R31
<1>3. CASE op \in {"SC", "TEQ", "SYSCALL", "BEQ", "BNE", "BLEZ", "BLTZAL"}
  BY <1>3, SMTT(30) DEF InstructionMap, EntryOK, Entry, Flags, AluOps, MemCtls, FLAGS_ALU_I,
     FLAGS_ALU_I_LOAD, FLAGS_ALU_I_STORE, FLAGS_ALU_T_R_D, FLAGS_ALU_T_R_STD,
     FLAGS_ALU_TRAP_ST, FLAGS_J_B_PC_TO_R31
<1>4. CASE op \in {"BEQL", "J", "JAL", "JR", "JALR", "ERET", "MFC0", "MTC0"}
  BY <1>4, SMTT(30) DEF InstructionMap, EntryOK, Entry, Flags, AluOps, MemCtls, FLAGS_ALU_I,
     FLAGS_ALU_I_LOAD, FLAGS_ALU_I_STORE, FLAGS_ALU_T_R_D, FLAGS_ALU_T_R_STD,
     FLAGS_ALU_TRAP_ST, FLAGS_J_B_PC_TO_R31
<1> QED BY <1>1, <1>2, <1>3, <1>4 DEF Ops

LEMMA WrapType == \A n \in Int : Wrap(n) \in Val
  BY InstructionsAssumption DEF Wrap, Val

LEMMA WrapBack ==
    ASSUME NEW a \in Val
    PROVE  Wrap(Wrap(a + 1) - 1) = a
<1>1. ValMod \in Nat /\ ValMod > 0 /\ a \in Nat /\ a < ValMod
  BY InstructionsAssumption DEF Val
<1>2. CASE a + 1 < ValMod
  <2>1. Wrap(a + 1) = a + 1 /\ Wrap(a) = a
    BY <1>1, <1>2 DEF Wrap
  <2>2. (a + 1) - 1 = a
    BY <1>1
  <2> QED
    BY <2>1, <2>2
<1>3. CASE a + 1 = ValMod
  <2>1. Wrap(a + 1) = 0
    BY <1>1, <1>3 DEF Wrap
  <2>2. (-1) % ValMod = ValMod - 1
    BY <1>1
  <2>3. Wrap(0 - 1) = ValMod - 1
    BY <2>2 DEF Wrap
  <2> QED
    BY <1>1, <1>3, <2>1, <2>3
<1> QED
  BY <1>1, <1>2, <1>3

LEMMA WrapForth ==
    ASSUME NEW a \in Val
    PROVE  Wrap(Wrap(a - 1) + 1) = a /\ Wrap(a - 1) \in Val /\ Wrap(a + 1) \in Val
<1>1. ValMod \in Nat /\ ValMod > 0 /\ a \in Nat /\ a < ValMod
  BY InstructionsAssumption DEF Val
<1>2. CASE a > 0
  <2>1. Wrap(a - 1) = a - 1 /\ Wrap(a) = a
    BY <1>1, <1>2 DEF Wrap
  <2>2. (a - 1) + 1 = a
    BY <1>1
  <2> QED
    BY <1>1, <2>1, <2>2 DEF Wrap, Val
<1>3. CASE a = 0
  <2>1. (-1) % ValMod = ValMod - 1
    BY <1>1
  <2>2. Wrap(a - 1) = ValMod - 1
    BY <1>3, <2>1 DEF Wrap
  <2>3. (ValMod - 1) + 1 = ValMod /\ Wrap(ValMod) = 0
    BY <1>1 DEF Wrap
  <2> QED
    BY <1>1, <1>3, <2>2, <2>3 DEF Wrap, Val
<1> QED
  BY <1>1, <1>2, <1>3

LEMMA Zeros == 0 \in Val /\ 0 \in Addr /\ 0 \in Reg /\ LinkReg \in Reg
               /\ Val \subseteq Int /\ Addr = Val
  BY InstructionsAssumption DEF Val, Addr, Reg

LEMMA NopType == NopInst \in Instruction
  BY Zeros DEF NopInst, Instruction, Ops

LEMMA FetchType ==
  ASSUME NEW program_ \in [Addr -> Instruction], NEW pc_ \in Addr,
         NEW skip, NEW irq, NEW c
  PROVE  Fetch(program_, pc_, skip, irq, c) \in FetchLatch
  BY DEF Fetch, FetchLatch, Causes

LEMMA FetchInitType ==
  ASSUME NEW f \in FetchLatch
  PROVE  FetchInit(f) \in FetchLatch /\ ~FetchInit(f).is_valid
  BY NopType DEF FetchInit, FetchLatch, Causes

LEMMA SlotType ==
  ASSUME NEW f \in FetchLatch, NEW b \in BOOLEAN
  PROVE  [f EXCEPT !.in_delay_slot = b] \in FetchLatch
  BY DEF FetchLatch

LEMMA DecodeType ==
  ASSUME NEW f \in FetchLatch, NEW g \in [Reg -> Val]
  PROVE  /\ Decode(f, g) \in DecodeLatch
         /\ Decode(f, g).is_valid = f.is_valid
<1> DEFINE i == f.inst
           en == InstructionMap[i.op]
<1>1. i \in Instruction /\ f.inst_addr \in Addr /\ f.excause \in Causes
      /\ f.in_delay_slot \in BOOLEAN /\ f.is_valid \in BOOLEAN
  BY DEF FetchLatch
<1>2. i.op \in Ops /\ i.rs \in Reg /\ i.rt \in Reg /\ i.rd \in Reg /\ i.imm \in Val
  BY <1>1 DEF Instruction
<1>3. en.flags \in SUBSET Flags /\ en.alu \in AluOps /\ en.memctl \in MemCtls
  BY <1>2, TableType DEF EntryOK
<1>4. ReadGp(g, i.rs) \in Val /\ ReadGp(g, i.rt) \in Val
  BY <1>2, Zeros DEF ReadGp
<1>5. Wrap(f.inst_addr + 2) \in Val
  <2>1. f.inst_addr \in Int
    BY <1>1, Zeros
  <2>2. f.inst_addr + 2 \in Int
    BY <2>1
  <2> QED BY <2>2, WrapType
<1>6. EncodedException(i.op) \in Causes
  BY DEF EncodedException, Causes
<1> HIDE DEF i, en
<1> QED
  BY <1>1, <1>2, <1>3, <1>4, <1>5, <1>6, Zeros DEF Decode, DecodeLatch, i, en

LEMMA AluTypes ==
  ASSUME NEW alu, NEW a \in Val, NEW b \in Val
  PROVE  AluVal(alu, a, b) \in Val /\ AluException(alu, a, b) \in Causes
  BY WrapType, Zeros DEF AluVal, AluException, Causes

Cop0Type == [epc : Addr, cause : Causes, bd : BOOLEAN, exl : BOOLEAN]

LEMMA ExecuteType ==
  ASSUME NEW d \in DecodeLatch, NEW c \in Cop0Type
  PROVE  /\ Execute(d, c) \in ExecuteLatch
         /\ ExecuteCop0(d, c) \in Cop0Type
         /\ \A p \in Addr : ExecutePc(d, c, p) \in Addr
<1> DEFINE t == IF "ALUSRC" \in d.flags THEN d.immediate_val ELSE d.val_rt
<1>1. /\ d.val_rs \in Val /\ d.val_rt \in Val /\ t \in Val /\ d.rwrite \in Reg
      /\ d.inst_addr \in Addr /\ d.excause \in Causes /\ d.memctl \in MemCtls
      /\ d.in_delay_slot \in BOOLEAN /\ d.is_valid \in BOOLEAN
  BY DEF DecodeLatch
<1>2. c.epc \in Val
  BY Zeros DEF Cop0Type
<1>3. AluVal(d.aluop, d.val_rs, t) \in Val /\ AluException(d.aluop, d.val_rs, t) \in Causes
  BY <1>1, AluTypes
<1>4. Execute(d, c) \in ExecuteLatch
  <2> HIDE DEF t
  <2> QED BY <1>1, <1>2, <1>3, Zeros DEF Execute, ExecuteLatch, t
<1>5. ExecuteCop0(d, c) \in Cop0Type
  BY <1>1, Zeros DEF ExecuteCop0, Cop0Type
<1>6. \A p \in Addr : ExecutePc(d, c, p) \in Addr
  BY <1>2, Zeros DEF ExecutePc
<1> QED BY <1>4, <1>5, <1>6

LEMMA ExecuteInitType ==
  ASSUME NEW e \in ExecuteLatch
  PROVE  ExecuteInit(e) \in ExecuteLatch
  BY Zeros DEF ExecuteInit, ExecuteBubble, ExecuteLatch, MemCtls, Causes

LEMMA StoredType ==
  ASSUME NEW e \in ExecuteLatch, NEW s \in [Addr -> Val]
  PROVE  Stored(e, s) \in [Addr -> Val]
  BY Zeros DEF Stored, ExecuteLatch

LEMMA MemoryType ==
  ASSUME NEW e \in ExecuteLatch, NEW s \in [Addr -> Val]
  PROVE  Memory(e, s) \in MemoryLatch
<1>1. e.alu_val \in Addr /\ e.alu_val \in Val
  BY Zeros DEF ExecuteLatch
<1>2. Stored(e, s)[e.alu_val] \in Val
  BY <1>1, StoredType
<1>3. 1 \in Val
  BY InstructionsAssumption DEF Val
<1> QED BY <1>1, <1>2, <1>3 DEF Memory, MemoryLatch, ExecuteLatch

LEMMA WritebackType ==
  ASSUME NEW m \in MemoryLatch, NEW g \in [Reg -> Val]
  PROVE  Writeback(m, g) \in [Reg -> Val]
  BY DEF Writeback, WriteGp, MemoryLatch

LEMMA HandlePcType ==
  ASSUME NEW d \in DecodeLatch, NEW p \in Addr
  PROVE  HandlePc(d, p) \in Addr /\ BranchTaken(d) \in BOOLEAN
<1>1. /\ d.val_rs \in Val /\ d.inst \in Instruction /\ d.inst.imm \in Val
      /\ d.inst_addr \in Val
  BY Zeros DEF DecodeLatch, Instruction
<1>2. Wrap((d.inst_addr + d.inst.imm) + 1) \in Val /\ Wrap(p + 1) \in Val
  <2>1. d.inst_addr \in Int /\ d.inst.imm \in Int /\ p \in Int
    BY <1>1, Zeros
  <2>2. (d.inst_addr + d.inst.imm) + 1 \in Int /\ p + 1 \in Int
    BY <2>1
  <2> QED BY <2>2, WrapType
<1>3. HandlePc(d, p) \in Val
  BY <1>1, <1>2 DEF HandlePc
<1>4. BranchTaken(d) \in BOOLEAN
  BY DEF BranchTaken
<1> QED BY <1>3, <1>4, Zeros

LEMMA HandleExceptionType ==
  ASSUME NEW m \in MemoryLatch, NEW j \in Addr, NEW n \in Addr,
         NEW c \in Cop0Type
  PROVE  /\ HandleExceptionCop0(m, j, c) \in Cop0Type
         /\ HandleExceptionPc(m, j, n) \in Addr
  BY CoreAssumption
  DEF HandleExceptionCop0, HandleExceptionPc, Epc, Cop0Type, MemoryLatch, Vectors

LEMMA FetchInitNop ==
  ASSUME NEW f \in FetchLatch
  PROVE  FetchInit(f).inst = NopInst /\ FetchInit(f).excause = "NONE"
         /\ ~FetchInit(f).is_valid
  BY DEF FetchInit, FetchLatch
-----------------------------------------------------------------------------
(* The instruction table read by columns: which instructions have a flag,  *)
(* an ALU operation or a memory access.                                    *)

FlagsOf(op) ==
    /\ "ALUSRC" \in InstructionMap[op].flags <=> op \in {"ADDI", "ADDIU", "LW", "SW", "SC"}
    /\ "REGWRITE" \in InstructionMap[op].flags <=> op \in {"NOP", "ADDI", "ADDIU", "ADDU", "MOVZ",
            "LW", "SC", "BLTZAL", "JAL", "JALR", "MFC0"}
    /\ "REGD" \in InstructionMap[op].flags <=> op \in {"NOP", "ADDU", "MOVZ", "JALR"}
    /\ "MEMREAD" \in InstructionMap[op].flags <=> op \in {"LW", "SC"}
    /\ "MEMWRITE" \in InstructionMap[op].flags <=> op \in {"SW", "SC"}
    /\ "PC_TO_R31" \in InstructionMap[op].flags <=> op \in {"BLTZAL", "JAL"}
    /\ "PC8_TO_RT" \in InstructionMap[op].flags <=> op \in {"JALR"}
    /\ "BRANCH" \in InstructionMap[op].flags <=> op \in {"BEQ", "BNE", "BLEZ", "BLTZAL", "BEQL"}
    /\ "JUMP" \in InstructionMap[op].flags <=> op \in {"J", "JAL", "JR", "JALR"}
    /\ "BJR_REQ_RS" \in InstructionMap[op].flags <=> op \in {"BEQ", "BNE", "BLEZ", "BLTZAL",
            "BEQL", "JR", "JALR"}
    /\ "BJR_REQ_RT" \in InstructionMap[op].flags <=> op \in {"BEQ", "BNE", "BEQL"}
    /\ "BJ_NOT" \in InstructionMap[op].flags <=> op \in {"BNE"}
    /\ "BGTZ_BLEZ" \in InstructionMap[op].flags <=> op \in {"BLEZ"}
    /\ "NB_SKIP_DS" \in InstructionMap[op].flags <=> op \in {"BEQL"}
    /\ "STOP_IF" \in InstructionMap[op].flags <=> op \in {"ERET"}
    /\ "EXCEPTION" \in InstructionMap[op].flags <=> op \in {"SYSCALL"}

AluOf(op) ==
    /\ InstructionMap[op].alu = "ADD" <=> op \in {"ADDI"}
    /\ InstructionMap[op].alu = "ADDU" <=> op \in {"ADDIU", "ADDU", "LW", "SW", "SC"}
    /\ InstructionMap[op].alu = "SLL" <=> op \in {"NOP", "BEQ", "BNE", "BLEZ", "BEQL", "J"}
    /\ InstructionMap[op].alu = "PASS_T" <=> op \in {"BLTZAL", "JAL", "JALR"}
    /\ InstructionMap[op].alu = "MOVZ" <=> op \in {"MOVZ"}
    /\ InstructionMap[op].alu = "TEQ" <=> op \in {"TEQ"}
    /\ InstructionMap[op].alu = "MFC0" <=> op \in {"MFC0"}
    /\ InstructionMap[op].alu = "MTC0" <=> op \in {"MTC0"}
    /\ InstructionMap[op].alu = "ERET" <=> op \in {"ERET"}

MemctlOf(op) ==
    /\ InstructionMap[op].memctl = "U32" <=> op \in {"LW", "SW"}
    /\ InstructionMap[op].memctl = "STORE_CONDITIONAL" <=> op = "SC"
    /\ InstructionMap[op].memctl = "NONE" <=> op \notin {"LW", "SW", "SC"}

LEMMA TableColumns == \A op \in Ops : FlagsOf(op) /\ AluOf(op) /\ MemctlOf(op)
<1> USE DEF FLAGS_ALU_I, FLAGS_ALU_I_LOAD, FLAGS_ALU_I_STORE, FLAGS_ALU_T_R_D, FLAGS_ALU_T_R_STD,
        FLAGS_ALU_TRAP_ST, FLAGS_J_B_PC_TO_R31
<1>0. TAKE op \in Ops
<1>1. AluOf(op) /\ MemctlOf(op)
  BY DEF InstructionMap, Entry, Ops, AluOf, MemctlOf
<1>2. CASE op = "NOP"
  BY <1>1, <1>2 DEF InstructionMap, Entry, FlagsOf
<1>3. CASE op = "ADDI"
  BY <1>1, <1>3 DEF InstructionMap, Entry, FlagsOf
<1>4. CASE op = "ADDIU"
  BY <1>1, <1>4 DEF InstructionMap, Entry, FlagsOf
<1>5. CASE op = "ADDU"
  BY <1>1, <1>5 DEF InstructionMap, Entry, FlagsOf
<1>6. CASE op = "MOVZ"
  BY <1>1, <1>6 DEF InstructionMap, Entry, FlagsOf
<1>7. CASE op = "LW"
  BY <1>1, <1>7 DEF InstructionMap, Entry, FlagsOf
<1>8. CASE op = "SW"
  BY <1>1, <1>8 DEF InstructionMap, Entry, FlagsOf
<1>9. CASE op = "SC"
  BY <1>1, <1>9 DEF InstructionMap, Entry, FlagsOf
<1>10. CASE op = "TEQ"
  BY <1>1, <1>10 DEF InstructionMap, Entry, FlagsOf
<1>11. CASE op = "SYSCALL"
  BY <1>1, <1>11 DEF InstructionMap, Entry, FlagsOf
<1>12. CASE op = "BEQ"
  BY <1>1, <1>12 DEF InstructionMap, Entry, FlagsOf
<1>13. CASE op = "BNE"
  BY <1>1, <1>13 DEF InstructionMap, Entry, FlagsOf
<1>14. CASE op = "BLEZ"
  BY <1>1, <1>14 DEF InstructionMap, Entry, FlagsOf
<1>15. CASE op = "BLTZAL"
  BY <1>1, <1>15 DEF InstructionMap, Entry, FlagsOf
<1>16. CASE op = "BEQL"
  BY <1>1, <1>16 DEF InstructionMap, Entry, FlagsOf
<1>17. CASE op = "J"
  BY <1>1, <1>17 DEF InstructionMap, Entry, FlagsOf
<1>18. CASE op = "JAL"
  BY <1>1, <1>18 DEF InstructionMap, Entry, FlagsOf
<1>19. CASE op = "JR"
  BY <1>1, <1>19 DEF InstructionMap, Entry, FlagsOf
<1>20. CASE op = "JALR"
  BY <1>1, <1>20 DEF InstructionMap, Entry, FlagsOf
<1>21. CASE op = "ERET"
  BY <1>1, <1>21 DEF InstructionMap, Entry, FlagsOf
<1>22. CASE op = "MFC0"
  BY <1>1, <1>22 DEF InstructionMap, Entry, FlagsOf
<1>23. CASE op = "MTC0"
  BY <1>1, <1>23 DEF InstructionMap, Entry, FlagsOf
<1> QED
  BY <1>2, <1>3, <1>4, <1>5, <1>6, <1>7, <1>8, <1>9, <1>10, <1>11, <1>12, <1>13,
     <1>14, <1>15, <1>16, <1>17, <1>18, <1>19, <1>20, <1>21, <1>22, <1>23 DEF Ops

-----------------------------------------------------------------------------
(* One instruction through all stages, from registers g, data memory s and *)
(* coprocessor 0 c.                                                        *)

Put(g, r, v) == [g EXCEPT ![r] = IF r = 0 THEN 0 ELSE v]

LinkOps == {"JAL", "BLTZAL", "JALR"}

LEMMA WriteGpPuts ==
    ASSUME NEW g \in [Reg -> Val], g[0] = 0, NEW r \in Reg, NEW v \in Val
    PROVE  WriteGp(g, r, v) = Put(g, r, v) /\ Put(g, r, v) \in [Reg -> Val] /\ Put(g, r, v)[0] = 0
           /\ (r = 0 => Put(g, r, v) = g)
<1>1. 0 \in Reg /\ 0 \in Val
  BY Zeros
<1> QED
  BY <1>1 DEF WriteGp, Put

LEMMA DecodeFields ==
    ASSUME NEW f \in FetchLatch, NEW g \in [Reg -> Val], g[0] = 0
    PROVE  LET i == f.inst
               d == Decode(f, g)
           IN  /\ d.inst = i /\ d.flags = InstructionMap[i.op].flags
               /\ d.aluop = InstructionMap[i.op].alu /\ d.memctl = InstructionMap[i.op].memctl
               /\ d.val_rs = g[i.rs]
               /\ d.val_rt = IF i.op \in LinkOps THEN Wrap(f.inst_addr + 2) ELSE g[i.rt]
               /\ d.immediate_val = i.imm
               /\ d.rwrite = IF i.op \in {"BLTZAL", "JAL"} THEN LinkReg
                             ELSE IF i.op \in {"NOP", "ADDU", "MOVZ", "JALR"} THEN i.rd ELSE i.rt
               /\ d.inst_addr = f.inst_addr
               /\ d.excause = IF i.op = "SYSCALL" /\ f.excause = "NONE" THEN "SYSCALL" ELSE f.excause
               /\ d.in_delay_slot = f.in_delay_slot /\ d.is_valid = f.is_valid
<1> DEFINE i == f.inst
           F == InstructionMap[i.op].flags
<1>1. i \in Instruction /\ i.op \in Ops /\ i.rs \in Reg /\ i.rt \in Reg
  BY DEF FetchLatch, Instruction
<1>2. FlagsOf(i.op)
  BY <1>1, TableColumns
<1>3. ReadGp(g, i.rs) = g[i.rs] /\ ReadGp(g, i.rt) = g[i.rt]
  BY <1>1 DEF ReadGp
<1> HIDE DEF i
<1>4. F \cap {"PC8_TO_RT", "PC_TO_R31"} # {} <=> i.op \in LinkOps
  BY <1>2 DEF FlagsOf, LinkOps
<1>5. ("PC_TO_R31" \in F <=> i.op \in {"BLTZAL", "JAL"})
      /\ ("REGD" \in F <=> i.op \in {"NOP", "ADDU", "MOVZ", "JALR"})
      /\ ("EXCEPTION" \in F <=> i.op = "SYSCALL")
  BY <1>2 DEF FlagsOf
<1> HIDE DEF F
<1> QED
  BY <1>3, <1>4, <1>5 DEF Decode, EncodedException, F, i

\* the sum overflows as a signed one exactly when the signs say so
LEMMA OverflowBySigns ==
    ASSUME NEW a \in Val, NEW b \in Val
    PROVE  AluOverflows(a, b) <=> Signed(a) + Signed(b) # Signed(Wrap(a + b))
<1> DEFINE H == ValMod \div 2
<1>1. H \in Nat /\ ValMod = 2 * H /\ H > 0 /\ ValMod \in Nat
  BY InstructionsAssumption
<1>2. a \in Nat /\ b \in Nat /\ a < 2 * H /\ b < 2 * H
  BY <1>1 DEF Val
<1>3. Wrap(a + b) = IF a + b < 2 * H THEN a + b ELSE a + b - 2 * H
  <2>1. CASE a + b < 2 * H
    <3>1. (a + b) % ValMod = a + b
      BY <1>1, <1>2, <2>1
    <3> QED
      BY <2>1, <3>1 DEF Wrap
  <2>2. CASE ~(a + b < 2 * H)
    <3> DEFINE n == a + b - 2 * H
    <3>1. n \in 0 .. (ValMod - 1) /\ a + b = n + ValMod
      BY <1>1, <1>2, <2>2
    <3> HIDE DEF n
    <3>2. (n + ValMod) % ValMod = n
      BY <1>1, <3>1
    <3>3. Wrap(a + b) = n
      BY <3>1, <3>2 DEF Wrap
    <3> QED
      BY <2>2, <3>3 DEF n
  <2> QED
    BY <2>1, <2>2
<1> DEFINE w == Wrap(a + b)
<1>4. /\ AluOverflows(a, b) <=> ((a >= H) = (b >= H) /\ (w >= H) # (a >= H))
      /\ Signed(a) = IF a < H THEN a ELSE a - 2 * H
      /\ Signed(b) = IF b < H THEN b ELSE b - 2 * H
      /\ Signed(w) = IF w < H THEN w ELSE w - 2 * H
  BY <1>1 DEF AluOverflows, Signed
<1>5. w \in Int /\ w = IF a + b < 2 * H THEN a + b ELSE a + b - 2 * H
  BY <1>1, <1>2, <1>3
<1> HIDE DEF H, w
<1>6. AluOverflows(a, b) <=> Signed(a) + Signed(b) # Signed(w)
  <2>1. AluOverflows(a, b) <=> (((a >= H) <=> (b >= H)) /\ ~((w >= H) <=> (a >= H)))
    BY <1>4
  <2>2. CASE a < H /\ b < H
    BY <1>1, <1>2, <1>4, <1>5, <2>1, <2>2
  <2>3. CASE a < H /\ ~(b < H)
    BY <1>1, <1>2, <1>4, <1>5, <2>1, <2>3
  <2>4. CASE ~(a < H) /\ b < H
    BY <1>1, <1>2, <1>4, <1>5, <2>1, <2>4
  <2>5. CASE ~(a < H) /\ ~(b < H)
    BY <1>1, <1>2, <1>4, <1>5, <2>1, <2>5
  <2> QED
    BY <2>2, <2>3, <2>4, <2>5
<1> QED
  BY <1>6 DEF w

\* the exception that the instruction raises by itself
Raises(i, g) ==
    IF i.op = "SYSCALL" THEN "SYSCALL"
    ELSE IF i.op = "TEQ" /\ g[i.rs] = g[i.rt] THEN "TRAP"
    ELSE IF i.op = "ADDI" /\ Signed(g[i.rs]) + Signed(i.imm) # Signed(Wrap(g[i.rs] + i.imm))
         THEN "OVERFLOW"
    ELSE "NONE"

\* the second operand of the ALU
LEMMA Operands ==
    ASSUME NEW f \in FetchLatch, NEW g \in [Reg -> Val], g[0] = 0
    PROVE  LET i == f.inst IN
           /\ i \in Instruction /\ i.op \in Ops /\ i.imm \in Val
           /\ i.rs \in Reg /\ i.rt \in Reg /\ i.rd \in Reg
           /\ g[i.rs] \in Val /\ g[i.rt] \in Val
           /\ f.inst_addr \in Addr /\ f.excause \in Causes /\ Wrap(f.inst_addr + 2) \in Val
           /\ Wrap(g[i.rs] + i.imm) \in Val /\ Wrap(g[i.rs] + g[i.rt]) \in Val
<1>1. /\ f.inst \in Instruction /\ f.inst.op \in Ops /\ f.inst.imm \in Val
      /\ f.inst.rs \in Reg /\ f.inst.rt \in Reg /\ f.inst.rd \in Reg
      /\ f.inst_addr \in Addr /\ f.excause \in Causes
  BY DEF FetchLatch, Instruction
<1>2. g[f.inst.rs] \in Val /\ g[f.inst.rt] \in Val
  BY <1>1
<1>3. /\ f.inst_addr + 2 \in Int /\ g[f.inst.rs] + f.inst.imm \in Int
      /\ g[f.inst.rs] + g[f.inst.rt] \in Int
  <2>1. f.inst_addr \in Int /\ f.inst.imm \in Int /\ g[f.inst.rs] \in Int /\ g[f.inst.rt] \in Int
    BY <1>1, <1>2, Zeros
  <2> QED
    BY <2>1
<1> QED
  BY <1>1, <1>2, <1>3, WrapType

LEMMA ExecuteRaises ==
    ASSUME NEW f \in FetchLatch, NEW g \in [Reg -> Val], g[0] = 0, NEW c
    PROVE  Execute(Decode(f, g), c).excause =
               IF f.excause = "NONE" THEN Raises(f.inst, g) ELSE f.excause
<1> DEFINE i == f.inst
           d == Decode(f, g)
           t == IF "ALUSRC" \in d.flags THEN d.immediate_val ELSE d.val_rt
<1>1. Execute(d, c).excause =
        IF d.excause = "NONE" THEN AluException(d.aluop, d.val_rs, t) ELSE d.excause
  BY DEF Execute
<1>2. /\ d.flags = InstructionMap[i.op].flags /\ d.aluop = InstructionMap[i.op].alu
      /\ d.val_rs = g[i.rs] /\ d.immediate_val = i.imm
      /\ d.val_rt = IF i.op \in LinkOps THEN Wrap(f.inst_addr + 2) ELSE g[i.rt]
      /\ d.excause = IF i.op = "SYSCALL" /\ f.excause = "NONE" THEN "SYSCALL" ELSE f.excause
  BY DecodeFields
<1>3. i.op \in Ops /\ i.imm \in Val /\ g[i.rs] \in Val
  BY Operands
<1>4. FlagsOf(i.op) /\ AluOf(i.op)
  BY <1>3, TableColumns
<1> HIDE DEF d, i
<1>5. d.aluop = "ADD" => t = i.imm
  BY <1>2, <1>4 DEF FlagsOf, AluOf
<1>6. d.aluop = "TEQ" => t = g[i.rt]
  BY <1>2, <1>4 DEF FlagsOf, AluOf, LinkOps
<1>7. (d.aluop = "ADD" <=> i.op = "ADDI") /\ (d.aluop = "TEQ" <=> i.op = "TEQ")
  BY <1>2, <1>4 DEF AluOf
<1>8. AluOverflows(g[i.rs], i.imm) <=>
        Signed(g[i.rs]) + Signed(i.imm) # Signed(Wrap(g[i.rs] + i.imm))
  BY <1>3, OverflowBySigns
<1> HIDE DEF t
<1>9. CASE f.excause # "NONE"
  BY <1>1, <1>2, <1>9 DEF d
<1>10. CASE f.excause = "NONE" /\ i.op = "SYSCALL"
  BY <1>1, <1>2, <1>10 DEF d, i, Raises
<1>11. CASE f.excause = "NONE" /\ i.op # "SYSCALL"
  <2>1. Execute(d, c).excause = AluException(d.aluop, g[i.rs], t)
    BY <1>1, <1>2, <1>11
  <2>2. Execute(d, c).excause = Raises(i, g)
    BY <1>5, <1>6, <1>7, <1>8, <1>11, <2>1 DEF AluException, Raises
  <2> QED
    BY <1>11, <2>2 DEF d, i
<1> QED
  BY <1>9, <1>10, <1>11

\* An instruction with an exception changes neither registers nor memory.
LEMMA FaultyEffect ==
    ASSUME NEW e \in ExecuteLatch, NEW g, NEW s, e.excause # "NONE"
    PROVE  /\ Writeback(Memory(e, s), g) = g
           /\ Stored(e, s) = s
           /\ Memory(e, s).excause = e.excause
BY DEF Writeback, Memory, Stored

LEMMA ExecuteFields ==
    ASSUME NEW f \in FetchLatch, NEW g \in [Reg -> Val], g[0] = 0, NEW c \in Cop0Type,
           f.excause = "NONE", Raises(f.inst, g) = "NONE"
    PROVE  LET i == f.inst
               e == Execute(Decode(f, g), c)
           IN  /\ e \in ExecuteLatch /\ e.excause = "NONE"
               /\ e.memread <=> i.op \in {"LW", "SC"}
               /\ e.memwrite <=> i.op \in {"SW", "SC"}
               /\ e.regwrite <=> \/ i.op \in {"NOP", "ADDI", "ADDIU", "ADDU", "LW", "SC", "MFC0"} \cup LinkOps
                                 \/ i.op = "MOVZ" /\ g[i.rt] = 0
               /\ e.memctl = InstructionMap[i.op].memctl
               /\ e.stop_if <=> i.op = "ERET"
               /\ i.op \in {"ADDI", "ADDIU", "LW", "SW", "SC"} => e.alu_val = Wrap(g[i.rs] + i.imm)
               /\ i.op = "ADDU" => e.alu_val = Wrap(g[i.rs] + g[i.rt])
               /\ i.op = "MOVZ" /\ g[i.rt] = 0 => e.alu_val = g[i.rs]
               /\ i.op \in LinkOps => e.alu_val = Wrap(f.inst_addr + 2)
               /\ i.op = "MFC0" => e.alu_val = c.epc
               /\ i.op \in {"SW", "SC"} => e.val_rt = g[i.rt]
               /\ e.rwrite = Decode(f, g).rwrite /\ e.inst_addr = f.inst_addr
               /\ e.in_delay_slot = f.in_delay_slot
<1> DEFINE i == f.inst
           d == Decode(f, g)
           e == Execute(d, c)
           t == IF "ALUSRC" \in d.flags THEN d.immediate_val ELSE d.val_rt
<1>1. /\ d.flags = InstructionMap[i.op].flags /\ d.aluop = InstructionMap[i.op].alu
      /\ d.memctl = InstructionMap[i.op].memctl
      /\ d.val_rs = g[i.rs] /\ d.immediate_val = i.imm
      /\ d.val_rt = IF i.op \in LinkOps THEN Wrap(f.inst_addr + 2) ELSE g[i.rt]
      /\ d.excause = IF i.op = "SYSCALL" /\ f.excause = "NONE" THEN "SYSCALL" ELSE f.excause
      /\ d.inst_addr = f.inst_addr /\ d.in_delay_slot = f.in_delay_slot
  BY DecodeFields
<1>2. i.op \in Ops
  BY Operands
<1>3. FlagsOf(i.op) /\ AluOf(i.op)
  BY <1>2, TableColumns
<1>4. i.op # "SYSCALL" /\ d.excause = "NONE"
  BY <1>1 DEF Raises
<1>5. e \in ExecuteLatch
  BY DecodeType, ExecuteType
<1>6. e.excause = "NONE"
  BY ExecuteRaises
<1>7. /\ e.memread = ("MEMREAD" \in d.flags) /\ e.memwrite = ("MEMWRITE" \in d.flags)
      /\ e.regwrite = ("REGWRITE" \in d.flags /\ ~AluDiscard(d.aluop, t))
      /\ e.memctl = d.memctl /\ e.val_rt = d.val_rt /\ e.rwrite = d.rwrite
      /\ e.alu_val = IF d.aluop = "MFC0" THEN c.epc ELSE AluVal(d.aluop, d.val_rs, t)
      /\ e.stop_if = ("STOP_IF" \in d.flags)
      /\ e.inst_addr = d.inst_addr /\ e.in_delay_slot = d.in_delay_slot
  BY <1>4 DEF Execute
<1> HIDE DEF d, e, i
<1>8. t = IF i.op \in {"ADDI", "ADDIU", "LW", "SW", "SC"} THEN i.imm ELSE d.val_rt
  BY <1>1, <1>3 DEF FlagsOf
<1> HIDE DEF t
<1>9. (e.memread <=> i.op \in {"LW", "SC"}) /\ (e.memwrite <=> i.op \in {"SW", "SC"})
      /\ (e.stop_if <=> i.op = "ERET")
  BY <1>1, <1>3, <1>7 DEF FlagsOf
<1>10. AluDiscard(d.aluop, t) <=> i.op = "MOVZ" /\ g[i.rt] # 0
  BY <1>1, <1>3, <1>8 DEF AluOf, AluDiscard, LinkOps
<1>11. e.regwrite <=> \/ i.op \in {"NOP", "ADDI", "ADDIU", "ADDU", "LW", "SC", "MFC0"} \cup LinkOps
                      \/ i.op = "MOVZ" /\ g[i.rt] = 0
  <2>1. "REGWRITE" \in d.flags <=> i.op \in {"NOP", "ADDI", "ADDIU", "ADDU", "MOVZ", "LW", "SC",
                                            "BLTZAL", "JAL", "JALR", "MFC0"}
    BY <1>1, <1>3 DEF FlagsOf
  <2> QED
    BY <1>7, <1>10, <2>1 DEF LinkOps
<1>12. i.op \in {"ADDI", "ADDIU", "LW", "SW", "SC"} => e.alu_val = Wrap(g[i.rs] + i.imm)
  BY <1>1, <1>3, <1>7, <1>8 DEF AluOf, AluVal
<1>13. i.op = "ADDU" => e.alu_val = Wrap(g[i.rs] + g[i.rt])
  BY <1>1, <1>3, <1>7, <1>8 DEF AluOf, AluVal, LinkOps
<1>14. i.op = "MOVZ" /\ g[i.rt] = 0 => e.alu_val = g[i.rs]
  BY <1>1, <1>3, <1>7, <1>8 DEF AluOf, AluVal, LinkOps
<1>15. i.op \in LinkOps => e.alu_val = Wrap(f.inst_addr + 2)
  BY <1>1, <1>3, <1>7, <1>8 DEF AluOf, AluVal, LinkOps
<1>16. i.op = "MFC0" => e.alu_val = c.epc
  BY <1>1, <1>3, <1>7 DEF AluOf
<1>17. i.op \in {"SW", "SC"} => e.val_rt = g[i.rt]
  BY <1>1, <1>7 DEF LinkOps
<1>18. e.memctl = InstructionMap[i.op].memctl /\ e.rwrite = d.rwrite
       /\ e.inst_addr = f.inst_addr /\ e.in_delay_slot = f.in_delay_slot
  BY <1>1, <1>7
<1> QED
  BY <1>5, <1>6, <1>9, <1>11, <1>12, <1>13, <1>14, <1>15, <1>16, <1>17, <1>18 DEF d, e, i

\* What an instruction without an exception does to the memory.
LEMMA PlainStored ==
    ASSUME NEW f \in FetchLatch, NEW g \in [Reg -> Val], g[0] = 0, NEW c \in Cop0Type, NEW s,
           f.excause = "NONE", Raises(f.inst, g) = "NONE"
    PROVE  LET i == f.inst IN
           Stored(Execute(Decode(f, g), c), s) =
               IF i.op \in {"SW", "SC"} THEN [s EXCEPT ![Wrap(g[i.rs] + i.imm)] = g[i.rt]] ELSE s
<1> DEFINE i == f.inst
           e == Execute(Decode(f, g), c)
<1>1. /\ e.excause = "NONE" /\ (e.memwrite <=> i.op \in {"SW", "SC"})
      /\ e.memctl = InstructionMap[i.op].memctl
      /\ i.op \in {"ADDI", "ADDIU", "LW", "SW", "SC"} => e.alu_val = Wrap(g[i.rs] + i.imm)
      /\ i.op \in {"SW", "SC"} => e.val_rt = g[i.rt]
  BY ExecuteFields
<1>2. MemctlOf(i.op)
  BY Operands, TableColumns
<1> HIDE DEF i, e
<1>3. e.memctl = "NONE" <=> i.op \notin {"LW", "SW", "SC"}
  BY <1>1, <1>2 DEF MemctlOf
<1>4. Stored(e, s) = IF i.op \in {"SW", "SC"} THEN [s EXCEPT ![Wrap(g[i.rs] + i.imm)] = g[i.rt]] ELSE s
  <2>1. CASE i.op \in {"SW", "SC"}
    <3>1. e.excause = "NONE" /\ e.memctl # "NONE" /\ e.memwrite
      BY <1>1, <1>3, <2>1
    <3>2. e.alu_val = Wrap(g[i.rs] + i.imm) /\ e.val_rt = g[i.rt]
      BY <1>1, <2>1
    <3> QED
      BY <2>1, <3>1, <3>2 DEF Stored
  <2>2. CASE i.op \notin {"SW", "SC"}
    <3>1. ~e.memwrite
      BY <1>1, <2>2
    <3> QED
      BY <2>2, <3>1 DEF Stored
  <2> QED
    BY <2>1, <2>2
<1> QED
  BY <1>4 DEF i, e

\* What it does to the registers.
Result(i, addr, g, s, c) ==
    IF i.op \in {"ADDI", "ADDIU"} THEN Put(g, i.rt, Wrap(g[i.rs] + i.imm))
    ELSE IF i.op = "ADDU" THEN Put(g, i.rd, Wrap(g[i.rs] + g[i.rt]))
    ELSE IF i.op = "MOVZ" /\ g[i.rt] = 0 THEN Put(g, i.rd, g[i.rs])
    ELSE IF i.op = "MFC0" THEN Put(g, i.rt, c.epc)
    ELSE IF i.op = "LW" THEN Put(g, i.rt, s[Wrap(g[i.rs] + i.imm)])
    ELSE IF i.op = "SC" THEN Put(g, i.rt, 1)
    ELSE IF i.op \in {"JAL", "BLTZAL"} THEN Put(g, LinkReg, Wrap(addr + 2))
    ELSE IF i.op = "JALR" THEN Put(g, i.rd, Wrap(addr + 2))
    ELSE g

LEMMA PlainMemory ==
    ASSUME NEW f \in FetchLatch, NEW g \in [Reg -> Val], g[0] = 0, NEW c \in Cop0Type,
           NEW s \in [Addr -> Val], f.excause = "NONE", Raises(f.inst, g) = "NONE"
    PROVE  LET i == f.inst
               e == Execute(Decode(f, g), c)
               m == Memory(e, s)
           IN  /\ m \in MemoryLatch /\ m.excause = "NONE"
               /\ m.regwrite = e.regwrite /\ m.rwrite = e.rwrite
               /\ m.stop_if <=> i.op = "ERET"
               /\ m.inst_addr = f.inst_addr /\ m.in_delay_slot = f.in_delay_slot
               /\ i.op = "SC" => m.towrite_val = 1
               /\ i.op = "LW" => m.towrite_val = s[Wrap(g[i.rs] + i.imm)]
               /\ i.op \notin {"LW", "SC"} => m.towrite_val = e.alu_val
<1> DEFINE i == f.inst
           e == Execute(Decode(f, g), c)
           m == Memory(e, s)
<1>1. /\ e \in ExecuteLatch /\ e.excause = "NONE"
      /\ e.memread <=> i.op \in {"LW", "SC"}
      /\ e.memwrite <=> i.op \in {"SW", "SC"}
      /\ e.memctl = InstructionMap[i.op].memctl
      /\ e.stop_if <=> i.op = "ERET"
      /\ i.op \in {"ADDI", "ADDIU", "LW", "SW", "SC"} => e.alu_val = Wrap(g[i.rs] + i.imm)
      /\ e.inst_addr = f.inst_addr /\ e.in_delay_slot = f.in_delay_slot
  BY ExecuteFields
<1>2. MemctlOf(i.op)
  BY Operands, TableColumns
<1>3. m \in MemoryLatch
  <2> HIDE DEF e
  <2> QED
    BY <1>1, MemoryType
<1>4. Stored(e, s) = IF i.op \in {"SW", "SC"} THEN [s EXCEPT ![Wrap(g[i.rs] + i.imm)] = g[i.rt]] ELSE s
  BY PlainStored
<1> HIDE DEF i, e
<1>5. /\ e.memctl = "NONE" <=> i.op \notin {"LW", "SW", "SC"}
      /\ e.memctl = "STORE_CONDITIONAL" <=> i.op = "SC"
  BY <1>1, <1>2 DEF MemctlOf
<1>6. /\ m.excause = "NONE" /\ m.rwrite = e.rwrite /\ m.inst_addr = e.inst_addr
      /\ m.in_delay_slot = e.in_delay_slot /\ m.stop_if = e.stop_if
      /\ m.towrite_val =
             IF e.memctl = "STORE_CONDITIONAL" /\ e.memwrite THEN 1
             ELSE IF e.memctl # "NONE" /\ e.memread THEN Stored(e, s)[e.alu_val]
             ELSE e.alu_val
  BY <1>1 DEF Memory
<1>7. m.regwrite = e.regwrite
  BY <1>1 DEF Memory, ExecuteLatch
<1> HIDE DEF m
<1>8. i.op = "SC" => m.towrite_val = 1
  BY <1>1, <1>5, <1>6
<1>9. i.op = "LW" => m.towrite_val = s[Wrap(g[i.rs] + i.imm)]
  BY <1>1, <1>4, <1>5, <1>6
<1>10. i.op \notin {"LW", "SC"} => m.towrite_val = e.alu_val
  BY <1>1, <1>5, <1>6
<1> QED
  BY <1>1, <1>3, <1>6, <1>7, <1>8, <1>9, <1>10 DEF i, e, m

LEMMA PlainResult ==
    ASSUME NEW f \in FetchLatch, NEW g \in [Reg -> Val], g[0] = 0, NEW c \in Cop0Type,
           NEW s \in [Addr -> Val], f.excause = "NONE", Raises(f.inst, g) = "NONE",
           Encodable(f.inst)
    PROVE  LET w == Writeback(Memory(Execute(Decode(f, g), c), s), g)
           IN  w = Result(f.inst, f.inst_addr, g, s, c) /\ w \in [Reg -> Val] /\ w[0] = 0
<1> DEFINE i == f.inst
           e == Execute(Decode(f, g), c)
           m == Memory(e, s)
           w == Writeback(m, g)
           v == m.towrite_val
<1>1. /\ m \in MemoryLatch /\ m.regwrite = e.regwrite /\ m.rwrite = e.rwrite
      /\ i.op = "SC" => v = 1
      /\ i.op = "LW" => v = s[Wrap(g[i.rs] + i.imm)]
      /\ i.op \notin {"LW", "SC"} => v = e.alu_val
  BY PlainMemory
<1>2. /\ e.regwrite <=> \/ i.op \in {"NOP", "ADDI", "ADDIU", "ADDU", "LW", "SC", "MFC0"} \cup LinkOps
                        \/ i.op = "MOVZ" /\ g[i.rt] = 0
      /\ i.op \in {"ADDI", "ADDIU", "LW", "SW", "SC"} => e.alu_val = Wrap(g[i.rs] + i.imm)
      /\ i.op = "ADDU" => e.alu_val = Wrap(g[i.rs] + g[i.rt])
      /\ i.op = "MOVZ" /\ g[i.rt] = 0 => e.alu_val = g[i.rs]
      /\ i.op \in LinkOps => e.alu_val = Wrap(f.inst_addr + 2)
      /\ i.op = "MFC0" => e.alu_val = c.epc
      /\ e.rwrite = Decode(f, g).rwrite
  BY ExecuteFields
<1>3. m.rwrite = IF i.op \in {"BLTZAL", "JAL"} THEN LinkReg
                 ELSE IF i.op \in {"NOP", "ADDU", "MOVZ", "JALR"} THEN i.rd ELSE i.rt
  BY <1>1, <1>2, DecodeFields
<1>4. m.rwrite \in Reg /\ v \in Val
  BY <1>1 DEF MemoryLatch
<1> HIDE DEF i, e, m
<1>5. w = IF m.regwrite THEN Put(g, m.rwrite, v) ELSE g
  BY <1>4, WriteGpPuts DEF Writeback
<1>6. w \in [Reg -> Val] /\ w[0] = 0
  BY <1>4, <1>5, WriteGpPuts
<1> HIDE DEF w, v
<1>7. w = Result(i, f.inst_addr, g, s, c)
  <2>1. CASE i.op \in {"ADDI", "ADDIU"}
    BY <1>1, <1>2, <1>3, <1>5, <2>1 DEF Result
  <2>2. CASE i.op \in {"ADDU", "MFC0"}
    BY <1>1, <1>2, <1>3, <1>5, <2>2 DEF Result
  <2>3. CASE i.op = "MOVZ"
    BY <1>1, <1>2, <1>3, <1>5, <2>3 DEF Result, LinkOps
  <2>4. CASE i.op \in {"LW", "SC"}
    BY <1>1, <1>2, <1>3, <1>5, <2>4 DEF Result
  <2>5. CASE i.op \in LinkOps
    BY <1>1, <1>2, <1>3, <1>5, <2>5 DEF Result, LinkOps
  <2>6. CASE i.op = "NOP"
    <3>1. m.rwrite = 0
      BY <1>3, <2>6 DEF Encodable, i
    <3>2. Put(g, m.rwrite, v) = g
      BY <1>4, <3>1, WriteGpPuts
    <3> QED
      BY <1>5, <2>6, <3>2 DEF Result
  <2>7. CASE i.op \notin {"ADDI", "ADDIU", "ADDU", "MFC0", "MOVZ", "LW", "SC", "NOP"} \cup LinkOps
    <3>1. ~m.regwrite
      BY <1>1, <1>2, <2>7
    <3> QED
      BY <1>5, <2>7, <3>1 DEF Result, LinkOps
  <2> QED
    BY <2>1, <2>2, <2>3, <2>4, <2>5, <2>6, <2>7
<1> QED
  BY <1>6, <1>7 DEF i, e, m, w

\* where the branch i at address a goes, and whether it does
Takes(i, g) ==
    \/ i.op \in JumpOps
    \/ i.op \in {"BEQ", "BEQL"} /\ g[i.rs] = g[i.rt]
    \/ i.op = "BNE" /\ g[i.rs] # g[i.rt]
    \/ i.op = "BLEZ" /\ Signed(g[i.rs]) <= 0
    \/ i.op = "BLTZAL" /\ Signed(g[i.rs]) < 0

GoesTo(i, a, g) ==
    IF i.op \in {"JR", "JALR"} THEN g[i.rs]
    ELSE IF i.op \in {"J", "JAL"} THEN i.imm
    ELSE Wrap(a + i.imm + 1)

\* Which branches are taken, and where they lead.
LEMMA BranchResolved ==
    ASSUME NEW f \in FetchLatch, NEW g \in [Reg -> Val], g[0] = 0, NEW p
    PROVE  LET i == f.inst
               d == Decode(f, g)
           IN  /\ BranchTaken(d) <=> \/ i.op \in JumpOps
                                     \/ i.op \in {"BEQ", "BEQL"} /\ g[i.rs] = g[i.rt]
                                     \/ i.op = "BNE" /\ g[i.rs] # g[i.rt]
                                     \/ i.op = "BLEZ" /\ Signed(g[i.rs]) <= 0
                                     \/ i.op = "BLTZAL" /\ Signed(g[i.rs]) < 0
               /\ HandlePc(d, p) = IF i.op \in {"JR", "JALR"} THEN g[i.rs]
                                   ELSE IF i.op \in {"J", "JAL"} THEN i.imm
                                   ELSE IF BranchTaken(d) THEN Wrap(f.inst_addr + i.imm + 1)
                                   ELSE Wrap(p + 1)
               /\ "NB_SKIP_DS" \in d.flags <=> i.op = "BEQL"
<1> DEFINE i == f.inst
           d == Decode(f, g)
<1>1. /\ d.flags = InstructionMap[i.op].flags /\ d.val_rs = g[i.rs] /\ d.inst = i
      /\ d.val_rt = IF i.op \in LinkOps THEN Wrap(f.inst_addr + 2) ELSE g[i.rt]
      /\ d.inst_addr = f.inst_addr
  BY DecodeFields
<1>2. FlagsOf(i.op)
  BY Operands, TableColumns
<1> HIDE DEF d, i
<1>3. /\ "JUMP" \in d.flags <=> i.op \in JumpOps
      /\ "BRANCH" \in d.flags <=> i.op \in {"BEQ", "BNE", "BLEZ", "BLTZAL", "BEQL"}
      /\ "BJ_NOT" \in d.flags <=> i.op = "BNE"
      /\ "BJR_REQ_RT" \in d.flags <=> i.op \in {"BEQ", "BNE", "BEQL"}
      /\ "BGTZ_BLEZ" \in d.flags <=> i.op = "BLEZ"
      /\ "NB_SKIP_DS" \in d.flags <=> i.op = "BEQL"
      /\ i.op \in JumpOps => ("BJR_REQ_RS" \in d.flags <=> i.op \in {"JR", "JALR"})
  BY <1>1, <1>2 DEF FlagsOf, JumpOps
<1>4. BranchTaken(d) <=> \/ i.op \in JumpOps
                         \/ i.op \in {"BEQ", "BEQL"} /\ g[i.rs] = g[i.rt]
                         \/ i.op = "BNE" /\ g[i.rs] # g[i.rt]
                         \/ i.op = "BLEZ" /\ Signed(g[i.rs]) <= 0
                         \/ i.op = "BLTZAL" /\ Signed(g[i.rs]) < 0
  <2>1. CASE i.op \in {"BEQ", "BEQL", "BNE"}
    BY <1>1, <1>3, <2>1 DEF BranchTaken, JumpOps, LinkOps
  <2>2. CASE i.op \in {"BLEZ", "BLTZAL"}
    BY <1>1, <1>3, <2>2 DEF BranchTaken, JumpOps
  <2>3. CASE i.op \notin {"BEQ", "BEQL", "BNE", "BLEZ", "BLTZAL"}
    BY <1>1, <1>3, <2>3 DEF BranchTaken, JumpOps
  <2> QED
    BY <2>1, <2>2, <2>3
<1>5. HandlePc(d, p) = IF i.op \in {"JR", "JALR"} THEN g[i.rs]
                       ELSE IF i.op \in {"J", "JAL"} THEN i.imm
                       ELSE IF BranchTaken(d) THEN Wrap(f.inst_addr + i.imm + 1)
                       ELSE Wrap(p + 1)
  BY <1>1, <1>3 DEF HandlePc, JumpOps
<1> QED
  BY <1>3, <1>4, <1>5 DEF d, i

\* What it does to coprocessor 0.
LEMMA Cop0Effect ==
    ASSUME NEW f \in FetchLatch, NEW g \in [Reg -> Val], g[0] = 0, NEW c, NEW p
    PROVE  LET i == f.inst
               d == Decode(f, g)
           IN  /\ ExecuteCop0(d, c) =
                    IF f.excause = "NONE" /\ i.op = "MTC0" THEN [c EXCEPT !.epc = g[i.rt]]
                    ELSE IF f.excause = "NONE" /\ i.op = "ERET" THEN [c EXCEPT !.exl = FALSE]
                    ELSE c
               /\ ExecutePc(d, c, p) = IF f.excause = "NONE" /\ i.op = "ERET" THEN c.epc ELSE p
<1> DEFINE i == f.inst
           d == Decode(f, g)
<1>1. /\ d.aluop = InstructionMap[i.op].alu
      /\ d.val_rt = IF i.op \in LinkOps THEN Wrap(f.inst_addr + 2) ELSE g[i.rt]
      /\ d.excause = IF i.op = "SYSCALL" /\ f.excause = "NONE" THEN "SYSCALL" ELSE f.excause
  BY DecodeFields
<1>2. AluOf(i.op)
  BY Operands, TableColumns
<1> HIDE DEF d, i
<1>3. (d.aluop = "MTC0" <=> i.op = "MTC0") /\ (d.aluop = "ERET" <=> i.op = "ERET")
  BY <1>1, <1>2 DEF AluOf
<1>4. (d.excause = "NONE" /\ d.aluop = "MTC0" <=> f.excause = "NONE" /\ i.op = "MTC0")
      /\ (d.excause = "NONE" /\ d.aluop = "ERET" <=> f.excause = "NONE" /\ i.op = "ERET")
  BY <1>1, <1>3
<1>5. i.op = "MTC0" => d.val_rt = g[i.rt]
  BY <1>1 DEF LinkOps
<1> QED
  BY <1>4, <1>5 DEF ExecuteCop0, ExecutePc, d, i

-----------------------------------------------------------------------------
(* Two decoded latches that differ only in the value of operands which the *)
(* instruction does not need.                                              *)

NeedsRs(d) == d.flags \cap {"ALU_REQ_RS", "BJR_REQ_RS"} # {}
NeedsRt(d) == d.flags \cap {"ALU_REQ_RT", "BJR_REQ_RT", "PC8_TO_RT", "PC_TO_R31"} # {}

Agrees(d, x) ==
    /\ d.inst = x.inst /\ d.flags = x.flags /\ d.aluop = x.aluop /\ d.memctl = x.memctl
    /\ d.immediate_val = x.immediate_val /\ d.rwrite = x.rwrite
    /\ d.inst_addr = x.inst_addr /\ d.excause = x.excause
    /\ d.in_delay_slot = x.in_delay_slot /\ d.is_valid = x.is_valid
    /\ NeedsRs(x) => d.val_rs = x.val_rs
    /\ NeedsRt(x) => d.val_rt = x.val_rt

LEMMA NeededOperands ==
    ASSUME NEW op \in Ops, NEW x, x.flags = InstructionMap[op].flags
    PROVE  /\ NeedsRs(x) <=> op \in {"ADDI", "ADDIU", "ADDU", "MOVZ", "LW", "SW", "SC", "TEQ",
                                     "BEQ", "BNE", "BLEZ", "BLTZAL", "BEQL", "JR", "JALR"}
           /\ NeedsRt(x) <=> op \in {"NOP", "ADDU", "MOVZ", "SW", "SC", "TEQ", "MTC0",
                                     "BEQ", "BNE", "BEQL", "BLTZAL", "JAL", "JALR"}
<1> USE DEF FLAGS_ALU_I, FLAGS_ALU_I_LOAD, FLAGS_ALU_I_STORE, FLAGS_ALU_T_R_D, FLAGS_ALU_T_R_STD,
        FLAGS_ALU_TRAP_ST, FLAGS_J_B_PC_TO_R31
<1>1. FlagsOf(op)
  BY TableColumns
<1>2. "ALU_REQ_RS" \in InstructionMap[op].flags <=>
        op \in {"ADDI", "ADDIU", "ADDU", "MOVZ", "LW", "SW", "SC", "TEQ"}
  <2>1. CASE op \in {"NOP", "ADDI", "ADDIU", "ADDU", "MOVZ", "LW", "SW"}
    BY <2>1, SMTT(30) DEF InstructionMap, Entry
  <2>2. CASE op \in {"SC", "TEQ", "SYSCALL", "BEQ", "BNE", "BLEZ", "BLTZAL"}
    BY <2>2, SMTT(30) DEF InstructionMap, Entry
  <2>3. CASE op \in {"BEQL", "J", "JAL", "JR", "JALR", "ERET", "MFC0", "MTC0"}
    BY <2>3, SMTT(30) DEF InstructionMap, Entry
  <2> QED
    BY <2>1, <2>2, <2>3 DEF Ops
<1>3. "ALU_REQ_RT" \in InstructionMap[op].flags <=>
        op \in {"NOP", "ADDU", "MOVZ", "SW", "SC", "TEQ", "MTC0"}
  <2>1. CASE op \in {"NOP", "ADDI", "ADDIU", "ADDU", "MOVZ", "LW", "SW"}
    BY <2>1, SMTT(30) DEF InstructionMap, Entry
  <2>2. CASE op \in {"SC", "TEQ", "SYSCALL", "BEQ", "BNE", "BLEZ", "BLTZAL"}
    BY <2>2, SMTT(30) DEF InstructionMap, Entry
  <2>3. CASE op \in {"BEQL", "J", "JAL", "JR", "JALR", "ERET", "MFC0", "MTC0"}
    BY <2>3, SMTT(30) DEF InstructionMap, Entry
  <2> QED
    BY <2>1, <2>2, <2>3 DEF Ops
<1>4. NeedsRs(x) <=> \/ "ALU_REQ_RS" \in InstructionMap[op].flags
                     \/ "BJR_REQ_RS" \in InstructionMap[op].flags
  BY DEF NeedsRs
<1>5. NeedsRt(x) <=> \/ "ALU_REQ_RT" \in InstructionMap[op].flags
                     \/ "BJR_REQ_RT" \in InstructionMap[op].flags
                     \/ "PC8_TO_RT" \in InstructionMap[op].flags
                     \/ "PC_TO_R31" \in InstructionMap[op].flags
  BY DEF NeedsRt
<1> QED
  BY <1>1, <1>2, <1>3, <1>4, <1>5 DEF FlagsOf

\* the ALU, and with it the exception, does not tell them apart
LEMMA SameExecute ==
    ASSUME NEW f \in FetchLatch, NEW g \in [Reg -> Val], g[0] = 0, NEW c,
           NEW d, Agrees(d, Decode(f, g))
    PROVE  LET x == Decode(f, g)
               e == Execute(d, c)
               y == Execute(x, c)
           IN  /\ e.memread = y.memread /\ e.memwrite = y.memwrite /\ e.regwrite = y.regwrite
               /\ e.memctl = y.memctl /\ e.rwrite = y.rwrite /\ e.inst_addr = y.inst_addr
               /\ e.excause = y.excause /\ e.in_delay_slot = y.in_delay_slot
               /\ e.stop_if = y.stop_if /\ e.is_valid = y.is_valid
               /\ y.memwrite => e.val_rt = y.val_rt
               /\ y.regwrite \/ y.memctl # "NONE" => e.alu_val = y.alu_val
               /\ ExecuteCop0(d, c) = ExecuteCop0(x, c)
               /\ \A p : ExecutePc(d, c, p) = ExecutePc(x, c, p)
<1> DEFINE i == f.inst
           x == Decode(f, g)
           s == IF "ALUSRC" \in d.flags THEN d.immediate_val ELSE d.val_rt
           t == IF "ALUSRC" \in x.flags THEN x.immediate_val ELSE x.val_rt
<1>1. /\ x.flags = InstructionMap[i.op].flags /\ x.aluop = InstructionMap[i.op].alu
      /\ x.memctl = InstructionMap[i.op].memctl
  BY DecodeFields
<1>2. i.op \in Ops
  BY DEF FetchLatch, Instruction
<1>3. FlagsOf(i.op) /\ AluOf(i.op) /\ MemctlOf(i.op)
  BY <1>2, TableColumns
<1>4. /\ NeedsRs(x) <=> i.op \in {"ADDI", "ADDIU", "ADDU", "MOVZ", "LW", "SW", "SC", "TEQ",
                                  "BEQ", "BNE", "BLEZ", "BLTZAL", "BEQL", "JR", "JALR"}
      /\ NeedsRt(x) <=> i.op \in {"NOP", "ADDU", "MOVZ", "SW", "SC", "TEQ", "MTC0",
                                  "BEQ", "BNE", "BEQL", "BLTZAL", "JAL", "JALR"}
  BY <1>1, <1>2, NeededOperands
<1>5. /\ d.flags = x.flags /\ d.aluop = x.aluop /\ d.memctl = x.memctl
      /\ d.immediate_val = x.immediate_val /\ d.rwrite = x.rwrite
      /\ d.inst_addr = x.inst_addr /\ d.excause = x.excause
      /\ d.in_delay_slot = x.in_delay_slot /\ d.is_valid = x.is_valid
      /\ NeedsRs(x) => d.val_rs = x.val_rs
      /\ NeedsRt(x) => d.val_rt = x.val_rt
  BY DEF Agrees
<1> HIDE DEF x, i
<1>6. i.op \in {"ADDI", "ADDIU", "LW", "SW", "SC"} \/ NeedsRt(x) => s = t
  BY <1>1, <1>3, <1>5 DEF FlagsOf
<1>7. AluDiscard(d.aluop, s) = AluDiscard(x.aluop, t)
  <2>1. CASE i.op = "MOVZ"
    BY <1>4, <1>5, <1>6, <2>1
  <2>2. CASE i.op # "MOVZ"
    BY <1>1, <1>3, <1>5, <2>2 DEF AluDiscard, AluOf
  <2> QED
    BY <2>1, <2>2
<1>8. AluException(d.aluop, d.val_rs, s) = AluException(x.aluop, x.val_rs, t)
  <2>1. CASE i.op \in {"ADDI", "TEQ"}
    <3>1. s = t /\ d.val_rs = x.val_rs
      BY <1>4, <1>5, <1>6, <2>1
    <3> QED
      BY <1>5, <3>1
  <2>2. CASE i.op \notin {"ADDI", "TEQ"}
    <3>1. d.aluop \notin {"ADD", "TEQ"} /\ x.aluop \notin {"ADD", "TEQ"}
      BY <1>1, <1>3, <1>5, <2>2 DEF AluOf
    <3> QED
      BY <3>1 DEF AluException
  <2> QED
    BY <2>1, <2>2
<1>9. i.op \in {"NOP", "ADDI", "ADDIU", "ADDU", "MOVZ", "LW", "SW", "SC", "BLTZAL", "JAL", "JALR"}
         => AluVal(d.aluop, d.val_rs, s) = AluVal(x.aluop, x.val_rs, t)
  <2>1. CASE i.op \in {"ADDI", "ADDIU", "ADDU", "MOVZ", "LW", "SW", "SC", "BLTZAL", "JALR"}
    <3>1. s = t /\ d.val_rs = x.val_rs
      BY <1>4, <1>5, <1>6, <2>1
    <3> QED
      BY <1>5, <3>1
  <2>2. CASE i.op \in {"NOP", "JAL"}
    <3>1. s = t /\ d.aluop \in {"SLL", "PASS_T"} /\ x.aluop = d.aluop
      BY <1>1, <1>3, <1>4, <1>5, <1>6, <2>2 DEF AluOf
    <3> QED
      BY <3>1 DEF AluVal
  <2> QED
    BY <2>1, <2>2
<1> DEFINE e == Execute(d, c)
           y == Execute(x, c)
<1>10. /\ e.memread = y.memread /\ e.memwrite = y.memwrite /\ e.regwrite = y.regwrite
       /\ e.memctl = y.memctl /\ e.rwrite = y.rwrite /\ e.inst_addr = y.inst_addr
       /\ e.excause = y.excause /\ e.in_delay_slot = y.in_delay_slot
       /\ e.stop_if = y.stop_if /\ e.is_valid = y.is_valid
  <2> HIDE DEF s, t
  <2>1. /\ e.regwrite = ("REGWRITE" \in d.flags /\ ~(d.excause = "NONE" /\ AluDiscard(d.aluop, s)))
        /\ y.regwrite = ("REGWRITE" \in x.flags /\ ~(x.excause = "NONE" /\ AluDiscard(x.aluop, t)))
        /\ e.excause = IF d.excause = "NONE" THEN AluException(d.aluop, d.val_rs, s) ELSE d.excause
        /\ y.excause = IF x.excause = "NONE" THEN AluException(x.aluop, x.val_rs, t) ELSE x.excause
    BY DEF Execute, s, t
  <2>2. e.regwrite = y.regwrite /\ e.excause = y.excause
    BY <1>5, <1>7, <1>8, <2>1
  <2> QED
    BY <1>5, <2>2 DEF Execute
<1>11. y.memwrite => e.val_rt = y.val_rt
  <2>1. y.memwrite = ("MEMWRITE" \in x.flags) /\ e.val_rt = d.val_rt /\ y.val_rt = x.val_rt
    BY DEF Execute
  <2> QED
    BY <1>1, <1>3, <1>4, <1>5, <2>1 DEF FlagsOf
<1>12. y.regwrite \/ y.memctl # "NONE" => e.alu_val = y.alu_val
  <2> SUFFICES ASSUME y.regwrite \/ y.memctl # "NONE" PROVE e.alu_val = y.alu_val
    OBVIOUS
  <2>1. y.regwrite => "REGWRITE" \in x.flags
    BY DEF Execute
  <2>2. y.memctl = x.memctl
    BY DEF Execute
  <2>3. i.op \in {"NOP", "ADDI", "ADDIU", "ADDU", "MOVZ", "LW", "SW", "SC", "BLTZAL", "JAL", "JALR",
                  "MFC0"}
    BY <1>1, <1>3, <2>1, <2>2 DEF FlagsOf, MemctlOf
  <2>4. /\ e.alu_val = IF ~(d.excause = "NONE") THEN 0
                       ELSE IF d.aluop = "MFC0" THEN c.epc ELSE AluVal(d.aluop, d.val_rs, s)
        /\ y.alu_val = IF ~(x.excause = "NONE") THEN 0
                       ELSE IF x.aluop = "MFC0" THEN c.epc ELSE AluVal(x.aluop, x.val_rs, t)
    BY DEF Execute
  <2> HIDE DEF s, t, e, y
  <2> QED
    BY <1>1, <1>3, <1>5, <1>9, <2>3, <2>4 DEF AluOf
<1>13. /\ ExecuteCop0(d, c) = ExecuteCop0(x, c)
       /\ \A p : ExecutePc(d, c, p) = ExecutePc(x, c, p)
  <2>1. x.aluop = "MTC0" => d.val_rt = x.val_rt
    BY <1>1, <1>3, <1>4, <1>5 DEF AluOf
  <2> QED
    BY <1>5, <2>1 DEF ExecuteCop0, ExecutePc
<1> QED
  BY <1>10, <1>11, <1>12, <1>13 DEF x

\* neither do the stages behind it, nor the branch
LEMMA SameWork ==
    ASSUME NEW f \in FetchLatch, NEW g \in [Reg -> Val], g[0] = 0, NEW c \in Cop0Type,
           NEW s, NEW d, Agrees(d, Decode(f, g))
    PROVE  LET x == Decode(f, g)
               e == Execute(d, c)
               y == Execute(x, c)
           IN  /\ Stored(e, s) = Stored(y, s)
               /\ \A h : Writeback(Memory(e, s), h) = Writeback(Memory(y, s), h)
<1> DEFINE x == Decode(f, g)
           e == Execute(d, c)
           y == Execute(x, c)
<1>1. /\ e.memread = y.memread /\ e.memwrite = y.memwrite /\ e.regwrite = y.regwrite
      /\ e.memctl = y.memctl /\ e.rwrite = y.rwrite
      /\ e.excause = y.excause
      /\ y.memwrite => e.val_rt = y.val_rt
      /\ y.regwrite \/ y.memctl # "NONE" => e.alu_val = y.alu_val
  BY SameExecute
<1> HIDE DEF e, y
<1>2. Stored(e, s) = Stored(y, s)
  BY <1>1 DEF Stored
<1>3. Memory(e, s).regwrite = Memory(y, s).regwrite /\ Memory(e, s).rwrite = Memory(y, s).rwrite
  BY <1>1 DEF Memory
<1>4. Memory(y, s).regwrite => Memory(e, s).towrite_val = Memory(y, s).towrite_val
  <2>1. Memory(y, s).regwrite = (y.regwrite /\ y.excause = "NONE")
    BY DEF Memory
  <2> QED
    BY <1>1, <1>2, <2>1 DEF Memory
<1>5. \A h : Writeback(Memory(e, s), h) = Writeback(Memory(y, s), h)
  BY <1>3, <1>4 DEF Writeback
<1> QED
  BY <1>2, <1>5 DEF e, y, x

LEMMA SameBranch ==
    ASSUME NEW f \in FetchLatch, NEW g \in [Reg -> Val], g[0] = 0,
           NEW p, NEW d, Agrees(d, Decode(f, g))
    PROVE  /\ BranchTaken(d) <=> BranchTaken(Decode(f, g))
           /\ HandlePc(d, p) = HandlePc(Decode(f, g), p)
<1> DEFINE i == f.inst
           x == Decode(f, g)
<1>1. /\ x.flags = InstructionMap[i.op].flags
      /\ d.inst = x.inst /\ d.flags = x.flags /\ d.inst_addr = x.inst_addr
      /\ NeedsRs(x) => d.val_rs = x.val_rs
      /\ NeedsRt(x) => d.val_rt = x.val_rt
  BY DecodeFields DEF Agrees
<1>2. i.op \in Ops
  BY DEF FetchLatch, Instruction
<1>3. FlagsOf(i.op)
  BY <1>2, TableColumns
<1>4. /\ NeedsRs(x) <=> i.op \in {"ADDI", "ADDIU", "ADDU", "MOVZ", "LW", "SW", "SC", "TEQ",
                                  "BEQ", "BNE", "BLEZ", "BLTZAL", "BEQL", "JR", "JALR"}
      /\ NeedsRt(x) <=> i.op \in {"NOP", "ADDU", "MOVZ", "SW", "SC", "TEQ", "MTC0",
                                  "BEQ", "BNE", "BEQL", "BLTZAL", "JAL", "JALR"}
  BY <1>1, <1>2, NeededOperands
<1> HIDE DEF x, i
<1>5. "BRANCH" \in x.flags \/ "BJR_REQ_RS" \in x.flags => d.val_rs = x.val_rs
  BY <1>1, <1>3, <1>4 DEF FlagsOf
<1>6. "BJR_REQ_RT" \in x.flags => d.val_rt = x.val_rt
  BY <1>1, <1>3, <1>4 DEF FlagsOf
<1>7. BranchTaken(d) <=> BranchTaken(x)
  BY <1>1, <1>5, <1>6 DEF BranchTaken
<1>8. HandlePc(d, p) = HandlePc(x, p)
  BY <1>1, <1>5, <1>7 DEF HandlePc
<1> QED
  BY <1>7, <1>8 DEF x
=============================================================================
