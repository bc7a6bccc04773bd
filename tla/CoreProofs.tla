----------------------------- MODULE CoreProofs ------------------------------
(***************************************************************************)
(* Proofs about the pipelined core, for every word size, number of         *)
(* registers, set of programs, hazard unit and set of breakpoints.         *)
(***************************************************************************)
EXTENDS CorePipelined, StageProofs

-----------------------------------------------------------------------------
(* Stalls and forwarding keep the types of the latches.                     *)

LEMMA DecodeInitType ==
  ASSUME NEW d \in DecodeLatch
  PROVE  DecodeInit(d) \in DecodeLatch /\ Empty(DecodeInit(d))
<1>1. d.flags \in SUBSET Flags /\ d.inst_addr \in Addr
  BY DEF DecodeLatch
<1> QED
  BY <1>1, NopType, Zeros
  DEF DecodeInit, DecodeBubble, DecodeLatch, AluOps, MemCtls, Causes, Empty

LEMMA ForwardedType ==
  ASSUME NEW d \in DecodeLatch, NEW m \in MemoryLatch, NEW e \in ExecuteLatch
  PROVE  /\ Forwarded(d, m, e) \in DecodeLatch
         /\ Forwarded(d, m, e).flags = d.flags
<1>1. /\ d.val_rs \in Val /\ d.val_rt \in Val
      /\ m.towrite_val \in Val /\ e.alu_val \in Val
  BY DEF DecodeLatch, MemoryLatch, ExecuteLatch
<1>2. \A flag, r : \A v \in Val : ForwardedAlu(d, m, e, flag, r, v) \in Val
  BY <1>1 DEF ForwardedAlu
<1>3. \A flag, r : \A v \in Val : ForwardedBranch(d, m, e, flag, r, v) \in Val
  BY <1>1 DEF ForwardedBranch
<1>4. PICK rs \in Val, rt \in Val :
         Forwarded(d, m, e) = [d EXCEPT !.val_rs = rs, !.val_rt = rt]
  BY <1>1, <1>2, <1>3 DEF Forwarded, DecodeLatch
<1> QED BY <1>4 DEF DecodeLatch

-----------------------------------------------------------------------------
(* The types of everything a cycle computes.                                *)

LEMMA CycleTypes ==
  ASSUME TypeOK
  PROVE  /\ gp1 \in [Reg -> Val] /\ mem1 \in [Addr -> Val]
         /\ m1 \in MemoryLatch /\ e1 \in ExecuteLatch /\ d1 \in DecodeLatch
         /\ cop01 \in Cop0Type /\ pc1 \in Addr
         /\ dt_m.inst_addr \in Addr /\ e1.inst_addr \in Addr
<1> USE DEF TypeOK
<1>1. cop0 \in Cop0Type
  BY DEF Cop0Type
<1>2. gp1 \in [Reg -> Val]
  BY WritebackType DEF gp1
<1>3. mem1 \in [Addr -> Val] /\ m1 \in MemoryLatch
  BY StoredType, MemoryType DEF mem1, m1
<1>4. e1 \in ExecuteLatch /\ cop01 \in Cop0Type /\ pc1 \in Addr
  BY <1>1, ExecuteType DEF e1, cop01, pc1
<1>5. d1 \in DecodeLatch
  BY <1>2, DecodeType DEF d1
<1>6. dt_m.inst_addr \in Addr /\ e1.inst_addr \in Addr
  BY <1>4 DEF MemoryLatch, ExecuteLatch
<1> QED BY <1>2, <1>3, <1>4, <1>5, <1>6

LEMMA InitType == Init => TypeOK
<1> SUFFICES ASSUME Init PROVE TypeOK
  OBVIOUS
<1> USE DEF Init
<1>1. hazard_unit \in HazardUnits /\ program \in [Addr -> Instruction]
  BY PipelineAssumption
<1>2. pc \in Addr /\ gp \in [Reg -> Val] /\ mem \in [Addr -> Val]
  BY CoreAssumption, Zeros DEF RegsReset
<1>3. cop0 \in [epc : Addr, cause : Causes, bd : BOOLEAN, exl : BOOLEAN]
  BY Zeros DEF Cop0Init, Causes
<1>4. dt_f \in FetchLatch
  BY NopType, Zeros DEF FetchReset, FetchLatch, Causes
<1>5. dt_d \in DecodeLatch
  BY NopType, Zeros
  DEF DecodeReset, DecodeBubble, DecodeLatch, AluOps, MemCtls, Causes
<1>6. dt_e \in ExecuteLatch
  BY Zeros DEF ExecuteReset, ExecuteBubble, ExecuteLatch, MemCtls, Causes
<1>7. dt_m \in MemoryLatch
  BY Zeros DEF MemoryReset, MemoryLatch, Causes
<1> QED BY <1>1, <1>2, <1>3, <1>4, <1>5, <1>6, <1>7 DEF TypeOK

LEMMA NextType == TypeOK /\ [Next]_vars => TypeOK'
<1> SUFFICES ASSUME TypeOK, [Next]_vars PROVE TypeOK'
  OBVIOUS
<1>1. CASE UNCHANGED vars
  BY <1>1 DEF vars, setup, latches, TypeOK
<1>2. CASE ExceptionInMemory
  <2>1. dt_f' \in FetchLatch /\ dt_d' \in DecodeLatch /\ dt_e' \in ExecuteLatch
    BY <1>2, CycleTypes, FetchInitType, DecodeInitType, ExecuteInitType
    DEF setup, ExceptionInMemory, TypeOK
  <2>2. cop0' \in Cop0Type /\ pc' \in Addr
    BY <1>2, CycleTypes, HandleExceptionType DEF ExceptionInMemory
  <2> QED
    BY <1>2, <2>1, <2>2, CycleTypes DEF setup, ExceptionInMemory, TypeOK, Cop0Type
<1>3. CASE ExceptionInExecute
  BY <1>3, CycleTypes, FetchInitType, DecodeInitType
  DEF setup, ExceptionInExecute, TypeOK, Cop0Type
<1>4. ASSUME NEW skip_break \in BOOLEAN, NEW irq \in {FALSE, Irqs},
             FetchNext(skip_break, irq)
      PROVE  TypeOK'
  <2> DEFINE d == Forwarded(d1, m1, e1)
             f == Fetch(program, pc1, skip_break, irq, cop01)
  <2>1. d \in DecodeLatch
    BY CycleTypes, ForwardedType
  <2>2. f \in FetchLatch
    BY CycleTypes, FetchType DEF TypeOK
  <2>3. dt_f' \in FetchLatch
    <3>1. FetchInit(f) \in FetchLatch /\ [f EXCEPT !.in_delay_slot = TRUE] \in FetchLatch
      BY <2>2, FetchInitType, SlotType
    <3> HIDE DEF d, f
    <3> QED BY <1>4, <2>2, <3>1 DEF FetchNext, d, f
  <2>4. pc' \in Addr
    BY <1>4, <2>1, CycleTypes, HandlePcType DEF FetchNext
  <2> QED
    BY <1>4, <2>1, <2>3, <2>4, CycleTypes DEF setup, FetchNext, TypeOK, Cop0Type
<1>5. CASE StallDecode
  BY <1>5, CycleTypes, DecodeInitType DEF setup, StallDecode, TypeOK, Cop0Type
<1>6. CASE StopFetch
  BY <1>6, CycleTypes, ForwardedType, FetchInitType
  DEF setup, StopFetch, TypeOK, Cop0Type
<1>7. CASE Restart
  <2>1. pc' \in Addr /\ gp' \in [Reg -> Val] /\ mem' \in [Addr -> Val]
    BY <1>7, CoreAssumption, Zeros DEF Restart, RegsReset
  <2>2. dt_f' \in FetchLatch
    BY <1>7, NopType, Zeros DEF Restart, FetchReset, FetchLatch, Causes
  <2>3. dt_d' \in DecodeLatch
    BY <1>7, NopType, Zeros
    DEF Restart, DecodeReset, DecodeBubble, DecodeLatch, AluOps, MemCtls, Causes
  <2>4. dt_e' \in ExecuteLatch
    BY <1>7, Zeros
    DEF Restart, ExecuteReset, ExecuteBubble, ExecuteLatch, MemCtls, Causes
  <2>5. dt_m' \in MemoryLatch
    BY <1>7, Zeros DEF Restart, MemoryReset, MemoryLatch, Causes
  <2> QED BY <1>7, <2>1, <2>2, <2>3, <2>4, <2>5 DEF setup, Restart, TypeOK
<1> QED BY <1>1, <1>2, <1>3, <1>4, <1>5, <1>6, <1>7 DEF Next, Step

\* CorePipelined::do_step keeps every latch and register within its type.
THEOREM PipelineTypeCorrect == Spec => []TypeOK
  BY InitType, NextType, PTL DEF Spec

-----------------------------------------------------------------------------
(* Nothing younger behind a trap or an ERET.  What dtFetchInit leaves in    *)
(* dt_f is a NOP: decoded, it does not stop fetch in its turn.              *)

BubbleIsNop == ~dt_f.is_valid => dt_f.inst = NopInst /\ dt_f.excause = "NONE"

PInv == TypeOK /\ NothingYounger /\ BubbleIsNop

LEMMA NopDecodes ==
  ASSUME NEW f \in FetchLatch, NEW g, f.inst = NopInst
  PROVE  ~StopsFetch(Decode(f, g))
  BY DEF Decode, StopsFetch, NopInst, InstructionMap, Entry, FLAGS_ALU_T_R_D

LEMMA EmptyExecutes ==
  ASSUME NEW d \in DecodeLatch, NEW c, Empty(d)
  PROVE  LET e == Execute(d, c)
         IN  ~e.is_valid /\ e.excause = "NONE" /\ ~e.memwrite /\ e.rwrite = 0
             /\ ~e.stop_if
  BY DEF Empty, Execute, AluException

LEMMA InitPInv == Init => PInv
<1> SUFFICES ASSUME Init PROVE NothingYounger /\ BubbleIsNop
  BY InitType DEF PInv
<1>1. BubbleIsNop
  BY DEF Init, BubbleIsNop, FetchReset
<1>2. NothingYounger
  BY DEF Init, NothingYounger, FetchReset, DecodeReset, DecodeBubble,
         ExecuteReset, ExecuteBubble, MemoryReset
<1> QED BY <1>1, <1>2

LEMMA NextPInv == PInv /\ [Next]_vars => PInv'
<1> SUFFICES ASSUME PInv, [Next]_vars PROVE NothingYounger' /\ BubbleIsNop'
  BY NextType DEF PInv
<1> USE DEF PInv
<1>t. /\ m1 \in MemoryLatch /\ e1 \in ExecuteLatch /\ d1 \in DecodeLatch
      /\ dt_f \in FetchLatch /\ dt_d \in DecodeLatch /\ dt_e \in ExecuteLatch
  BY CycleTypes DEF TypeOK
\* an ERET in decode leaves a bubble that does not stop fetch
<1>a. "STOP_IF" \in dt_d.flags => ~dt_f.is_valid /\ ~StopsFetch(d1)
  BY <1>t, NopDecodes DEF NothingYounger, BubbleIsNop, d1
<1>b. e1.stop_if => "STOP_IF" \in dt_d.flags
  BY DEF e1, Execute
\* an ERET in execute has only bubbles behind it
<1>c. m1.stop_if => /\ ~dt_f.is_valid /\ ~StopsFetch(d1)
                    /\ ~e1.is_valid /\ e1.excause = "NONE" /\ ~e1.memwrite
                    /\ e1.rwrite = 0 /\ ~e1.stop_if
  <2>1. m1.stop_if = dt_e.stop_if
    BY DEF m1, Memory
  <2> QED BY <2>1, <1>t, NopDecodes, EmptyExecutes
          DEF NothingYounger, BubbleIsNop, d1, e1
<1>1. CASE UNCHANGED vars
  BY <1>1 DEF vars, latches, NothingYounger, BubbleIsNop, Empty
<1>2. CASE ExceptionInMemory
  <2>1. Empty(dt_d') /\ dt_f' = FetchInit(dt_f)
    BY <1>2, <1>t, DecodeInitType DEF ExceptionInMemory
  <2>2. /\ ~dt_e'.is_valid /\ dt_e'.excause = "NONE" /\ ~dt_e'.memwrite
        /\ dt_e'.rwrite = 0 /\ ~dt_e'.stop_if
    BY <1>2 DEF ExceptionInMemory, ExecuteInit, ExecuteBubble
  <2> QED BY <2>1, <2>2, <1>t, FetchInitNop DEF NothingYounger, BubbleIsNop, Empty
<1>3. CASE ExceptionInExecute
  <2>1. Empty(dt_d') /\ dt_f' = FetchInit(dt_f) /\ dt_m' = m1 /\ dt_e' = e1
    BY <1>3, <1>t, DecodeInitType DEF ExceptionInExecute
  <2>2. m1.excause = "NONE" /\ ~m1.stop_if
    BY <1>3, <1>c DEF ExceptionInExecute
  <2> QED BY <2>1, <2>2, <1>t, FetchInitNop DEF NothingYounger, BubbleIsNop, Empty
<1>4. ASSUME NEW skip_break \in BOOLEAN, NEW irq \in {FALSE, Irqs},
             FetchNext(skip_break, irq)
      PROVE  NothingYounger' /\ BubbleIsNop'
  <2> DEFINE d == Forwarded(d1, m1, e1)
             f == Fetch(program, pc1, skip_break, irq, cop01)
  <2>1. /\ dt_m' = m1 /\ dt_e' = e1 /\ m1.excause = "NONE" /\ e1.excause = "NONE"
        /\ ~m1.stop_if /\ ~e1.stop_if
    BY <1>4 DEF FetchNext, NoException, Stall
  <2>2. "STOP_IF" \notin dt_d'.flags
    BY <1>4, <1>t, ForwardedType DEF FetchNext, StopsFetch
  <2>3. f \in FetchLatch /\ f.is_valid
    BY CycleTypes, FetchType DEF TypeOK, Fetch
  <2>4. BubbleIsNop'
    <3>1. [f EXCEPT !.in_delay_slot = TRUE].is_valid
      BY <2>3 DEF FetchLatch
    <3> HIDE DEF f, d
    <3>2. \/ dt_f' = f
          \/ dt_f' = FetchInit(f)
          \/ dt_f' = [f EXCEPT !.in_delay_slot = TRUE]
      BY <1>4 DEF FetchNext, f, d
    <3> QED BY <2>3, <3>1, <3>2, FetchInitNop DEF BubbleIsNop
  <2> QED BY <2>1, <2>2, <2>4 DEF NothingYounger
<1>5. CASE StallDecode
  <2>1. Empty(dt_d') /\ dt_f' = dt_f /\ dt_m' = m1 /\ dt_e' = e1
        /\ m1.excause = "NONE" /\ e1.excause = "NONE"
    BY <1>5, <1>t, DecodeInitType DEF StallDecode, NoException
  <2> QED BY <2>1, <1>a, <1>b, <1>c DEF NothingYounger, BubbleIsNop, Empty
<1>6. CASE StopFetch
  <2>1. dt_f' = FetchInit(dt_f) /\ dt_m' = m1 /\ dt_e' = e1
        /\ m1.excause = "NONE" /\ e1.excause = "NONE" /\ StopsFetch(d1)
    BY <1>6 DEF StopFetch, NoException
  <2> QED BY <2>1, <1>t, <1>a, <1>b, <1>c, FetchInitNop
          DEF NothingYounger, BubbleIsNop
<1>7. CASE Restart
  BY <1>7 DEF Restart, NothingYounger, BubbleIsNop, FetchReset, DecodeReset,
              DecodeBubble, ExecuteReset, ExecuteBubble, MemoryReset
<1> QED BY <1>1, <1>2, <1>3, <1>4, <1>5, <1>6, <1>7 DEF Next, Step

\* Precise exceptions: while a trap or an ERET is on its way no younger
\* instruction is, whatever the program and the hazard unit.
THEOREM PipelineNothingYounger == Spec => []NothingYounger
<1>1. PInv => NothingYounger
  BY DEF PInv
<1> QED BY InitPInv, NextPInv, <1>1, PTL DEF Spec

-----------------------------------------------------------------------------
(* The pipeline implements Isa.  What the latches hold belongs together:    *)
(* each instruction is the one of its address, with the operands that the  *)
(* older ones leave behind, and the next one is where the program goes on. *)

\* What fetch found at address a is still true when the exception is handled.
CauseHolds(cause, a) ==
    /\ cause \in {"NONE", "INT", "HWBREAK"}
    /\ cause = "INT" => Irqs /\ ~cop0.exl
    /\ cause = "HWBREAK" => a \in Breaks

\* what d was decoded from
Fetched(d) ==
    [inst |-> d.inst, inst_addr |-> d.inst_addr,
     excause |-> IF d.excause = "SYSCALL" THEN "NONE" ELSE d.excause,
     in_delay_slot |-> d.in_delay_slot, is_valid |-> d.is_valid]

\* The instruction to execute has the operands of its place in the program.
OperandsReady ==
    /\ gp[0] = 0
    /\ dt_d.is_valid => Agrees(dt_d, Decode(Fetched(dt_d), ArchGp))

FromProgram ==
    /\ hazard_unit \in DOMAIN Programs /\ program \in Programs[hazard_unit]
    /\ dt_f.is_valid =>
          /\ dt_f.inst = program[dt_f.inst_addr]
          /\ CauseHolds(dt_f.excause, dt_f.inst_addr)
    /\ ~dt_f.is_valid => ~dt_f.in_delay_slot
    /\ dt_d.is_valid =>
          /\ dt_d.inst = program[dt_d.inst_addr]
          /\ CauseHolds(Fetched(dt_d).excause, dt_d.inst_addr)
    /\ ~dt_d.is_valid => Empty(dt_d)

\* An exception on its way to be handled is one that the instruction raises, or
\* that fetch found.
TrapHolds ==
    Traps => IF dt_e.excause \in {"INT", "HWBREAK"}
             THEN CauseHolds(dt_e.excause, dt_e.inst_addr)
             ELSE dt_e.excause = Raises(program[dt_e.inst_addr], ArchGp)

\* a stands behind a branch
BehindBranch(a) == program[Wrap(a - 1)].op \in BranchOps

\* What is in dt_f, and behind it at pc, is what follows the instruction in dt_d.
Follows(i, a) ==
    /\ ~dt_d.in_delay_slot => dt_f.inst_addr = Wrap(a + 1)
    /\ dt_f.is_valid <=> i.op # "BEQL" \/ Takes(i, ArchGp)
    /\ dt_f.in_delay_slot <=> Takes(i, ArchGp)
    /\ pc = IF Takes(i, ArchGp) THEN GoesTo(i, a, ArchGp) ELSE Wrap(dt_f.inst_addr + 1)

ProgramOrder ==
    /\ dt_f.is_valid /\ ~dt_f.in_delay_slot => pc = Wrap(dt_f.inst_addr + 1)
    /\ dt_f.is_valid /\ dt_f.in_delay_slot => BehindBranch(dt_f.inst_addr)
    /\ dt_d.is_valid /\ dt_d.in_delay_slot => BehindBranch(dt_d.inst_addr)
    /\ dt_d.is_valid /\ dt_d.inst.op # "ERET" => Follows(dt_d.inst, dt_d.inst_addr)
    /\ Traps /\ program[dt_e.inst_addr].op = "ERET" => ~dt_e.in_delay_slot
    /\ Traps /\ program[dt_e.inst_addr].op # "ERET" /\ ~dt_e.in_delay_slot =>
          dt_d.inst_addr = Wrap(dt_e.inst_addr + 1)

\* The latch behind an instruction in a delay slot has the address of the branch,
\* at least with forwarding; a stall would put a bubble between the two.
BranchAddress ==
    IF Forwards
    THEN /\ dt_f.is_valid /\ dt_f.in_delay_slot =>
               dt_d.is_valid /\ dt_d.inst_addr = Wrap(dt_f.inst_addr - 1)
         /\ dt_d.is_valid /\ dt_d.in_delay_slot => dt_e.inst_addr = Wrap(dt_d.inst_addr - 1)
         /\ Traps /\ dt_e.in_delay_slot => dt_m.inst_addr = Wrap(dt_e.inst_addr - 1)
    ELSE Traps => ~dt_e.in_delay_slot

PipeInv == PInv /\ OperandsReady /\ FromProgram /\ TrapHolds /\ ProgramOrder /\ BranchAddress

-----------------------------------------------------------------------------
(* What one cycle executes.                                                 *)

\* the registers when the instruction now in execute has come to its end, too
NextGp == Writeback(Memory(e1, mem1), Writeback(m1, gp1))

LEMMA ArchNow == ArchGp = Writeback(m1, gp1) /\ Stored(dt_e, mem) = mem1
  BY DEF ArchGp, Drained, m1, gp1, mem1

LEMMA ArchNext ==
    ASSUME dt_e' = e1, dt_m' = m1, gp' = gp1, mem' = mem1
    PROVE  ArchGp' = NextGp /\ Stored(dt_e, mem)' = Stored(e1, mem1)
  BY DEF ArchGp, Drained, NextGp, Memory, Stored

LEMMA WritebackZero ==
    ASSUME NEW m \in MemoryLatch, NEW g \in [Reg -> Val], g[0] = 0
    PROVE  Writeback(m, g) \in [Reg -> Val] /\ Writeback(m, g)[0] = 0
<1> DEFINE w == WriteGp(g, m.rwrite, m.towrite_val)
<1>1. m.rwrite \in Reg /\ m.towrite_val \in Val
  BY DEF MemoryLatch
<1>2. w \in [Reg -> Val] /\ w[0] = 0
  BY <1>1, WriteGpPuts
<1>3. Writeback(m, g) = IF m.regwrite THEN w ELSE g
  BY DEF Writeback
<1> HIDE DEF w
<1> QED
  BY <1>2, <1>3

LEMMA ArchTypes ==
    ASSUME PipeInv
    PROVE  /\ gp1 \in [Reg -> Val] /\ gp1[0] = 0
           /\ ArchGp \in [Reg -> Val] /\ ArchGp[0] = 0
           /\ NextGp \in [Reg -> Val] /\ NextGp[0] = 0
           /\ cop0 \in Cop0Type /\ mem1 \in [Addr -> Val]
<1> USE DEF PipeInv, PInv
<1>1. /\ m1 \in MemoryLatch /\ e1 \in ExecuteLatch /\ mem1 \in [Addr -> Val]
      /\ dt_m \in MemoryLatch /\ gp \in [Reg -> Val] /\ gp[0] = 0 /\ cop0 \in Cop0Type
  BY CycleTypes DEF TypeOK, OperandsReady, Cop0Type
<1>2. gp1 \in [Reg -> Val] /\ gp1[0] = 0
  BY <1>1, WritebackZero DEF gp1
<1>3. ArchGp \in [Reg -> Val] /\ ArchGp[0] = 0
  BY <1>1, <1>2, ArchNow, WritebackZero
<1>4. Memory(e1, mem1) \in MemoryLatch
  BY <1>1, MemoryType
<1>5. NextGp \in [Reg -> Val] /\ NextGp[0] = 0
  BY <1>3, <1>4, ArchNow, WritebackZero DEF NextGp
<1> QED
  BY <1>1, <1>2, <1>3, <1>5

\* A bubble does nothing.
LEMMA BubbleIdles ==
    ASSUME PipeInv, ~dt_d.is_valid
    PROVE  /\ e1.excause = "NONE" /\ ~e1.stop_if
           /\ NextGp = ArchGp /\ Stored(e1, mem1) = mem1 /\ cop01 = cop0 /\ pc1 = pc
<1>1. Empty(dt_d) /\ dt_d \in DecodeLatch
  BY DEF PipeInv, PInv, TypeOK, FromProgram
<1>2. /\ e1.excause = "NONE" /\ ~e1.memwrite /\ e1.rwrite = 0 /\ ~e1.stop_if
  BY <1>1, EmptyExecutes DEF e1
<1>3. cop01 = cop0 /\ pc1 = pc
  BY <1>1 DEF cop01, pc1, ExecuteCop0, ExecutePc, Empty
<1>4. Stored(e1, mem1) = mem1
  BY <1>2 DEF Stored
<1>5. Memory(e1, mem1).rwrite = 0
  BY <1>2 DEF Memory
<1>6. NextGp = ArchGp
  BY <1>5, ArchNow DEF NextGp, Writeback, WriteGp
<1> QED
  BY <1>2, <1>3, <1>4, <1>6

\* What decode was given is a fetched instruction of the program.
LEMMA FetchedType ==
    ASSUME PipeInv, dt_d.is_valid
    PROVE  LET f == Fetched(dt_d)
           IN  /\ f \in FetchLatch /\ f.inst = program[dt_d.inst_addr]
               /\ f.inst_addr = dt_d.inst_addr /\ f.in_delay_slot = dt_d.in_delay_slot
               /\ dt_d.inst_addr \in Addr /\ f.inst \in Instruction /\ f.inst.op \in Ops
               /\ CauseHolds(f.excause, dt_d.inst_addr)
<1> USE DEF PipeInv, PInv
<1>1. /\ dt_d.inst \in Instruction /\ dt_d.inst_addr \in Addr /\ dt_d.excause \in Causes
      /\ dt_d.in_delay_slot \in BOOLEAN /\ dt_d.is_valid \in BOOLEAN
  BY DEF TypeOK, DecodeLatch
<1>2. Fetched(dt_d) \in FetchLatch
  BY <1>1 DEF Fetched, FetchLatch, Causes
<1>3. dt_d.inst = program[dt_d.inst_addr] /\ CauseHolds(Fetched(dt_d).excause, dt_d.inst_addr)
  BY DEF FromProgram
<1> QED
  BY <1>1, <1>2, <1>3 DEF Fetched, Instruction

LEMMA ProgramIsRegular ==
    ASSUME PipeInv, RegularUse
    PROVE  /\ hazard_unit \in {"HU_STALL", "HU_STALL_FORWARD"}
           /\ \A a \in Addr : program[a] \in Instruction /\ Encodable(program[a])
           /\ \A a \in Addr : BehindBranch(a) => program[a].op \notin BranchOps \cup {"ERET"}
           /\ \A a \in Addr : program[a].op = "ERET" /\ Irqs => Vectors("INT")
           /\ ~Forwards => \A a \in Addr : BehindBranch(a) =>
                 /\ program[a].op \notin {"ADDI", "TEQ", "SYSCALL"}
                 /\ a \notin Breaks /\ ~Irqs
<1>1. /\ hazard_unit \in DOMAIN Programs /\ program \in Programs[hazard_unit]
      /\ hazard_unit \in HazardUnits /\ program \in [Addr -> Instruction]
  BY DEF PipeInv, PInv, TypeOK, FromProgram
<1>2. /\ hazard_unit # "HU_NONE" /\ Regular(TRUE, program)
      /\ \A a \in Addr : program[a].op \in BranchOps => program[Wrap(a + 1)].op # "ERET"
      /\ \A a \in Addr : program[a].op = "ERET" /\ Irqs => Vectors("INT")
      /\ hazard_unit = "HU_STALL" => \A a \in Addr : program[a].op \in BranchOps =>
            /\ program[Wrap(a + 1)].op \notin {"ADDI", "TEQ", "SYSCALL"}
            /\ Wrap(a + 1) \notin Breaks /\ ~Irqs
  BY <1>1 DEF RegularUse
<1>3. hazard_unit \in {"HU_STALL", "HU_STALL_FORWARD"} /\ (~Forwards => hazard_unit = "HU_STALL")
  BY <1>1, <1>2 DEF HazardUnits, Forwards
<1>4. /\ \A a \in Addr : Encodable(program[a])
      /\ \A a \in Addr : program[a].op \in BranchOps => program[Wrap(a + 1)].op \notin BranchOps
  BY <1>2 DEF Regular
<1>5. ASSUME NEW a \in Addr
      PROVE  Wrap(a - 1) \in Addr /\ Wrap(Wrap(a - 1) + 1) = a
  BY Zeros, WrapForth
<1>6. \A a \in Addr : BehindBranch(a) => program[a].op \notin BranchOps \cup {"ERET"}
  <2> SUFFICES ASSUME NEW a \in Addr, BehindBranch(a)
               PROVE  program[a].op \notin BranchOps \cup {"ERET"}
    OBVIOUS
  <2> DEFINE b == Wrap(a - 1)
  <2>1. b \in Addr /\ Wrap(b + 1) = a /\ program[b].op \in BranchOps
    BY <1>5 DEF BehindBranch
  <2> HIDE DEF b
  <2> QED
    BY <1>2, <1>4, <2>1
<1>7. ~Forwards => \A a \in Addr : BehindBranch(a) =>
                 /\ program[a].op \notin {"ADDI", "TEQ", "SYSCALL"}
                 /\ a \notin Breaks /\ ~Irqs
  <2> SUFFICES ASSUME ~Forwards, NEW a \in Addr, BehindBranch(a)
               PROVE  /\ program[a].op \notin {"ADDI", "TEQ", "SYSCALL"}
                      /\ a \notin Breaks /\ ~Irqs
    OBVIOUS
  <2> DEFINE b == Wrap(a - 1)
  <2>1. b \in Addr /\ Wrap(b + 1) = a /\ program[b].op \in BranchOps
    BY <1>5 DEF BehindBranch
  <2> HIDE DEF b
  <2> QED
    BY <1>2, <1>3, <2>1
<1> QED
  BY <1>1, <1>2, <1>3, <1>4, <1>6, <1>7

\* The instruction in decode executes: with an exception it does nothing else,
\* without one it has its whole effect.
Found == IF Fetched(dt_d).excause = "NONE"
         THEN Raises(program[dt_d.inst_addr], ArchGp) ELSE Fetched(dt_d).excause

LEMMA InstructionExecutes ==
    ASSUME PipeInv, RegularUse, dt_d.is_valid
    PROVE  LET i == program[dt_d.inst_addr]
           IN  /\ e1.excause = Found /\ e1.inst_addr = dt_d.inst_addr
               /\ e1.in_delay_slot = dt_d.in_delay_slot
               /\ Found # "NONE" => /\ NextGp = ArchGp /\ Stored(e1, mem1) = mem1
                                    /\ cop01 = cop0 /\ pc1 = pc
               /\ Found = "NONE" =>
                     /\ e1.stop_if <=> i.op = "ERET"
                     /\ e1.memread <=> i.op \in {"LW", "SC"}
                     /\ NextGp = Result(i, dt_d.inst_addr, ArchGp, mem1, cop0)
                     /\ Stored(e1, mem1) =
                           IF i.op \in {"SW", "SC"}
                           THEN [mem1 EXCEPT ![Wrap(ArchGp[i.rs] + i.imm)] = ArchGp[i.rt]] ELSE mem1
                     /\ cop01 = IF i.op = "MTC0" THEN [cop0 EXCEPT !.epc = ArchGp[i.rt]]
                                ELSE IF i.op = "ERET" THEN [cop0 EXCEPT !.exl = FALSE] ELSE cop0
                     /\ pc1 = IF i.op = "ERET" THEN cop0.epc ELSE pc
<1> DEFINE f == Fetched(dt_d)
           i == program[dt_d.inst_addr]
           g == ArchGp
           x == Decode(f, g)
           y == Execute(x, cop0)
<1>1. /\ g \in [Reg -> Val] /\ g[0] = 0 /\ cop0 \in Cop0Type /\ mem1 \in [Addr -> Val]
  BY ArchTypes
<1>2. /\ f \in FetchLatch /\ f.inst = i /\ f.inst_addr = dt_d.inst_addr
      /\ f.in_delay_slot = dt_d.in_delay_slot /\ i.op \in Ops
      /\ CauseHolds(f.excause, dt_d.inst_addr) /\ dt_d.inst_addr \in Addr
  BY FetchedType
<1>3. Encodable(i)
  BY <1>2, ProgramIsRegular
<1>4. Agrees(dt_d, x)
  BY DEF PipeInv, OperandsReady
<1> HIDE DEF f, g, i
<1>5. /\ e1.memread = y.memread /\ e1.inst_addr = y.inst_addr
      /\ e1.excause = y.excause /\ e1.in_delay_slot = y.in_delay_slot
      /\ e1.stop_if = y.stop_if
      /\ cop01 = ExecuteCop0(x, cop0) /\ pc1 = ExecutePc(x, cop0, pc)
  BY <1>1, <1>2, <1>4, SameExecute DEF e1, cop01, pc1
<1>6. /\ Stored(e1, mem1) = Stored(y, mem1)
      /\ NextGp = Writeback(Memory(y, mem1), g)
  BY <1>1, <1>2, <1>4, SameWork, ArchNow DEF e1, NextGp, g
<1>7. y.excause = IF f.excause = "NONE" THEN Raises(i, g) ELSE f.excause
  BY <1>1, <1>2, ExecuteRaises
<1>8. e1.excause = Found
  BY <1>5, <1>7 DEF Found, f, i, g
<1>9. e1.inst_addr = dt_d.inst_addr /\ e1.in_delay_slot = dt_d.in_delay_slot
  BY DEF e1, Execute
<1>10. ASSUME Found # "NONE"
       PROVE  NextGp = ArchGp /\ Stored(e1, mem1) = mem1 /\ cop01 = cop0 /\ pc1 = pc
  <2>1. e1 \in ExecuteLatch /\ e1.excause # "NONE"
    BY <1>8, <1>10, CycleTypes DEF PipeInv, PInv
  <2>2. Stored(e1, mem1) = mem1 /\ NextGp = ArchGp
    BY <2>1, FaultyEffect, ArchNow DEF NextGp
  <2>3. ~(f.excause = "NONE" /\ i.op \in {"MTC0", "ERET"})
    BY <1>5, <1>7, <2>1 DEF Raises
  <2>4. cop01 = cop0 /\ pc1 = pc
    BY <1>1, <1>2, <1>5, <2>3, Cop0Effect
  <2> QED
    BY <2>2, <2>4
<1>11. ASSUME Found = "NONE"
       PROVE  /\ e1.stop_if <=> i.op = "ERET"
              /\ e1.memread <=> i.op \in {"LW", "SC"}
              /\ NextGp = Result(i, dt_d.inst_addr, g, mem1, cop0)
              /\ Stored(e1, mem1) =
                    IF i.op \in {"SW", "SC"}
                    THEN [mem1 EXCEPT ![Wrap(g[i.rs] + i.imm)] = g[i.rt]] ELSE mem1
              /\ cop01 = IF i.op = "MTC0" THEN [cop0 EXCEPT !.epc = g[i.rt]]
                         ELSE IF i.op = "ERET" THEN [cop0 EXCEPT !.exl = FALSE] ELSE cop0
              /\ pc1 = IF i.op = "ERET" THEN cop0.epc ELSE pc
  <2>1. f.excause = "NONE" /\ Raises(f.inst, g) = "NONE"
    <3>1. IF f.excause = "NONE" THEN Raises(i, g) = "NONE" ELSE f.excause = "NONE"
      BY <1>11 DEF Found, f, g, i
    <3> QED
      BY <1>2, <3>1
  <2>2. (y.stop_if <=> i.op = "ERET") /\ (y.memread <=> i.op \in {"LW", "SC"})
    BY <1>1, <1>2, <2>1, ExecuteFields
  <2>3. Writeback(Memory(y, mem1), g) = Result(i, dt_d.inst_addr, g, mem1, cop0)
    BY <1>1, <1>2, <1>3, <2>1, PlainResult
  <2>4. Stored(y, mem1) = IF i.op \in {"SW", "SC"}
                          THEN [mem1 EXCEPT ![Wrap(g[i.rs] + i.imm)] = g[i.rt]] ELSE mem1
    BY <1>1, <1>2, <2>1, PlainStored
  <2>5. /\ ExecuteCop0(x, cop0) =
              IF f.excause = "NONE" /\ f.inst.op = "MTC0" THEN [cop0 EXCEPT !.epc = g[f.inst.rt]]
              ELSE IF f.excause = "NONE" /\ f.inst.op = "ERET" THEN [cop0 EXCEPT !.exl = FALSE]
              ELSE cop0
        /\ ExecutePc(x, cop0, pc) =
              IF f.excause = "NONE" /\ f.inst.op = "ERET" THEN cop0.epc ELSE pc
    BY <1>1, <1>2, Cop0Effect
  <2>6. /\ cop01 = IF i.op = "MTC0" THEN [cop0 EXCEPT !.epc = g[i.rt]]
                   ELSE IF i.op = "ERET" THEN [cop0 EXCEPT !.exl = FALSE] ELSE cop0
        /\ pc1 = IF i.op = "ERET" THEN cop0.epc ELSE pc
    <3> HIDE DEF x
    <3> QED
      BY <1>2, <1>5, <2>1, <2>5
  <2> HIDE DEF x, y
  <2> QED
    BY <1>5, <1>6, <2>2, <2>3, <2>4, <2>6
<1> QED
  BY <1>8, <1>9, <1>10, <1>11 DEF g, i

-----------------------------------------------------------------------------
(* The instruction that leaves decode has its operands: what the older two *)
(* write is forwarded, or waited for.                                      *)

\* the registers that the instructions in execute and in memory leave behind
LEMMA NextRegister ==
    ASSUME PipeInv, NoException, NEW r \in Reg
    PROVE  /\ NextGp[r] = IF Writes(e1, r) THEN Memory(e1, mem1).towrite_val
                          ELSE IF Writes(m1, r) THEN m1.towrite_val ELSE gp1[r]
           /\ Writes(e1, r) /\ ~e1.memread => Memory(e1, mem1).towrite_val = e1.alu_val
<1> DEFINE m2 == Memory(e1, mem1)
<1>1. /\ m1 \in MemoryLatch /\ e1 \in ExecuteLatch /\ m2 \in MemoryLatch
      /\ gp1 \in [Reg -> Val] /\ gp1[0] = 0
      /\ ArchGp \in [Reg -> Val] /\ ArchGp[0] = 0 /\ NextGp[0] = 0
  BY ArchTypes, CycleTypes, MemoryType DEF PipeInv, PInv
<1>2. /\ m1.rwrite \in Reg /\ m1.towrite_val \in Val
      /\ m2.rwrite \in Reg /\ m2.towrite_val \in Val
  BY <1>1 DEF MemoryLatch
<1>3. m2.rwrite = e1.rwrite /\ (m2.regwrite <=> e1.regwrite)
  BY DEF Memory, NoException
<1> HIDE DEF m2
<1>4. r # 0 => ArchGp[r] = IF Writes(m1, r) THEN m1.towrite_val ELSE gp1[r]
  BY <1>1, <1>2, ArchNow DEF Writeback, WriteGp, Writes
<1>5. r # 0 => NextGp[r] = IF Writes(m2, r) THEN m2.towrite_val ELSE ArchGp[r]
  BY <1>1, <1>2, ArchNow DEF NextGp, Writeback, WriteGp, Writes, m2
<1>6. Writes(m2, r) <=> Writes(e1, r)
  BY <1>3 DEF Writes
<1>7. NextGp[r] = IF Writes(e1, r) THEN m2.towrite_val
                  ELSE IF Writes(m1, r) THEN m1.towrite_val ELSE gp1[r]
  BY <1>1, <1>4, <1>5, <1>6 DEF Writes
<1>8. ASSUME Writes(e1, r), ~e1.memread PROVE m2.towrite_val = e1.alu_val
  <2>1. e1.rwrite = dt_d.rwrite /\ e1.memctl = dt_d.memctl
        /\ (e1.memread <=> "MEMREAD" \in dt_d.flags)
    BY DEF e1, Execute
  <2>2. dt_d.is_valid
    BY <1>8, <2>1 DEF PipeInv, FromProgram, Empty, Writes
  <2>3. LET i == Fetched(dt_d).inst
        IN  /\ i.op \in Ops /\ dt_d.flags = InstructionMap[i.op].flags
            /\ dt_d.memctl = InstructionMap[i.op].memctl
    BY <1>1, <2>2, FetchedType, DecodeFields DEF PipeInv, OperandsReady, Agrees
  <2>4. e1.memctl # "STORE_CONDITIONAL"
    BY <1>8, <2>1, <2>3, TableColumns DEF FlagsOf, MemctlOf
  <2> QED
    BY <1>8, <2>4 DEF Memory, m2
<1> QED
  BY <1>7, <1>8 DEF m2

LEMMA ForwardedOperand ==
    ASSUME NEW d, NEW m, NEW e, NEW alu, NEW branch, NEW r, NEW v,
           alu \in d.flags \/ branch \in d.flags, ~BranchHazard(d, e),
           alu \in d.flags => /\ Writes(m, r) => Forwards
                              /\ Writes(e, r) => Forwards /\ ~e.memread,
           branch \in d.flags => /\ ~Writes(e, r)
                                 /\ Writes(m, r) => Forwards /\ ~m.memtoreg
    PROVE  ForwardedBranch(d, m, e, branch, r, ForwardedAlu(d, m, e, alu, r, v)) =
             IF Writes(e, r) THEN e.alu_val ELSE IF Writes(m, r) THEN m.towrite_val ELSE v
<1>1. alu \in d.flags => ForwardedAlu(d, m, e, alu, r, v) =
             IF Writes(e, r) THEN e.alu_val ELSE IF Writes(m, r) THEN m.towrite_val ELSE v
  BY DEF ForwardedAlu
<1>2. alu \notin d.flags => ForwardedAlu(d, m, e, alu, r, v) = v
  BY DEF ForwardedAlu
<1> DEFINE w == ForwardedAlu(d, m, e, alu, r, v)
<1> HIDE DEF w
<1>3. ForwardedBranch(d, m, e, branch, r, w) =
        IF Forwards /\ ~m.memtoreg /\ branch \in d.flags /\ Writes(m, r) THEN m.towrite_val ELSE w
  BY DEF ForwardedBranch
<1>4. CASE branch \in d.flags
  BY <1>1, <1>2, <1>3, <1>4 DEF w
<1>5. CASE branch \notin d.flags
  BY <1>1, <1>3, <1>5 DEF w
<1> QED
  BY <1>4, <1>5

LEMMA ForwardedAgrees ==
    ASSUME PipeInv, RegularUse, NoException, ~HazardStall(d1, m1, e1) \/ StopsFetch(d1)
    PROVE  Agrees(Forwarded(d1, m1, e1), Decode(dt_f, NextGp))
<1> DEFINE d == Forwarded(d1, m1, e1)
           x == Decode(dt_f, NextGp)
           i == dt_f.inst
           F == InstructionMap[i.op].flags
<1>1. /\ dt_f \in FetchLatch /\ d1 \in DecodeLatch /\ m1 \in MemoryLatch /\ e1 \in ExecuteLatch
      /\ gp1 \in [Reg -> Val] /\ gp1[0] = 0 /\ NextGp \in [Reg -> Val] /\ NextGp[0] = 0
  BY ArchTypes, CycleTypes DEF PipeInv, PInv, TypeOK
<1>2. i.op \in Ops /\ i.rs \in Reg /\ i.rt \in Reg
  BY <1>1, Operands
<1>3. /\ x.inst = i /\ x.flags = F
      /\ x.aluop = InstructionMap[i.op].alu /\ x.memctl = InstructionMap[i.op].memctl
      /\ x.val_rs = NextGp[i.rs]
      /\ x.val_rt = IF i.op \in LinkOps THEN Wrap(dt_f.inst_addr + 2) ELSE NextGp[i.rt]
  BY <1>1, DecodeFields
<1>4. /\ d1.inst = i /\ d1.flags = F
      /\ d1.val_rs = gp1[i.rs]
      /\ d1.val_rt = IF i.op \in LinkOps THEN Wrap(dt_f.inst_addr + 2) ELSE gp1[i.rt]
  BY <1>1, DecodeFields DEF d1
<1>5. d1.num_rs = i.rs /\ d1.num_rt = i.rt
  BY DEF d1, Decode
<1>6. FlagsOf(i.op)
  BY <1>2, TableColumns
<1>7. /\ d1.inst = x.inst /\ d1.flags = x.flags /\ d1.aluop = x.aluop /\ d1.memctl = x.memctl
      /\ d1.immediate_val = x.immediate_val /\ d1.rwrite = x.rwrite
      /\ d1.inst_addr = x.inst_addr /\ d1.excause = x.excause
      /\ d1.in_delay_slot = x.in_delay_slot /\ d1.is_valid = x.is_valid
  BY DEF d1, Decode
<1> DEFINE rs == ForwardedBranch(d1, m1, e1, "BJR_REQ_RS", i.rs,
                     ForwardedAlu(d1, m1, e1, "ALU_REQ_RS", i.rs, d1.val_rs))
           rt == ForwardedBranch(d1, m1, e1, "BJR_REQ_RT", i.rt,
                     ForwardedAlu(d1, m1, e1, "ALU_REQ_RT", i.rt, d1.val_rt))
<1>8. d = [d1 EXCEPT !.val_rs = rs, !.val_rt = rt]
  BY <1>5 DEF Forwarded
<1> HIDE DEF d, x, i, F, rs, rt
<1>9. /\ d.inst = d1.inst /\ d.flags = d1.flags /\ d.aluop = d1.aluop /\ d.memctl = d1.memctl
      /\ d.immediate_val = d1.immediate_val /\ d.rwrite = d1.rwrite
      /\ d.inst_addr = d1.inst_addr /\ d.excause = d1.excause
      /\ d.in_delay_slot = d1.in_delay_slot /\ d.is_valid = d1.is_valid
      /\ d.val_rs = rs /\ d.val_rt = rt
  BY <1>1, <1>8 DEF DecodeLatch
<1>10. StopsFetch(d1) => ~NeedsRs(x) /\ ~NeedsRt(x)
  <2>1. StopsFetch(d1) <=> i.op = "ERET"
    BY <1>4, <1>6 DEF StopsFetch, FlagsOf, F
  <2>2. x.flags = InstructionMap[i.op].flags
    BY <1>3 DEF F
  <2> QED
    BY <1>2, <2>1, <2>2, NeededOperands
<1>11. ASSUME ~HazardStall(d1, m1, e1)
       PROVE  /\ ~BranchHazard(d1, e1)
              /\ AluHazard(d1, m1) => Forwards
              /\ AluHazard(d1, e1) => Forwards /\ ~e1.memread
              /\ BranchHazard(d1, m1) => Forwards /\ ~m1.memtoreg
  <2>1. hazard_unit # "HU_NONE"
    BY ProgramIsRegular
  <2> QED
    BY <1>11, <2>1 DEF HazardStall
<1>12. NeedsRs(x) => d.val_rs = x.val_rs
  <2> SUFFICES ASSUME NeedsRs(x) PROVE rs = NextGp[i.rs]
    BY <1>3, <1>9
  <2>1. "ALU_REQ_RS" \in d1.flags \/ "BJR_REQ_RS" \in d1.flags
    BY <1>7 DEF NeedsRs
  <2>2. ~HazardStall(d1, m1, e1)
    BY <1>10
  <2>3. "ALU_REQ_RS" \in d1.flags => /\ Writes(m1, i.rs) => Forwards
                                     /\ Writes(e1, i.rs) => Forwards /\ ~e1.memread
    BY <1>5, <1>11, <2>2 DEF AluHazard
  <2>4. "BJR_REQ_RS" \in d1.flags => /\ ~Writes(e1, i.rs)
                                     /\ Writes(m1, i.rs) => Forwards /\ ~m1.memtoreg
    BY <1>5, <1>11, <2>2 DEF BranchHazard
  <2>5. rs = IF Writes(e1, i.rs) THEN e1.alu_val
             ELSE IF Writes(m1, i.rs) THEN m1.towrite_val ELSE d1.val_rs
    <3>1. ~BranchHazard(d1, e1)
      BY <1>11, <2>2
    <3> QED
      BY <2>1, <2>3, <2>4, <3>1, ForwardedOperand DEF rs
  <2>6. Writes(e1, i.rs) => ~e1.memread
    BY <2>1, <2>3, <2>4, Zenon
  <2> QED
    BY <1>2, <1>4, <2>5, <2>6, NextRegister
<1>13. NeedsRt(x) => d.val_rt = x.val_rt
  <2>1. CASE ~NeedsRt(x)
    BY <2>1
  <2>2. CASE i.op \in LinkOps
    <3>1. "ALU_REQ_RT" \notin d1.flags /\ "BJR_REQ_RT" \notin d1.flags
      <4>1. "BJR_REQ_RT" \notin F
        BY <1>6, <2>2 DEF FlagsOf, LinkOps, F
      <4>2. "ALU_REQ_RT" \notin F
        <5> USE DEF F, InstructionMap, Entry, FLAGS_J_B_PC_TO_R31
        <5>1. CASE i.op = "JAL"
          BY <5>1
        <5>2. CASE i.op = "BLTZAL"
          BY <5>2
        <5>3. CASE i.op = "JALR"
          BY <5>3
        <5> QED
          BY <2>2, <5>1, <5>2, <5>3 DEF LinkOps
      <4> QED
        BY <1>4, <4>1, <4>2
    <3>2. rt = d1.val_rt
      BY <3>1 DEF rt, ForwardedBranch, ForwardedAlu
    <3> QED
      BY <1>3, <1>4, <1>9, <2>2, <3>2
  <2>3. CASE NeedsRt(x) /\ i.op \notin LinkOps
    <3>1. "ALU_REQ_RT" \in d1.flags \/ "BJR_REQ_RT" \in d1.flags
      BY <1>3, <1>6, <1>7, <2>3 DEF NeedsRt, FlagsOf, LinkOps, F
    <3>2. ~HazardStall(d1, m1, e1)
      BY <1>10, <2>3
    <3>3. "ALU_REQ_RT" \in d1.flags => /\ Writes(m1, i.rt) => Forwards
                                       /\ Writes(e1, i.rt) => Forwards /\ ~e1.memread
      BY <1>5, <1>11, <3>2 DEF AluHazard
    <3>4. "BJR_REQ_RT" \in d1.flags => /\ ~Writes(e1, i.rt)
                                       /\ Writes(m1, i.rt) => Forwards /\ ~m1.memtoreg
      BY <1>5, <1>11, <3>2 DEF BranchHazard
    <3>5. d1.val_rt = gp1[i.rt]
      BY <1>4, <2>3
    <3>6. rt = IF Writes(e1, i.rt) THEN e1.alu_val
               ELSE IF Writes(m1, i.rt) THEN m1.towrite_val ELSE d1.val_rt
      <4>1. ~BranchHazard(d1, e1)
        BY <1>11, <3>2
      <4> QED
        BY <3>1, <3>3, <3>4, <4>1, ForwardedOperand DEF rt
    <3>7. Writes(e1, i.rt) => ~e1.memread
      BY <3>1, <3>3, <3>4, Zenon
    <3>8. rt = NextGp[i.rt]
      BY <1>2, <3>5, <3>6, <3>7, NextRegister
    <3> QED
      BY <1>3, <1>9, <2>3, <3>8
  <2> QED
    BY <2>1, <2>2, <2>3
<1> QED
  BY <1>7, <1>9, <1>12, <1>13 DEF Agrees, d, x

-----------------------------------------------------------------------------
(* One cycle without an exception: the instruction in dt_f is next.        *)

Continues ==
    /\ ArchPc' = IF dt_f.is_valid THEN dt_f.inst_addr ELSE pc1
    /\ ArchSlot' = IF dt_f.is_valid /\ dt_f.in_delay_slot THEN pc1 ELSE -1

LEMMA FetchedFollows ==
    ASSUME PipeInv, RegularUse, dt_f.is_valid
    PROVE  /\ pc1 = pc /\ dt_f \in FetchLatch /\ dt_f.inst_addr \in Addr
           /\ dt_f.inst = program[dt_f.inst_addr]
           /\ CauseHolds(dt_f.excause, dt_f.inst_addr)
           /\ dt_f.in_delay_slot =>
                 BehindBranch(dt_f.inst_addr) /\ dt_f.inst.op \notin BranchOps \cup {"ERET"}
           /\ ~dt_f.in_delay_slot => pc1 = Wrap(dt_f.inst_addr + 1)
<1>1. dt_f \in FetchLatch /\ dt_f.inst_addr \in Addr
  BY DEF PipeInv, PInv, TypeOK, FetchLatch
<1>2. dt_f.inst = program[dt_f.inst_addr] /\ CauseHolds(dt_f.excause, dt_f.inst_addr)
  BY DEF PipeInv, FromProgram
<1>3. dt_f.in_delay_slot =>
        BehindBranch(dt_f.inst_addr) /\ dt_f.inst.op \notin BranchOps \cup {"ERET"}
  BY <1>1, <1>2, ProgramIsRegular DEF PipeInv, ProgramOrder
<1>4. pc1 = pc
  <2>1. CASE ~dt_d.is_valid
    BY <2>1, BubbleIdles
  <2>2. CASE dt_d.is_valid
    <3>1. "STOP_IF" \notin dt_d.flags
      BY DEF PipeInv, PInv, NothingYounger
    <3>2. /\ dt_d.inst.op \in Ops /\ dt_d.inst = program[dt_d.inst_addr]
          /\ dt_d.flags = InstructionMap[dt_d.inst.op].flags
      <4>1. /\ Fetched(dt_d) \in FetchLatch /\ Fetched(dt_d).inst = program[dt_d.inst_addr]
            /\ Fetched(dt_d).inst.op \in Ops
        BY <2>2, FetchedType
      <4>2. dt_d.inst = Fetched(dt_d).inst
        BY DEF Fetched
      <4>3. dt_d.flags = InstructionMap[Fetched(dt_d).inst.op].flags
        <5>1. dt_d.flags = Decode(Fetched(dt_d), ArchGp).flags
          BY <2>2 DEF PipeInv, OperandsReady, Agrees
        <5>2. Decode(Fetched(dt_d), ArchGp).flags = InstructionMap[Fetched(dt_d).inst.op].flags
          BY <4>1, ArchTypes, DecodeFields
        <5> QED
          BY <5>1, <5>2
      <4> QED
        BY <4>1, <4>2, <4>3
    <3>3. program[dt_d.inst_addr].op # "ERET"
      BY <3>1, <3>2, TableColumns DEF FlagsOf
    <3> QED
      BY <2>2, <3>3, InstructionExecutes
  <2> QED
    BY <2>1, <2>2
<1> QED
  BY <1>1, <1>2, <1>3, <1>4 DEF PipeInv, ProgramOrder

\* What fetch finds, and what was found, holds in the next state, too.
LEMMA CauseStays ==
    ASSUME PipeInv, cop0' = cop01, NEW c, NEW a, CauseHolds(c, a)
    PROVE  /\ c \in {"NONE", "INT", "HWBREAK"}
           /\ c = "INT" => Irqs /\ ~cop0'.exl
           /\ c = "HWBREAK" => a \in Breaks
<1>1. cop0 \in Cop0Type
  BY ArchTypes
<1>2. \/ cop01 = cop0
      \/ cop01 = [cop0 EXCEPT !.exl = FALSE]
      \/ \E v : cop01 = [cop0 EXCEPT !.epc = v]
  BY DEF cop01, ExecuteCop0
<1>3. cop01.exl = FALSE \/ cop01.exl = cop0.exl
  BY <1>1, <1>2 DEF Cop0Type
<1> QED
  BY <1>3 DEF CauseHolds

LEMMA FetchCause ==
    ASSUME PipeInv, cop0' = cop01, NEW skip_break \in BOOLEAN, NEW irq \in {FALSE, Irqs}
    PROVE  LET f == Fetch(program, pc1, skip_break, irq, cop01)
           IN  /\ f \in FetchLatch /\ f.inst = program[pc1] /\ f.inst_addr = pc1
               /\ f.in_delay_slot = FALSE /\ f.is_valid = TRUE
               /\ f.excause \in {"NONE", "INT", "HWBREAK"}
               /\ f.excause = "INT" => Irqs /\ ~cop0'.exl
               /\ f.excause = "HWBREAK" => pc1 \in Breaks
<1> DEFINE f == Fetch(program, pc1, skip_break, irq, cop01)
<1>1. f \in FetchLatch /\ f.inst = program[pc1] /\ f.inst_addr = pc1
      /\ f.in_delay_slot = FALSE /\ f.is_valid = TRUE
  BY CycleTypes, FetchType DEF PipeInv, PInv, TypeOK, Fetch
<1>2. f.excause = IF pc1 \in Breaks /\ ~skip_break THEN "HWBREAK"
                  ELSE IF irq /\ ~cop0'.exl THEN "INT" ELSE "NONE"
  BY DEF Fetch
<1> HIDE DEF f
<1>3. CASE pc1 \in Breaks /\ ~skip_break
  BY <1>1, <1>2, <1>3 DEF f
<1>4. CASE ~(pc1 \in Breaks /\ ~skip_break) /\ irq /\ ~cop0'.exl
  <2>1. Irqs
    BY <1>4
  <2>2. f.excause = "INT"
    BY <1>2, <1>4
  <2> QED
    BY <1>1, <1>4, <2>1, <2>2 DEF f
<1>5. CASE ~(pc1 \in Breaks /\ ~skip_break) /\ ~(irq /\ ~cop0'.exl)
  <2>1. f.excause = "NONE"
    BY <1>2, <1>5
  <2> QED
    BY <1>1, <2>1 DEF f
<1> QED
  BY <1>3, <1>4, <1>5

\* What is fetched behind a bubble is not in a delay slot, and a bubble follows it.
LEMMA BubbleDecodes ==
    ASSUME PipeInv, ~dt_f.is_valid
    PROVE  LET d == Forwarded(d1, m1, e1)
           IN  /\ Empty(d) /\ ~StopsFetch(d1) /\ ~BranchTaken(d) /\ "NB_SKIP_DS" \notin d.flags
               /\ HandlePc(d, pc1) = Wrap(pc1 + 1)
<1> DEFINE d == Forwarded(d1, m1, e1)
<1>1. dt_f.inst = NopInst /\ dt_f.excause = "NONE" /\ dt_f \in FetchLatch
  BY DEF PipeInv, PInv, BubbleIsNop, TypeOK
<1>2. /\ d1.flags = FLAGS_ALU_T_R_D \cup {"ALU_REQ_RT"} /\ d1.aluop = "SLL"
      /\ d1.rwrite = 0 /\ d1.excause = "NONE" /\ ~d1.is_valid
  <2>1. InstructionMap["NOP"] = [alu |-> "SLL", memctl |-> "NONE",
                                 flags |-> FLAGS_ALU_T_R_D \cup {"ALU_REQ_RT"}]
    BY DEF InstructionMap, Entry
  <2>2. dt_f.inst.op = "NOP" /\ dt_f.inst.rd = 0
    BY <1>1 DEF NopInst
  <2> QED
    BY <1>1, <2>1, <2>2, ArchTypes, DecodeFields DEF d1
<1>3. d1 \in DecodeLatch
  BY CycleTypes DEF PipeInv, PInv
<1>4. /\ d.flags = d1.flags /\ d.aluop = d1.aluop /\ d.rwrite = d1.rwrite
      /\ d.excause = d1.excause /\ d.is_valid = d1.is_valid
  BY <1>3 DEF Forwarded, DecodeLatch
<1> HIDE DEF d
<1>5. Empty(d) /\ ~StopsFetch(d1)
  BY <1>2, <1>4 DEF Empty, StopsFetch, FLAGS_ALU_T_R_D
<1>6. ~BranchTaken(d) /\ "NB_SKIP_DS" \notin d.flags /\ "JUMP" \notin d.flags
  BY <1>2, <1>4 DEF BranchTaken, FLAGS_ALU_T_R_D
<1> QED
  BY <1>5, <1>6 DEF HandlePc, d

\* The instruction that goes on to execute is the one that was fetched.
LEMMA DecodedNext ==
    ASSUME PipeInv, RegularUse, NoException, ~HazardStall(d1, m1, e1) \/ StopsFetch(d1),
           dt_d' = Forwarded(d1, m1, e1), dt_e' = e1, dt_m' = m1, gp' = gp1, mem' = mem1
    PROVE  /\ OperandsReady'
           /\ dt_d'.inst = dt_f.inst /\ dt_d'.inst_addr = dt_f.inst_addr
           /\ dt_d'.in_delay_slot = dt_f.in_delay_slot /\ dt_d'.is_valid = dt_f.is_valid
           /\ dt_f.is_valid => Fetched(dt_d') = dt_f
<1> DEFINE d == Forwarded(d1, m1, e1)
           x == Decode(dt_f, NextGp)
<1>1. dt_f \in FetchLatch /\ NextGp \in [Reg -> Val] /\ NextGp[0] = 0 /\ gp1[0] = 0
  BY ArchTypes DEF PipeInv, PInv, TypeOK
<1>2. Agrees(d, x)
  BY ForwardedAgrees
<1>3. /\ x.inst = dt_f.inst /\ x.inst_addr = dt_f.inst_addr
      /\ x.excause = IF dt_f.inst.op = "SYSCALL" /\ dt_f.excause = "NONE"
                     THEN "SYSCALL" ELSE dt_f.excause
      /\ x.in_delay_slot = dt_f.in_delay_slot /\ x.is_valid = dt_f.is_valid
  BY <1>1, DecodeFields
<1> HIDE DEF d, x
<1>4. /\ d.inst = dt_f.inst /\ d.inst_addr = dt_f.inst_addr /\ d.excause = x.excause
      /\ d.in_delay_slot = dt_f.in_delay_slot /\ d.is_valid = dt_f.is_valid
  BY <1>2, <1>3 DEF Agrees
<1>5. ASSUME dt_f.is_valid PROVE Fetched(d) = dt_f
  <2>1. dt_f.excause \in {"NONE", "INT", "HWBREAK"}
    BY <1>5 DEF PipeInv, FromProgram, CauseHolds
  <2>2. (IF d.excause = "SYSCALL" THEN "NONE" ELSE d.excause) = dt_f.excause
    BY <1>3, <1>4, <2>1
  <2>3. Fetched(d) = [inst |-> dt_f.inst, inst_addr |-> dt_f.inst_addr,
                      excause |-> dt_f.excause, in_delay_slot |-> dt_f.in_delay_slot,
                      is_valid |-> dt_f.is_valid]
    BY <1>4, <2>2 DEF Fetched
  <2> QED
    BY <1>1, <2>3 DEF FetchLatch
<1>6. ArchGp' = NextGp
  BY ArchNext
<1>7. dt_d' = d
  BY DEF d
<1>8. OperandsReady'
  <2>1. gp'[0] = 0
    BY <1>1
  <2>2. ASSUME dt_d'.is_valid PROVE Agrees(dt_d', Decode(Fetched(dt_d'), ArchGp'))
    <3>1. Fetched(dt_d') = dt_f
      BY <1>4, <1>5, <1>7, <2>2
    <3> QED
      BY <1>2, <1>6, <1>7, <3>1 DEF x
  <2> QED
    BY <2>1, <2>2 DEF OperandsReady
<1> QED
  BY <1>4, <1>5, <1>7, <1>8

\* No exception is on its way after such a cycle.
LEMMA NoTrapNext ==
    ASSUME NoException, dt_e' = e1
    PROVE  ~Traps' /\ TrapHolds'
BY DEF NoException, Traps, TrapHolds

LEMMA FetchNextKeeps ==
    ASSUME PipeInv, RegularUse, NEW skip_break \in BOOLEAN, NEW irq \in {FALSE, Irqs},
           FetchNext(skip_break, irq)
    PROVE  /\ OperandsReady' /\ FromProgram' /\ TrapHolds' /\ ProgramOrder' /\ BranchAddress'
           /\ Continues
<1> DEFINE d == Forwarded(d1, m1, e1)
           x == Decode(dt_f, NextGp)
           f == Fetch(program, pc1, skip_break, irq, cop01)
           i == dt_f.inst
           a == dt_f.inst_addr
<1>1. /\ NoException /\ ~HazardStall(d1, m1, e1) /\ ~StopsFetch(d1)
      /\ dt_d' = d /\ dt_m' = m1 /\ dt_e' = e1 /\ gp' = gp1 /\ mem' = mem1 /\ cop0' = cop01
      /\ hazard_unit' = hazard_unit /\ program' = program /\ pc' = HandlePc(d, pc1)
      /\ dt_f' = IF BranchTaken(d) THEN [f EXCEPT !.in_delay_slot = TRUE]
                 ELSE IF "NB_SKIP_DS" \in d.flags THEN FetchInit(f) ELSE f
  BY DEF FetchNext, Stall, setup
<1>2. /\ OperandsReady' /\ TrapHolds' /\ ~Traps'
      /\ dt_d'.inst = i /\ dt_d'.inst_addr = a
      /\ dt_d'.in_delay_slot = dt_f.in_delay_slot /\ dt_d'.is_valid = dt_f.is_valid
      /\ dt_f.is_valid => Fetched(dt_d') = dt_f
  BY <1>1, DecodedNext, NoTrapNext
<1>3. /\ f \in FetchLatch /\ f.inst = program[pc1] /\ f.inst_addr = pc1
      /\ f.in_delay_slot = FALSE /\ f.is_valid = TRUE
      /\ f.excause \in {"NONE", "INT", "HWBREAK"}
      /\ f.excause = "INT" => Irqs /\ ~cop0'.exl
      /\ f.excause = "HWBREAK" => pc1 \in Breaks
  BY <1>1, FetchCause
<1>4. dt_f.is_valid =>
        /\ pc1 = pc /\ a \in Addr /\ i = program[a] /\ CauseHolds(dt_f.excause, a)
        /\ dt_f.in_delay_slot => BehindBranch(a) /\ i.op \notin BranchOps \cup {"ERET"}
        /\ ~dt_f.in_delay_slot => pc1 = Wrap(a + 1)
  BY FetchedFollows
<1>5. ~dt_f.is_valid => /\ Empty(d) /\ ~BranchTaken(d) /\ "NB_SKIP_DS" \notin d.flags
                        /\ HandlePc(d, pc1) = Wrap(pc1 + 1)
  BY BubbleDecodes
<1>6. /\ BranchTaken(d) <=> Takes(i, NextGp)
      /\ HandlePc(d, pc1) = IF Takes(i, NextGp) THEN GoesTo(i, a, NextGp) ELSE Wrap(pc1 + 1)
      /\ "NB_SKIP_DS" \in d.flags <=> i.op = "BEQL"
  <2>1. dt_f \in FetchLatch /\ NextGp \in [Reg -> Val] /\ NextGp[0] = 0
    BY ArchTypes DEF PipeInv, PInv, TypeOK
  <2>2. Agrees(d, x)
    BY <1>1, ForwardedAgrees
  <2>3. /\ BranchTaken(d) <=> BranchTaken(x)
        /\ HandlePc(d, pc1) = HandlePc(x, pc1) /\ d.flags = x.flags
    BY <2>1, <2>2, SameBranch DEF Agrees
  <2>4. /\ BranchTaken(x) <=> Takes(i, NextGp)
        /\ HandlePc(x, pc1) = IF i.op \in {"JR", "JALR"} THEN NextGp[i.rs]
                              ELSE IF i.op \in {"J", "JAL"} THEN i.imm
                              ELSE IF BranchTaken(x) THEN Wrap(a + i.imm + 1)
                              ELSE Wrap(pc1 + 1)
        /\ "NB_SKIP_DS" \in x.flags <=> i.op = "BEQL"
    BY <2>1, BranchResolved DEF Takes
  <2> HIDE DEF d, x, i, a
  <2>5. HandlePc(x, pc1) = IF Takes(i, NextGp) THEN GoesTo(i, a, NextGp) ELSE Wrap(pc1 + 1)
    BY <2>4 DEF Takes, GoesTo, JumpOps
  <2> QED
    BY <2>3, <2>4, <2>5
<1>7. Takes(i, NextGp) => i.op \in BranchOps
  BY DEF Takes, BranchOps
<1>8. ArchGp' = NextGp
  BY <1>1, ArchNext
<1> HIDE DEF d, x, f, i, a
<1>9. /\ dt_f'.inst_addr = pc1 /\ (dt_f'.in_delay_slot <=> Takes(i, NextGp))
      /\ dt_f'.is_valid <=> i.op # "BEQL" \/ Takes(i, NextGp)
      /\ dt_f'.is_valid => dt_f'.inst = f.inst /\ dt_f'.excause = f.excause
  <2>1. CASE Takes(i, NextGp)
    <3>1. dt_f' = [f EXCEPT !.in_delay_slot = TRUE]
      BY <1>1, <1>6, <2>1
    <3> QED
      BY <1>3, <2>1, <3>1 DEF FetchLatch
  <2>2. CASE ~Takes(i, NextGp) /\ i.op = "BEQL"
    <3>1. dt_f' = FetchInit(f)
      BY <1>1, <1>6, <2>2
    <3> QED
      BY <1>3, <2>2, <3>1 DEF FetchLatch, FetchInit
  <2>3. CASE ~Takes(i, NextGp) /\ i.op # "BEQL"
    <3>1. dt_f' = f
      BY <1>1, <1>6, <2>3
    <3> QED
      BY <1>3, <2>3, <3>1
  <2> QED
    BY <2>1, <2>2, <2>3
<1>10. ~dt_f.is_valid => ~Takes(i, NextGp) /\ i.op # "BEQL"
  BY <1>5, <1>6
<1>11. pc' = IF Takes(i, NextGp) THEN GoesTo(i, a, NextGp) ELSE Wrap(pc1 + 1)
  BY <1>1, <1>6
\* a branch is not in a delay slot itself
<1>12. Takes(i, NextGp) => /\ dt_f.is_valid /\ ~dt_f.in_delay_slot /\ pc1 = Wrap(a + 1)
                           /\ a = Wrap(pc1 - 1)
  <2>1. Takes(i, NextGp) => dt_f.is_valid /\ ~dt_f.in_delay_slot /\ pc1 = Wrap(a + 1) /\ a \in Addr
    BY <1>4, <1>7, <1>10
  <2> QED
    BY <2>1, WrapBack, Zeros
<1>13. FromProgram'
  <2>1. hazard_unit' \in DOMAIN Programs /\ program' \in Programs[hazard_unit']
    BY <1>1 DEF PipeInv, FromProgram
  <2>2. dt_f'.is_valid => /\ dt_f'.inst = program'[dt_f'.inst_addr]
                          /\ CauseHolds(dt_f.excause, dt_f.inst_addr)'
    BY <1>1, <1>3, <1>9 DEF CauseHolds
  <2>3. ~dt_f'.is_valid => ~dt_f'.in_delay_slot
    BY <1>9
  <2>4. dt_d'.is_valid => /\ dt_d'.inst = program'[dt_d'.inst_addr]
                          /\ CauseHolds(Fetched(dt_d).excause, dt_d.inst_addr)'
    <3> SUFFICES ASSUME dt_d'.is_valid
                 PROVE  /\ dt_d'.inst = program'[dt_d'.inst_addr]
                        /\ CauseHolds(Fetched(dt_d).excause, dt_d.inst_addr)'
      OBVIOUS
    <3>1. /\ dt_d'.inst = program'[dt_d'.inst_addr] /\ CauseHolds(dt_f.excause, a)
          /\ Fetched(dt_d').excause = dt_f.excause
      BY <1>1, <1>2, <1>4
    <3>2. /\ dt_f.excause \in {"NONE", "INT", "HWBREAK"}
          /\ dt_f.excause = "INT" => Irqs /\ ~cop0'.exl
          /\ dt_f.excause = "HWBREAK" => a \in Breaks
      BY <1>1, <3>1, CauseStays
    <3> QED
      BY <1>2, <3>1, <3>2 DEF CauseHolds
  <2>5. ~dt_d'.is_valid => Empty(dt_d)'
    BY <1>1, <1>2, <1>5 DEF Empty
  <2> QED
    BY <2>1, <2>2, <2>3, <2>4, <2>5 DEF FromProgram
<1>14. ProgramOrder'
  <2>1. dt_f'.is_valid /\ ~dt_f'.in_delay_slot => pc' = Wrap(dt_f'.inst_addr + 1)
    BY <1>9, <1>11
  <2>2. dt_f'.in_delay_slot => BehindBranch(dt_f.inst_addr)'
    <3> SUFFICES ASSUME dt_f'.in_delay_slot PROVE program[Wrap(pc1 - 1)].op \in BranchOps
      BY <1>1, <1>9 DEF BehindBranch
    <3>1. Takes(i, NextGp)
      BY <1>9
    <3> QED
      BY <1>4, <1>7, <1>12, <3>1
  <2>3. dt_d'.is_valid /\ dt_d'.in_delay_slot => BehindBranch(dt_d.inst_addr)'
    BY <1>1, <1>2, <1>4 DEF BehindBranch
  <2>4. dt_d'.is_valid /\ dt_d'.inst.op # "ERET" => Follows(dt_d.inst, dt_d.inst_addr)'
    <3> SUFFICES ASSUME dt_d'.is_valid, dt_d'.inst.op # "ERET"
                 PROVE  Follows(dt_d.inst, dt_d.inst_addr)'
      OBVIOUS
    <3>1. dt_f.is_valid /\ (~dt_d'.in_delay_slot => dt_f'.inst_addr = Wrap(a + 1))
      BY <1>2, <1>4, <1>9
    <3>2. pc' = IF Takes(i, NextGp) THEN GoesTo(i, a, NextGp) ELSE Wrap(dt_f'.inst_addr + 1)
      BY <1>9, <1>11
    <3> QED
      BY <1>2, <1>8, <1>9, <3>1, <3>2 DEF Follows
  <2> QED
    BY <1>2, <2>1, <2>2, <2>3, <2>4 DEF ProgramOrder, Traps
<1>15. BranchAddress'
  <2>1. Forwards' <=> Forwards
    BY <1>1 DEF Forwards
  <2>2. dt_f'.in_delay_slot => dt_d'.is_valid /\ dt_d'.inst_addr = Wrap(dt_f'.inst_addr - 1)
    BY <1>2, <1>9, <1>12
  <2>3. Forwards /\ dt_d'.is_valid /\ dt_d'.in_delay_slot => dt_e'.inst_addr = Wrap(dt_d'.inst_addr - 1)
    <3>1. e1.inst_addr = dt_d.inst_addr
      BY DEF e1, Execute
    <3> QED
      BY <1>1, <1>2, <3>1 DEF PipeInv, BranchAddress, a
  <2> QED
    BY <1>2, <2>1, <2>2, <2>3 DEF BranchAddress
<1>16. Continues
  <2>1. CASE dt_f.is_valid
    <3>1. dt_d'.in_delay_slot <=> dt_f.in_delay_slot
      BY <1>2
    <3> QED
      BY <1>2, <1>9, <2>1, <3>1 DEF Continues, ArchPc, ArchSlot, a
  <2>2. CASE ~dt_f.is_valid
    BY <1>2, <1>9, <1>10, <2>2 DEF Continues, ArchPc, ArchSlot
  <2> QED
    BY <2>1, <2>2
<1> QED
  BY <1>2, <1>13, <1>14, <1>15, <1>16

\* With forwarding the instruction in a delay slot never waits: the branch before it
\* loads nothing, and it is no branch itself.
LEMMA SlotNeverWaits ==
    ASSUME PipeInv, RegularUse, NoException, Forwards, dt_f.is_valid, dt_f.in_delay_slot
    PROVE  ~Stall(d1, m1, e1)
<1>1. /\ dt_d.is_valid /\ dt_d.inst_addr = Wrap(dt_f.inst_addr - 1)
      /\ dt_d.inst = program[dt_d.inst_addr]
  BY DEF PipeInv, BranchAddress, FromProgram
<1>2. /\ dt_f \in FetchLatch /\ BehindBranch(dt_f.inst_addr)
      /\ dt_f.inst.op \notin BranchOps \cup {"ERET"}
  BY FetchedFollows
<1>3. program[dt_d.inst_addr].op \in BranchOps
  BY <1>1, <1>2 DEF BehindBranch
<1>4. ~e1.stop_if /\ ~e1.memread
  <2>1. Found = "NONE"
    BY <1>1, InstructionExecutes DEF NoException
  <2>2. /\ e1.stop_if <=> program[dt_d.inst_addr].op = "ERET"
        /\ e1.memread <=> program[dt_d.inst_addr].op \in {"LW", "SC"}
    BY <1>1, <2>1, InstructionExecutes
  <2> QED
    BY <1>3, <2>2 DEF BranchOps, JumpOps
<1>5. ~m1.stop_if
  <2>1. m1.stop_if = dt_e.stop_if
    BY DEF m1, Memory
  <2> QED
    BY <2>1 DEF PipeInv, PInv, NothingYounger
<1>6. "BJR_REQ_RS" \notin d1.flags /\ "BJR_REQ_RT" \notin d1.flags
  <2>1. d1.flags = InstructionMap[dt_f.inst.op].flags
    BY <1>2, ArchTypes, DecodeFields DEF d1
  <2>2. dt_f.inst.op \in Ops
    BY <1>2 DEF FetchLatch, Instruction
  <2>3. FlagsOf(dt_f.inst.op)
    BY <2>2, TableColumns
  <2> QED
    BY <1>2, <2>1, <2>3 DEF FlagsOf, BranchOps, JumpOps
<1> QED
  BY <1>4, <1>5, <1>6 DEF Stall, HazardStall, BranchHazard

LEMMA StallDecodeKeeps ==
    ASSUME PipeInv, RegularUse, StallDecode
    PROVE  /\ OperandsReady' /\ FromProgram' /\ TrapHolds' /\ ProgramOrder' /\ BranchAddress'
           /\ Continues
<1>1. /\ NoException /\ Stall(d1, m1, e1)
      /\ dt_d' = DecodeInit(d1) /\ dt_f' = dt_f /\ dt_m' = m1 /\ dt_e' = e1
      /\ gp' = gp1 /\ mem' = mem1 /\ cop0' = cop01 /\ pc' = pc1
      /\ hazard_unit' = hazard_unit /\ program' = program
  BY DEF StallDecode, setup
<1>2. TrapHolds' /\ ~Traps'
  BY <1>1, NoTrapNext
<1>3. Empty(dt_d)' /\ ~dt_d'.is_valid
  <2>1. d1 \in DecodeLatch
    BY CycleTypes DEF PipeInv, PInv
  <2>2. Empty(DecodeInit(d1))
    BY <2>1, DecodeInitType
  <2> QED
    BY <1>1, <2>2 DEF Empty
<1>4. dt_f.is_valid =>
        /\ pc1 = pc /\ dt_f.inst = program[dt_f.inst_addr]
        /\ CauseHolds(dt_f.excause, dt_f.inst_addr)
        /\ dt_f.in_delay_slot => BehindBranch(dt_f.inst_addr)
        /\ ~dt_f.in_delay_slot => pc1 = Wrap(dt_f.inst_addr + 1)
  BY FetchedFollows
<1>5. OperandsReady'
  BY <1>1, <1>3, ArchTypes DEF OperandsReady
<1>6. FromProgram'
  <2>1. hazard_unit' \in DOMAIN Programs /\ program' \in Programs[hazard_unit']
    BY <1>1 DEF PipeInv, FromProgram
  <2>2. dt_f'.is_valid => /\ dt_f'.inst = program'[dt_f'.inst_addr]
                          /\ CauseHolds(dt_f.excause, dt_f.inst_addr)'
    <3> SUFFICES ASSUME dt_f.is_valid
                 PROVE  /\ dt_f'.inst = program'[dt_f'.inst_addr]
                        /\ CauseHolds(dt_f.excause, dt_f.inst_addr)'
      BY <1>1
    <3>1. /\ dt_f.excause \in {"NONE", "INT", "HWBREAK"}
          /\ dt_f.excause = "INT" => Irqs /\ ~cop0'.exl
          /\ dt_f.excause = "HWBREAK" => dt_f.inst_addr \in Breaks
      BY <1>1, <1>4, CauseStays
    <3> QED
      BY <1>1, <1>4, <3>1 DEF CauseHolds
  <2>3. ~dt_f'.is_valid => ~dt_f'.in_delay_slot
    BY <1>1 DEF PipeInv, FromProgram
  <2> QED
    BY <1>3, <2>1, <2>2, <2>3 DEF FromProgram
<1>7. ProgramOrder'
  <2>1. dt_f'.is_valid /\ ~dt_f'.in_delay_slot => pc' = Wrap(dt_f'.inst_addr + 1)
    BY <1>1, <1>4
  <2>2. dt_f'.is_valid /\ dt_f'.in_delay_slot => BehindBranch(dt_f.inst_addr)'
    BY <1>1, <1>4 DEF BehindBranch
  <2> QED
    BY <1>2, <1>3, <2>1, <2>2 DEF ProgramOrder
<1>8. BranchAddress'
  <2>1. Forwards' <=> Forwards
    BY <1>1 DEF Forwards
  <2>2. Forwards => ~(dt_f'.is_valid /\ dt_f'.in_delay_slot)
    BY <1>1, SlotNeverWaits
  <2> QED
    BY <1>2, <1>3, <2>1, <2>2 DEF BranchAddress
<1>9. Continues
  BY <1>1, <1>2, <1>3 DEF Continues, ArchPc, ArchSlot
<1> QED
  BY <1>2, <1>5, <1>6, <1>7, <1>8, <1>9

LEMMA StopFetchKeeps ==
    ASSUME PipeInv, RegularUse, StopFetch
    PROVE  /\ OperandsReady' /\ FromProgram' /\ TrapHolds' /\ ProgramOrder' /\ BranchAddress'
           /\ Continues
<1>1. /\ NoException /\ StopsFetch(d1)
      /\ dt_d' = Forwarded(d1, m1, e1) /\ dt_f' = FetchInit(dt_f) /\ dt_m' = m1 /\ dt_e' = e1
      /\ gp' = gp1 /\ mem' = mem1 /\ cop0' = cop01 /\ pc' = pc1
      /\ hazard_unit' = hazard_unit /\ program' = program
  BY DEF StopFetch, setup
<1>2. /\ OperandsReady' /\ TrapHolds' /\ ~Traps'
      /\ dt_d'.inst = dt_f.inst /\ dt_d'.inst_addr = dt_f.inst_addr
      /\ dt_d'.in_delay_slot = dt_f.in_delay_slot /\ dt_d'.is_valid = dt_f.is_valid
      /\ dt_f.is_valid => Fetched(dt_d') = dt_f
  BY <1>1, DecodedNext, NoTrapNext
<1>3. dt_f.is_valid /\ dt_f.inst.op = "ERET"
  <2>1. dt_f.is_valid
    BY <1>1, BubbleDecodes
  <2>2. dt_f \in FetchLatch /\ dt_f.inst.op \in Ops
    BY DEF PipeInv, PInv, TypeOK, FetchLatch, Instruction
  <2>3. d1.flags = InstructionMap[dt_f.inst.op].flags
    BY <2>2, ArchTypes, DecodeFields DEF d1
  <2> QED
    BY <1>1, <2>1, <2>2, <2>3, TableColumns DEF StopsFetch, FlagsOf
<1>4. /\ dt_f \in FetchLatch /\ ~dt_f.in_delay_slot /\ dt_f.inst = program[dt_f.inst_addr]
      /\ CauseHolds(dt_f.excause, dt_f.inst_addr)
  BY <1>3, FetchedFollows
<1>5. ~dt_f'.is_valid /\ ~dt_f'.in_delay_slot
  BY <1>1, <1>4 DEF FetchInit, FetchLatch
<1>6. dt_d'.is_valid /\ ~dt_d'.in_delay_slot /\ dt_d'.inst.op = "ERET"
  BY <1>2, <1>3, <1>4
<1>7. FromProgram'
  <2>1. hazard_unit' \in DOMAIN Programs /\ program' \in Programs[hazard_unit']
    BY <1>1 DEF PipeInv, FromProgram
  <2>2. /\ dt_d'.inst = program'[dt_d'.inst_addr]
        /\ CauseHolds(Fetched(dt_d).excause, dt_d.inst_addr)'
    <3>1. Fetched(dt_d').excause = dt_f.excause
      BY <1>2, <1>3
    <3>2. /\ dt_f.excause \in {"NONE", "INT", "HWBREAK"}
          /\ dt_f.excause = "INT" => Irqs /\ ~cop0'.exl
          /\ dt_f.excause = "HWBREAK" => dt_f.inst_addr \in Breaks
      BY <1>1, <1>4, CauseStays
    <3> QED
      BY <1>1, <1>2, <1>4, <3>1, <3>2 DEF CauseHolds
  <2> QED
    BY <1>5, <1>6, <2>1, <2>2 DEF FromProgram
<1>8. ProgramOrder'
  BY <1>2, <1>5, <1>6 DEF ProgramOrder
<1>9. BranchAddress'
  BY <1>2, <1>5, <1>6 DEF BranchAddress
<1>10. Continues
  BY <1>2, <1>3, <1>4, <1>6 DEF Continues, ArchPc, ArchSlot
<1> QED
  BY <1>2, <1>7, <1>8, <1>9, <1>10

-----------------------------------------------------------------------------
(* A cycle with an exception.                                               *)

\* The exception of the instruction in dt_d shows: nothing architectural happens yet.
LEMMA ExceptionInExecuteKeeps ==
    ASSUME PipeInv, RegularUse, ExceptionInExecute
    PROVE  /\ OperandsReady' /\ FromProgram' /\ TrapHolds' /\ ProgramOrder' /\ BranchAddress'
           /\ ArchPc' = ArchPc /\ ArchSlot' = ArchSlot /\ ArchGp' = ArchGp
           /\ Stored(dt_e, mem)' = Stored(dt_e, mem) /\ cop0' = cop0
<1> DEFINE a == dt_d.inst_addr
           f == Fetched(dt_d)
<1>1. /\ m1.excause = "NONE" /\ e1.excause # "NONE"
      /\ dt_d' = DecodeInit(d1) /\ dt_f' = FetchInit(dt_f) /\ dt_m' = m1 /\ dt_e' = e1
      /\ gp' = gp1 /\ mem' = mem1 /\ cop0' = cop01 /\ pc' = pc1
      /\ hazard_unit' = hazard_unit /\ program' = program
  BY DEF ExceptionInExecute, setup
<1>2. dt_d.is_valid
  BY <1>1, BubbleIdles
<1>3. /\ a \in Addr /\ CauseHolds(f.excause, a) /\ dt_d.inst = program[a]
  BY <1>2, FetchedType DEF PipeInv, FromProgram
<1>4. /\ e1.excause = Found /\ Found # "NONE"
      /\ e1.inst_addr = a /\ e1.in_delay_slot = dt_d.in_delay_slot
      /\ NextGp = ArchGp /\ Stored(e1, mem1) = mem1 /\ cop01 = cop0 /\ pc1 = pc
  <2>1. e1.excause = Found /\ e1.inst_addr = a /\ e1.in_delay_slot = dt_d.in_delay_slot
    BY <1>2, InstructionExecutes
  <2>2. Found # "NONE"
    BY <1>1, <2>1
  <2> QED
    BY <1>2, <2>1, <2>2, InstructionExecutes
<1>5. Found = IF f.excause = "NONE" THEN Raises(program[a], ArchGp) ELSE f.excause
  BY DEF Found
<1>6. Empty(dt_d)' /\ ~dt_d'.is_valid /\ dt_d'.inst_addr = dt_f.inst_addr
  <2>1. d1 \in DecodeLatch /\ d1.inst_addr = dt_f.inst_addr
    BY CycleTypes DEF PipeInv, PInv, d1, Decode
  <2>2. Empty(DecodeInit(d1)) /\ DecodeInit(d1).inst_addr = d1.inst_addr
    BY <2>1, DecodeInitType DEF DecodeInit, DecodeBubble
  <2> QED
    BY <1>1, <2>1, <2>2 DEF Empty
<1>7. ~dt_f'.is_valid /\ ~dt_f'.in_delay_slot
  BY <1>1 DEF PipeInv, PInv, TypeOK, FetchLatch, FetchInit
<1>8. Traps' /\ dt_e'.excause = Found /\ dt_e'.inst_addr = a
      /\ dt_e'.in_delay_slot = dt_d.in_delay_slot
  BY <1>1, <1>4 DEF Traps
<1>9. dt_d.in_delay_slot => BehindBranch(a) /\ program[a].op \notin BranchOps \cup {"ERET"}
  BY <1>2, <1>3, ProgramIsRegular DEF PipeInv, ProgramOrder
<1>10. ArchGp' = ArchGp /\ Stored(dt_e, mem)' = Stored(dt_e, mem)
  BY <1>1, <1>4, ArchNext, ArchNow
<1>11. OperandsReady'
  BY <1>1, <1>6, ArchTypes DEF OperandsReady
<1>12. FromProgram'
  BY <1>1, <1>6, <1>7 DEF PipeInv, FromProgram
<1> HIDE DEF f, a
<1>13. TrapHolds'
  <2>1. CASE Found \in {"INT", "HWBREAK"}
    <3>1. f.excause = Found
      BY <1>5, <2>1 DEF Raises
    <3> QED
      BY <1>1, <1>3, <1>4, <1>8, <2>1, <3>1 DEF TrapHolds, CauseHolds
  <2>2. CASE Found \notin {"INT", "HWBREAK"}
    <3>1. f.excause = "NONE"
      BY <1>3, <1>4, <1>5, <2>2 DEF CauseHolds
    <3> QED
      BY <1>1, <1>5, <1>8, <1>10, <2>2, <3>1 DEF TrapHolds
  <2> QED
    BY <2>1, <2>2
<1>14. ProgramOrder'
  <2>1. program'[dt_e'.inst_addr].op = "ERET" => ~dt_e'.in_delay_slot
    BY <1>1, <1>8, <1>9
  <2>2. program'[dt_e'.inst_addr].op # "ERET" /\ ~dt_e'.in_delay_slot =>
          dt_d'.inst_addr = Wrap(dt_e'.inst_addr + 1)
    <3>1. program[a].op # "ERET" /\ ~dt_d.in_delay_slot => dt_f.inst_addr = Wrap(a + 1)
      BY <1>2, <1>3 DEF PipeInv, ProgramOrder, Follows, a
    <3> QED
      BY <1>1, <1>6, <1>8, <3>1
  <2> QED
    BY <1>6, <1>7, <2>1, <2>2 DEF ProgramOrder
<1>15. BranchAddress'
  <2>1. Forwards' <=> Forwards
    BY <1>1 DEF Forwards
  <2>2. CASE Forwards
    <3>1. dt_d.in_delay_slot => dt_e.inst_addr = Wrap(a - 1)
      BY <1>2, <2>2 DEF PipeInv, BranchAddress, a
    <3>2. m1.inst_addr = dt_e.inst_addr
      BY DEF m1, Memory
    <3> QED
      BY <1>1, <1>6, <1>7, <1>8, <2>1, <2>2, <3>1, <3>2 DEF BranchAddress
  <2>3. CASE ~Forwards
    <3>1. ASSUME dt_d.in_delay_slot PROVE FALSE
      <4>1. /\ program[a].op \notin {"ADDI", "TEQ", "SYSCALL"}
            /\ a \notin Breaks /\ ~Irqs
        BY <1>3, <1>9, <2>3, <3>1, ProgramIsRegular
      <4>2. f.excause = "NONE"
        BY <1>3, <4>1 DEF CauseHolds
      <4> QED
        BY <1>4, <1>5, <4>1, <4>2 DEF Raises
    <3> QED
      BY <1>8, <2>1, <2>3, <3>1 DEF BranchAddress
  <2> QED
    BY <2>2, <2>3
<1>16. ArchPc' = ArchPc /\ ArchSlot' = ArchSlot
  <2>1. ~Traps
    BY <1>1 DEF Traps, m1, Memory
  <2> QED
    BY <1>2, <1>6, <1>8, <2>1 DEF ArchPc, ArchSlot, a
<1> QED
  BY <1>4, <1>1, <1>10, <1>11, <1>12, <1>13, <1>14, <1>15, <1>16

\* where the program goes on when the next instruction is through
ArchAfter == IF ArchSlot = -1 THEN Wrap(ArchPc + 1) ELSE ArchSlot

\* the effect of an exception
ExceptionEffect(cause) ==
    LET resume == IF ArchSlot = -1 THEN ArchPc ELSE Wrap(ArchPc - 1)
    IN  /\ program' = program /\ ArchGp' = ArchGp /\ Stored(dt_e, mem)' = Stored(dt_e, mem)
        /\ cop0' = [epc |-> resume, cause |-> cause, bd |-> ArchSlot # -1,
                    exl |-> cop0.exl \/ Vectors(cause)]
        /\ ArchPc' = IF Vectors(cause) THEN Vector
                     ELSE IF cause = "HWBREAK" THEN resume ELSE ArchAfter
        /\ ArchSlot' = -1

\* It is handled one cycle later.
LEMMA ExceptionInMemoryKeeps ==
    ASSUME PipeInv, RegularUse, ExceptionInMemory
    PROVE  /\ OperandsReady' /\ FromProgram' /\ TrapHolds' /\ ProgramOrder' /\ BranchAddress'
           /\ Traps /\ ExceptionEffect(dt_e.excause)
<1> DEFINE a == dt_e.inst_addr
           cause == dt_e.excause
           resume == IF ArchSlot = -1 THEN ArchPc ELSE Wrap(ArchPc - 1)
<1>1. /\ m1.excause # "NONE"
      /\ dt_m' = m1 /\ dt_e' = ExecuteInit(e1) /\ dt_d' = DecodeInit(d1) /\ dt_f' = FetchInit(dt_f)
      /\ cop0' = HandleExceptionCop0(m1, dt_m.inst_addr, cop01)
      /\ pc' = HandleExceptionPc(m1, dt_m.inst_addr, e1.inst_addr)
      /\ gp' = gp1 /\ mem' = mem1
      /\ hazard_unit' = hazard_unit /\ program' = program
  BY DEF ExceptionInMemory, setup
<1>2. m1.excause = cause /\ m1.inst_addr = a /\ m1.in_delay_slot = dt_e.in_delay_slot
  BY DEF m1, Memory
<1>3. Traps /\ cause # "NONE"
  BY <1>1, <1>2 DEF Traps
<1>4. ~dt_d.is_valid /\ ~dt_f.is_valid
  BY <1>3 DEF PipeInv, PInv, NothingYounger, Empty
<1>5. cop01 = cop0 /\ e1.inst_addr = dt_d.inst_addr
  BY <1>4, BubbleIdles DEF e1, Execute
<1>6. Empty(dt_d)' /\ ~dt_d'.is_valid
  <2>1. d1 \in DecodeLatch
    BY CycleTypes DEF PipeInv, PInv
  <2>2. Empty(DecodeInit(d1))
    BY <2>1, DecodeInitType
  <2> QED
    BY <1>1, <2>2 DEF Empty
<1>7. ~dt_f'.is_valid /\ ~dt_f'.in_delay_slot
  BY <1>1 DEF PipeInv, PInv, TypeOK, FetchLatch, FetchInit
<1>8. /\ dt_e'.excause = "NONE" /\ ~dt_e'.memwrite /\ ~dt_e'.regwrite
  BY <1>1 DEF ExecuteInit, ExecuteBubble
<1>9. ~Traps' /\ TrapHolds'
  BY <1>8 DEF Traps, TrapHolds
<1>10. Stored(dt_e, mem)' = mem1 /\ ArchGp' = Writeback(m1, gp1)
  <2>1. Stored(dt_e, mem)' = mem1
    BY <1>1, <1>8 DEF Stored
  <2>2. ~Memory(dt_e, mem)'.regwrite
    BY <1>8 DEF Memory
  <2> QED
    BY <1>1, <2>1, <2>2 DEF ArchGp, Drained, Writeback
<1>11. ArchGp' = ArchGp /\ Stored(dt_e, mem)' = Stored(dt_e, mem)
  BY <1>10, ArchNow
<1>12. /\ a \in Addr /\ dt_d.inst_addr \in Addr /\ dt_e.in_delay_slot \in BOOLEAN
  BY DEF PipeInv, PInv, TypeOK, ExecuteLatch, DecodeLatch
<1>13. /\ ArchPc = a /\ (ArchSlot # -1 <=> dt_e.in_delay_slot)
       /\ dt_e.in_delay_slot => ArchSlot = dt_d.inst_addr
  <2>1. dt_d.inst_addr # -1
    BY <1>12, InstructionsAssumption DEF Addr, Val
  <2> QED
    BY <1>3, <2>1 DEF ArchPc, ArchSlot
<1>14. dt_e.in_delay_slot => dt_m.inst_addr = Wrap(a - 1)
  BY <1>3 DEF PipeInv, BranchAddress
<1>15. Epc(m1, dt_m.inst_addr) = resume
  BY <1>2, <1>13, <1>14 DEF Epc
<1>16. ~Vectors(cause) /\ cause # "HWBREAK" => e1.inst_addr = ArchAfter
  <2> SUFFICES ASSUME ~Vectors(cause), cause # "HWBREAK" PROVE dt_d.inst_addr = ArchAfter
    BY <1>5
  <2>1. program[a].op # "ERET"
    <3>1. CASE cause = "INT"
      <4>1. Irqs
        BY <1>3, <3>1 DEF PipeInv, TrapHolds, CauseHolds
      <4> QED
        BY <1>12, <3>1, <4>1, ProgramIsRegular
    <3>2. CASE cause # "INT"
      <4>1. cause = Raises(program[a], ArchGp)
        BY <1>3, <3>2 DEF PipeInv, TrapHolds
      <4> QED
        BY <1>3, <4>1 DEF Raises
    <3> QED
      BY <3>1, <3>2
  <2>2. ~dt_e.in_delay_slot => dt_d.inst_addr = Wrap(a + 1)
    BY <1>3, <2>1 DEF PipeInv, ProgramOrder
  <2> QED
    BY <1>13, <2>2 DEF ArchAfter
<1> HIDE DEF a, cause, resume
<1>17. pc' = IF Vectors(cause) THEN Vector ELSE IF cause = "HWBREAK" THEN resume ELSE ArchAfter
  BY <1>1, <1>2, <1>15, <1>16 DEF HandleExceptionPc
<1>18. cop0' = [epc |-> resume, cause |-> cause, bd |-> ArchSlot # -1,
                exl |-> cop0.exl \/ Vectors(cause)]
  <2>1. m1.in_delay_slot = (ArchSlot # -1)
    BY <1>2, <1>12, <1>13
  <2> QED
    BY <1>1, <1>2, <1>5, <1>15, <2>1 DEF HandleExceptionCop0
<1>19. ArchPc' = pc' /\ ArchSlot' = -1
  BY <1>6, <1>7, <1>9 DEF ArchPc, ArchSlot
<1>20. ExceptionEffect(dt_e.excause)
  BY <1>1, <1>11, <1>17, <1>18, <1>19 DEF ExceptionEffect, cause, resume
<1>21. OperandsReady' /\ FromProgram' /\ ProgramOrder' /\ BranchAddress'
  <2>1. OperandsReady'
    BY <1>1, <1>6, ArchTypes DEF OperandsReady
  <2>2. FromProgram'
    BY <1>1, <1>6, <1>7 DEF PipeInv, FromProgram
  <2>3. ProgramOrder' /\ BranchAddress'
    BY <1>6, <1>7, <1>9 DEF ProgramOrder, BranchAddress
  <2> QED
    BY <2>1, <2>2, <2>3
<1> QED
  BY <1>3, <1>9, <1>20, <1>21

-----------------------------------------------------------------------------
(* The same in the words of Isa.                                            *)

\* where a completed instruction leaves the program
Leaves(i) ==
    IF i.op = "ERET" THEN ArchPc' = cop0.epc /\ ArchSlot' = -1
    ELSE IF Takes(i, ArchGp) THEN ArchPc' = ArchAfter /\ ArchSlot' = GoesTo(i, ArchPc, ArchGp)
    ELSE /\ ArchPc' = IF i.op = "BEQL" THEN Wrap(ArchAfter + 1) ELSE ArchAfter
         /\ ArchSlot' = -1

\* the effect of the completed instruction i
Effect(i) ==
    /\ program' = program /\ Leaves(i)
    /\ ArchGp' = Result(i, ArchPc, ArchGp, mem1, cop0)
    /\ Stored(dt_e, mem)' =
          IF i.op \in {"SW", "SC"}
          THEN [mem1 EXCEPT ![Wrap(ArchGp[i.rs] + i.imm)] = ArchGp[i.rt]] ELSE mem1
    /\ cop0' = IF i.op = "MTC0" THEN [cop0 EXCEPT !.epc = ArchGp[i.rt]]
               ELSE IF i.op = "ERET" THEN [cop0 EXCEPT !.exl = FALSE] ELSE cop0

\* A cycle without an exception executes the instruction in dt_d, if there is one.
LEMMA InstructionCompletes ==
    ASSUME PipeInv, RegularUse, NoException, Continues,
           dt_e' = e1, dt_m' = m1, gp' = gp1, mem' = mem1, cop0' = cop01, program' = program
    PROVE  \/ /\ ArchPc' = ArchPc /\ ArchSlot' = ArchSlot /\ ArchGp' = ArchGp
              /\ Stored(dt_e, mem)' = Stored(dt_e, mem) /\ cop0' = cop0
           \/ /\ Effect(program[ArchPc]) /\ Raises(program[ArchPc], ArchGp) = "NONE"
              /\ program[ArchPc].op \in Ops
<1>1. ArchGp' = NextGp /\ Stored(dt_e, mem)' = Stored(e1, mem1) /\ Stored(dt_e, mem) = mem1
  BY ArchNext, ArchNow
<1>2. ~Traps
  BY DEF Traps, NoException, m1, Memory
<1>3. CASE ~dt_d.is_valid
  <2>1. NextGp = ArchGp /\ Stored(e1, mem1) = mem1 /\ cop01 = cop0 /\ pc1 = pc
    BY <1>3, BubbleIdles
  <2>2. ArchPc' = ArchPc /\ ArchSlot' = ArchSlot
    BY <1>2, <1>3, <2>1, FetchedFollows DEF Continues, ArchPc, ArchSlot
  <2> QED
    BY <1>1, <2>1, <2>2
<1>4. CASE dt_d.is_valid
  <2> DEFINE i == program[dt_d.inst_addr]
  <2>1. /\ dt_d.inst_addr \in Addr /\ dt_d.inst = i /\ i.op \in Ops
        /\ dt_d.in_delay_slot \in BOOLEAN /\ dt_f.inst_addr \in Addr
    <3>1. dt_d.in_delay_slot \in BOOLEAN /\ dt_f.inst_addr \in Addr
      BY DEF PipeInv, PInv, TypeOK, DecodeLatch, FetchLatch
    <3> QED
      BY <1>4, <3>1, FetchedType DEF PipeInv, FromProgram
  <2>2. ArchPc = dt_d.inst_addr /\ ArchSlot = IF dt_d.in_delay_slot THEN dt_f.inst_addr ELSE -1
    BY <1>2, <1>4, <2>1 DEF ArchPc, ArchSlot
  <2>3. Found = "NONE" /\ Raises(i, ArchGp) = "NONE"
    <3>1. Found = "NONE"
      BY <1>4, InstructionExecutes DEF NoException
    <3> QED
      BY <3>1 DEF Found
  <2> HIDE DEF i
  <2>4. /\ ArchGp' = Result(i, ArchPc, ArchGp, mem1, cop0)
        /\ Stored(dt_e, mem)' =
              IF i.op \in {"SW", "SC"}
              THEN [mem1 EXCEPT ![Wrap(ArchGp[i.rs] + i.imm)] = ArchGp[i.rt]] ELSE mem1
        /\ cop01 = IF i.op = "MTC0" THEN [cop0 EXCEPT !.epc = ArchGp[i.rt]]
                   ELSE IF i.op = "ERET" THEN [cop0 EXCEPT !.exl = FALSE] ELSE cop0
        /\ pc1 = IF i.op = "ERET" THEN cop0.epc ELSE pc
    BY <1>1, <1>4, <2>2, <2>3, InstructionExecutes DEF i
  <2>5. Leaves(i)
    <3>1. CASE i.op = "ERET"
      <4>1. ~dt_f.is_valid
        <5>1. dt_f.is_valid => pc1 = pc
          BY FetchedFollows
        <5>2. LET g == Fetched(dt_d) IN
              /\ g \in FetchLatch /\ g.inst = i
              /\ dt_d.flags = Decode(g, ArchGp).flags
          BY <1>4, FetchedType DEF PipeInv, OperandsReady, Agrees, i
        <5>3. dt_d.flags = InstructionMap[i.op].flags
          BY <5>2, ArchTypes, DecodeFields
        <5>4. "STOP_IF" \in dt_d.flags
          BY <2>1, <3>1, <5>3, TableColumns DEF FlagsOf
        <5> QED
          BY <5>4 DEF PipeInv, PInv, NothingYounger
      <4> QED
        BY <2>4, <3>1, <4>1 DEF Continues, Leaves
    <3>2. CASE i.op # "ERET"
      <4>1. /\ ~dt_d.in_delay_slot => dt_f.inst_addr = Wrap(dt_d.inst_addr + 1)
            /\ dt_f.is_valid <=> i.op # "BEQL" \/ Takes(i, ArchGp)
            /\ dt_f.in_delay_slot <=> Takes(i, ArchGp)
            /\ pc = IF Takes(i, ArchGp) THEN GoesTo(i, dt_d.inst_addr, ArchGp)
                    ELSE Wrap(dt_f.inst_addr + 1)
        BY <1>4, <2>1, <3>2 DEF PipeInv, ProgramOrder, Follows
      <4>2. ArchAfter = dt_f.inst_addr
        <5>1. dt_f.inst_addr # -1
          BY <2>1, InstructionsAssumption DEF Addr, Val
        <5> QED
          BY <2>2, <4>1, <5>1 DEF ArchAfter
      <4>3. pc1 = pc
        BY <2>4, <3>2
      <4>4. CASE Takes(i, ArchGp)
        BY <2>2, <3>2, <4>1, <4>2, <4>3, <4>4 DEF Continues, Leaves
      <4>5. CASE ~Takes(i, ArchGp)
        BY <2>2, <3>2, <4>1, <4>2, <4>3, <4>5 DEF Continues, Leaves
      <4> QED
        BY <4>4, <4>5
    <3> QED
      BY <3>1, <3>2
  <2>6. Effect(i)
    BY <2>4, <2>5 DEF Effect
  <2> QED
    BY <2>1, <2>2, <2>3, <2>6 DEF i
<1> QED
  BY <1>3, <1>4

\* the arithmetic of words is the same
LEMMA Words ==
    ASSUME NEW v
    PROVE  Architecture!Wrap(v) = Wrap(v) /\ Architecture!Signed(v) = Signed(v)
BY DEF Architecture!Wrap, Architecture!Signed, Wrap, Signed

LEMMA Reading ==
    LET i == program[ArchPc]
        g == ArchGp
    IN  /\ Architecture!I = i /\ Architecture!S = g[i.rs] /\ Architecture!T = g[i.rt]
        /\ Architecture!After = ArchAfter /\ Architecture!Place = Wrap(g[i.rs] + i.imm)
        /\ Architecture!Raised = Raises(i, g)
        /\ Architecture!Taken <=> Takes(i, g)
        /\ Architecture!Target = GoesTo(i, ArchPc, g)
<1> DEFINE i == program[ArchPc]
           g == ArchGp
<1>1. Architecture!I = i /\ Architecture!S = g[i.rs] /\ Architecture!T = g[i.rt]
  BY DEF Architecture!I, Architecture!S, Architecture!T
<1>2. Architecture!After = ArchAfter
  BY Words DEF Architecture!After, Architecture!NoSlot, ArchAfter
<1>3. Architecture!Place = Wrap(g[i.rs] + i.imm)
  BY <1>1, Words DEF Architecture!Place
<1>4. Architecture!Raised = Raises(i, g)
  BY <1>1, Words DEF Architecture!Raised, Raises
<1>5. Architecture!Taken <=> Takes(i, g)
  BY <1>1, Words DEF Architecture!Taken, Takes, JumpOps
<1>6. Architecture!Target = GoesTo(i, ArchPc, g)
  BY <1>1, Words DEF Architecture!Target, GoesTo
<1> QED
  BY <1>1, <1>2, <1>3, <1>4, <1>5, <1>6

LEMMA EffectCompletes ==
    ASSUME Effect(program[ArchPc]), Raises(program[ArchPc], ArchGp) = "NONE",
           program[ArchPc].op \in Ops
    PROVE  Architecture!Completes
<1> DEFINE i == program[ArchPc]
           g == ArchGp
           s == Stored(dt_e, mem)
<1>1. /\ Architecture!I = i /\ Architecture!S = g[i.rs] /\ Architecture!T = g[i.rt]
      /\ Architecture!After = ArchAfter /\ Architecture!Place = Wrap(g[i.rs] + i.imm)
      /\ Architecture!Taken <=> Takes(i, g)
      /\ Architecture!Target = GoesTo(i, ArchPc, g)
  BY Reading
<1>2. UNCHANGED Architecture!setup
  BY DEF Architecture!setup, Effect
<1>3. ASSUME NEW r, NEW v PROVE Architecture!Set(r, v) <=> g' = Put(g, r, v)
  BY DEF Architecture!Set, Put
<1>4. Architecture!NoSlot = -1
  BY DEF Architecture!NoSlot
<1>5. Architecture!Sequential <=> ArchPc' = ArchAfter /\ ArchSlot' = -1
  BY <1>1, <1>4 DEF Architecture!Sequential
<1>6. Effect(i) /\ i.op \in Ops /\ i.op # "SYSCALL" /\ s = mem1
  BY ArchNow DEF Raises
<1> HIDE DEF i
<1>7. /\ g' = Result(i, ArchPc, g, s, cop0)
      /\ s' = IF i.op \in {"SW", "SC"} THEN [s EXCEPT ![Wrap(g[i.rs] + i.imm)] = g[i.rt]] ELSE s
      /\ cop0' = IF i.op = "MTC0" THEN [cop0 EXCEPT !.epc = g[i.rt]]
                 ELSE IF i.op = "ERET" THEN [cop0 EXCEPT !.exl = FALSE] ELSE cop0
      /\ Leaves(i)
  BY <1>6 DEF Effect
<1>8. i.op \notin BranchOps \cup {"ERET"} => Architecture!Sequential
  BY <1>5, <1>7 DEF Leaves, Takes, BranchOps
<1>9. CASE i.op \in {"NOP", "ADDI", "ADDIU", "ADDU", "MOVZ", "TEQ", "MFC0"}
  <2>1. s' = s /\ cop0' = cop0 /\ Architecture!Sequential
    BY <1>7, <1>8, <1>9 DEF BranchOps, JumpOps
  <2>2. CASE i.op \in {"ADDI", "ADDIU"}
    <3>1. Architecture!Set(Architecture!I.rt, Architecture!Wrap(Architecture!S + Architecture!I.imm))
      <4>1. g' = Put(g, i.rt, Wrap(g[i.rs] + i.imm))
        BY <1>7, <2>2 DEF Result
      <4> QED
        BY <1>1, <1>3, <4>1, Words
    <3> QED
      BY <1>1, <1>2, <1>9, <2>1, <2>2, <3>1 DEF Architecture!Compute, Architecture!Completes
  <2>3. CASE i.op = "ADDU"
    <3>1. Architecture!Set(Architecture!I.rd, Architecture!Wrap(Architecture!S + Architecture!T))
      <4>1. g' = Put(g, i.rd, Wrap(g[i.rs] + g[i.rt]))
        BY <1>7, <2>3 DEF Result
      <4> QED
        BY <1>1, <1>3, <4>1, Words
    <3> QED
      BY <1>1, <1>2, <1>9, <2>1, <2>3, <3>1 DEF Architecture!Compute, Architecture!Completes
  <2>4. CASE i.op = "MOVZ" /\ g[i.rt] = 0
    <3>1. Architecture!Set(Architecture!I.rd, Architecture!S)
      <4>1. g' = Put(g, i.rd, g[i.rs])
        BY <1>7, <2>4 DEF Result
      <4> QED
        BY <1>1, <1>3, <4>1
    <3> QED
      BY <1>1, <1>2, <1>9, <2>1, <2>4, <3>1 DEF Architecture!Compute, Architecture!Completes
  <2>5. CASE i.op = "MFC0"
    <3>1. Architecture!Set(Architecture!I.rt, cop0.epc)
      <4>1. g' = Put(g, i.rt, cop0.epc)
        BY <1>7, <2>5 DEF Result
      <4> QED
        BY <1>1, <1>3, <4>1
    <3> QED
      BY <1>1, <1>2, <1>9, <2>1, <2>5, <3>1 DEF Architecture!Compute, Architecture!Completes
  <2>6. CASE i.op \in {"NOP", "TEQ"} \/ (i.op = "MOVZ" /\ g[i.rt] # 0)
    <3>1. g' = g
      BY <1>7, <2>6 DEF Result
    <3> QED
      BY <1>1, <1>2, <1>9, <2>1, <2>6, <3>1 DEF Architecture!Compute, Architecture!Completes
  <2> QED
    BY <1>9, <2>2, <2>3, <2>4, <2>5, <2>6
<1>10. CASE i.op = "LW"
  <2>1. s' = s /\ cop0' = cop0 /\ Architecture!Sequential
    BY <1>7, <1>8, <1>10 DEF BranchOps, JumpOps
  <2>2. g' = Put(g, i.rt, s[Wrap(g[i.rs] + i.imm)])
    BY <1>7, <1>10 DEF Result
  <2>3. Architecture!Set(Architecture!I.rt, s[Architecture!Place])
    BY <1>1, <1>3, <2>2
  <2> QED
    BY <1>1, <1>2, <1>10, <2>1, <2>3 DEF Architecture!Load, Architecture!Completes
<1>11. CASE i.op \in {"SW", "SC"}
  <2>1. cop0' = cop0 /\ Architecture!Sequential
    BY <1>7, <1>8, <1>11 DEF BranchOps, JumpOps
  <2>2. s' = [s EXCEPT ![Architecture!Place] = Architecture!T]
    BY <1>1, <1>7, <1>11
  <2>3. IF i.op = "SC" THEN Architecture!Set(i.rt, 1) ELSE UNCHANGED g
    <3>1. i.op = "SC" => g' = Put(g, i.rt, 1)
      BY <1>7 DEF Result
    <3>2. i.op = "SW" => g' = g
      BY <1>7 DEF Result
    <3> QED
      BY <1>3, <1>11, <3>1, <3>2
  <2> QED
    BY <1>1, <1>2, <1>11, <2>1, <2>2, <2>3 DEF Architecture!Store, Architecture!Completes
<1>12. CASE i.op \in BranchOps
  <2>1. s' = s /\ cop0' = cop0
    BY <1>7, <1>12 DEF BranchOps, JumpOps
  <2>2. g' = IF i.op \in {"JAL", "BLTZAL"} THEN Put(g, LinkReg, Wrap(ArchPc + 2))
             ELSE IF i.op = "JALR" THEN Put(g, i.rd, Wrap(ArchPc + 2)) ELSE g
    BY <1>7, <1>12 DEF Result, BranchOps, JumpOps
  <2>3. IF Takes(i, g) THEN ArchPc' = ArchAfter /\ ArchSlot' = GoesTo(i, ArchPc, g)
        ELSE /\ ArchPc' = IF i.op = "BEQL" THEN Wrap(ArchAfter + 1) ELSE ArchAfter
             /\ ArchSlot' = -1
    BY <1>7, <1>12 DEF Leaves, BranchOps, JumpOps
  <2>4. /\ \/ i.op \in {"JAL", "BLTZAL"} /\ Architecture!Set(LinkReg, Architecture!Wrap(ArchPc + 2))
           \/ i.op = "JALR" /\ Architecture!Set(Architecture!I.rd, Architecture!Wrap(ArchPc + 2))
           \/ i.op \in {"J", "JR", "BEQ", "BEQL", "BNE", "BLEZ"} /\ UNCHANGED g
    <3>1. CASE i.op \in {"JAL", "BLTZAL"}
      BY <1>3, <2>2, <3>1, Words
    <3>2. CASE i.op = "JALR"
      BY <1>1, <1>3, <2>2, <3>2, Words
    <3>3. CASE i.op \notin {"JAL", "BLTZAL", "JALR"}
      BY <1>12, <2>2, <3>3 DEF BranchOps, JumpOps
    <3> QED
      BY <3>1, <3>2, <3>3
  <2> QED
    BY <1>1, <1>2, <1>4, <2>1, <2>3, <2>4, Words DEF Architecture!Branch, Architecture!Completes
<1>13. CASE i.op = "MTC0"
  <2>1. s' = s /\ g' = g /\ Architecture!Sequential
    BY <1>7, <1>8, <1>13 DEF Result, LinkOps, BranchOps, JumpOps
  <2>2. cop0' = [cop0 EXCEPT !.epc = Architecture!T]
    BY <1>1, <1>7, <1>13
  <2> QED
    BY <1>1, <1>2, <1>13, <2>1, <2>2 DEF Architecture!Privileged, Architecture!Completes
<1>14. CASE i.op = "ERET"
  <2>1. s' = s /\ g' = g /\ cop0' = [cop0 EXCEPT !.exl = FALSE]
        /\ ArchPc' = cop0.epc /\ ArchSlot' = -1
    BY <1>7, <1>14 DEF Result, LinkOps, Leaves
  <2> QED
    BY <1>1, <1>2, <1>4, <1>14, <2>1 DEF Architecture!Privileged, Architecture!Completes
<1> QED
  BY <1>6, <1>9, <1>10, <1>11, <1>12, <1>13, <1>14 DEF Ops, BranchOps, JumpOps

LEMMA EffectIsException ==
    ASSUME NEW cause, cause # "NONE", ExceptionEffect(cause)
    PROVE  Architecture!Exception(cause)
<1>1. Architecture!NoSlot = -1 /\ Architecture!After = ArchAfter
  BY Reading DEF Architecture!NoSlot
<1>2. UNCHANGED <<Architecture!setup, ArchGp, Stored(dt_e, mem)>>
  BY DEF Architecture!setup, ExceptionEffect
<1> QED
  BY <1>1, <1>2, Words DEF Architecture!Exception, ExceptionEffect, Vectors

-----------------------------------------------------------------------------
LEMMA InitPipeInv == Init => PipeInv /\ Architecture!Init
<1> SUFFICES ASSUME Init PROVE PipeInv /\ Architecture!Init
  OBVIOUS
<1>1. PInv /\ gp[0] = 0 /\ program \in [Addr -> Instruction]
  BY InitPInv, Zeros DEF Init, RegsReset, PInv, TypeOK
<1>2. /\ ~dt_f.is_valid /\ ~dt_f.in_delay_slot /\ Empty(dt_d) /\ ~dt_d.is_valid
      /\ ~Traps /\ ~dt_e.memwrite /\ ~dt_e.regwrite /\ ~dt_m.regwrite
  BY DEF Init, FetchReset, DecodeReset, DecodeBubble, ExecuteReset, ExecuteBubble,
         MemoryReset, Empty, Traps
<1>3. PipeInv
  BY <1>1, <1>2 DEF PipeInv, OperandsReady, FromProgram, TrapHolds, ProgramOrder,
                    BranchAddress, Init
<1>4. Stored(dt_e, mem) = mem /\ ArchGp = gp
  <2>1. ~Drained.regwrite
    BY <1>2 DEF Drained, Memory
  <2> QED
    BY <1>2, <2>1 DEF Stored, ArchGp, Writeback
<1>5. ArchPc = pc /\ ArchSlot = -1
  BY <1>2 DEF ArchPc, ArchSlot
<1>6. Architecture!Init
  BY <1>1, <1>4, <1>5
  DEF Init, Architecture!Init, Architecture!NoSlot, RegsReset, Cop0Init,
      Architecture!Addr, Architecture!Val, Architecture!Instruction, Architecture!Ops,
      Architecture!Reg, Addr, Val, Instruction, Ops, Reg
<1> QED
  BY <1>3, <1>6

\* A step that leaves the architectural state alone is a stuttering one.
LEMMA SameArchitecture ==
    ASSUME program' = program, ArchPc' = ArchPc, ArchSlot' = ArchSlot, ArchGp' = ArchGp,
           Stored(dt_e, mem)' = Stored(dt_e, mem), cop0' = cop0
    PROVE  UNCHANGED Architecture!vars
BY DEF Architecture!vars, Architecture!setup

LEMMA CycleExecutes ==
    ASSUME PipeInv, RegularUse, NoException, Continues,
           dt_e' = e1, dt_m' = m1, gp' = gp1, mem' = mem1, cop0' = cop01, program' = program
    PROVE  [Architecture!Next]_(Architecture!vars)
<1>1. CASE /\ ArchPc' = ArchPc /\ ArchSlot' = ArchSlot /\ ArchGp' = ArchGp
           /\ Stored(dt_e, mem)' = Stored(dt_e, mem) /\ cop0' = cop0
  BY <1>1, SameArchitecture
<1>2. CASE /\ Effect(program[ArchPc]) /\ Raises(program[ArchPc], ArchGp) = "NONE"
           /\ program[ArchPc].op \in Ops
  <2>1. Architecture!Completes /\ Architecture!Raised = "NONE"
    BY <1>2, EffectCompletes, Reading
  <2> QED
    BY <2>1 DEF Architecture!Next
<1> QED
  BY <1>1, <1>2, InstructionCompletes

LEMMA NextPipeInv ==
    ASSUME PipeInv, RegularUse, [Next]_vars
    PROVE  PipeInv' /\ [Architecture!Next]_(Architecture!vars)
<1>p. PInv'
  BY NextPInv DEF PipeInv
<1>1. CASE UNCHANGED vars
  <2>1. OperandsReady' /\ FromProgram' /\ TrapHolds' /\ ProgramOrder' /\ BranchAddress'
    BY <1>1 DEF PipeInv, OperandsReady, FromProgram, TrapHolds, ProgramOrder, BranchAddress,
       vars, setup, latches, ArchGp, Drained, Traps, CauseHolds, Forwards, BehindBranch, Follows,
       Empty
  <2>2. UNCHANGED Architecture!vars
    BY <1>1, SameArchitecture DEF vars, setup, latches, ArchPc, ArchSlot, ArchGp, Drained, Traps
  <2> QED
    BY <1>p, <2>1, <2>2 DEF PipeInv
<1>2. CASE ExceptionInMemory
  <2>1. /\ OperandsReady' /\ FromProgram' /\ TrapHolds' /\ ProgramOrder' /\ BranchAddress'
        /\ Traps /\ ExceptionEffect(dt_e.excause)
    BY <1>2, ExceptionInMemoryKeeps
  <2> DEFINE cause == dt_e.excause
  <2>2. cause # "NONE" /\ ArchPc = dt_e.inst_addr
    BY <2>1 DEF Traps, ArchPc
  <2>3. Architecture!Exception(cause)
    BY <2>1, <2>2, EffectIsException
  <2>4. CASE cause = "INT"
    <3>1. Irqs /\ ~cop0.exl
      BY <2>1, <2>4 DEF PipeInv, TrapHolds, CauseHolds
    <3> QED
      BY <1>p, <2>1, <2>3, <2>4, <3>1 DEF Architecture!Next, PipeInv
  <2>5. CASE cause = "HWBREAK"
    <3>1. ArchPc \in Breaks
      BY <2>1, <2>2, <2>5 DEF PipeInv, TrapHolds, CauseHolds
    <3> QED
      BY <1>p, <2>1, <2>3, <2>5, <3>1 DEF Architecture!Next, PipeInv
  <2>6. CASE cause \notin {"INT", "HWBREAK"}
    <3>1. Architecture!Raised = cause
      BY <2>1, <2>2, <2>6, Reading DEF PipeInv, TrapHolds
    <3> QED
      BY <1>p, <2>1, <2>2, <2>3, <3>1 DEF Architecture!Next, PipeInv
  <2> QED
    BY <2>4, <2>5, <2>6
<1>3. CASE ExceptionInExecute
  BY <1>p, <1>3, ExceptionInExecuteKeeps, SameArchitecture
  DEF PipeInv, ExceptionInExecute, setup
<1>4. ASSUME NEW skip_break \in BOOLEAN, NEW irq \in {FALSE, Irqs},
             FetchNext(skip_break, irq)
      PROVE  PipeInv' /\ [Architecture!Next]_(Architecture!vars)
  <2>1. PipeInv' /\ Continues
    BY <1>p, <1>4, FetchNextKeeps DEF PipeInv
  <2> QED
    BY <1>4, <2>1, CycleExecutes DEF FetchNext, setup
<1>5. CASE StallDecode
  <2>1. PipeInv' /\ Continues
    BY <1>p, <1>5, StallDecodeKeeps DEF PipeInv
  <2> QED
    BY <1>5, <2>1, CycleExecutes DEF StallDecode, setup
<1>6. CASE StopFetch
  <2>1. PipeInv' /\ Continues
    BY <1>p, <1>6, StopFetchKeeps DEF PipeInv
  <2> QED
    BY <1>6, <2>1, CycleExecutes DEF StopFetch, setup
<1>7. CASE Restart
  <2>1. /\ ~dt_f'.is_valid /\ ~dt_f'.in_delay_slot /\ Empty(dt_d)' /\ ~dt_d'.is_valid
        /\ ~Traps' /\ ~dt_e'.memwrite /\ ~dt_e'.regwrite /\ ~dt_m'.regwrite
    BY <1>7 DEF Restart, FetchReset, DecodeReset, DecodeBubble, ExecuteReset, ExecuteBubble,
                MemoryReset, Empty, Traps
  <2>2. /\ gp'[0] = 0 /\ hazard_unit' = hazard_unit /\ program' = program
    BY <1>7, Zeros DEF Restart, setup, RegsReset
  <2>3. PipeInv'
    BY <1>p, <2>1, <2>2 DEF PipeInv, OperandsReady, FromProgram, TrapHolds, ProgramOrder,
                            BranchAddress
  <2>4. Stored(dt_e, mem)' = mem' /\ ArchGp' = gp'
    <3>1. ~Drained'.regwrite
      BY <2>1 DEF Drained, Memory
    <3> QED
      BY <2>1, <3>1 DEF Stored, ArchGp, Writeback
  <2>5. ArchPc' = pc' /\ ArchSlot' = -1
    BY <2>1 DEF ArchPc, ArchSlot
  <2>6. Architecture!Restart
    BY <1>7, <2>2, <2>4, <2>5
    DEF Restart, RegsReset, Architecture!Restart, Architecture!setup, Architecture!NoSlot,
        Architecture!Reg, Reg
  <2> QED
    BY <2>3, <2>6 DEF Architecture!Next
<1> QED
  BY <1>1, <1>2, <1>3, <1>4, <1>5, <1>6, <1>7 DEF Next, Step

-----------------------------------------------------------------------------
\* CorePipelined::do_step executes every regular program one instruction after the
\* other, with precise exceptions and delay slots: whatever its hazard unit forwards
\* or stalls, and whatever branches, breakpoints and interrupts discard, for every
\* word size, number of registers and set of breakpoints.
THEOREM PipelineExecutesInOrder == RegularUse => (Spec => ExecutesInOrder)
<1> SUFFICES ASSUME RegularUse PROVE Spec => ExecutesInOrder
  OBVIOUS
<1>1. PipeInv /\ [Next]_vars => PipeInv' /\ [Architecture!Next]_(Architecture!vars)
  BY NextPipeInv
<1> QED
  BY <1>1, InitPipeInv, PTL DEF Spec, ExecutesInOrder, Architecture!Spec
=============================================================================
