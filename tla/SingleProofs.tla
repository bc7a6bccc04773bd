----------------------------- MODULE SingleProofs ----------------------------
(***************************************************************************)
(* The core without a pipeline implements Isa, for every word size, number *)
(* of registers, set of breakpoints and set of regular programs.           *)
(***************************************************************************)
EXTENDS CoreSingle, StageProofs

\* The types of the registers and of the latch.
SingleTypes ==
    /\ delay_slot \in DOMAIN Programs /\ delay_slot \in BOOLEAN
    /\ program \in Programs[delay_slot] /\ program \in [Addr -> Instruction]
    /\ pc \in Addr /\ gp \in [Reg -> Val] /\ gp[0] = 0
    /\ mem \in [Addr -> Val] /\ cop0 \in Cop0Type
    /\ dt_f \in FetchLatch /\ prev_inst_addr \in Addr

\* What waits in dt_f is the instruction at its address, or nothing.
FetchedFromProgram ==
    /\ ~delay_slot => ~dt_f.is_valid
    /\ dt_f.is_valid => dt_f.inst = program[dt_f.inst_addr]
    /\ ~dt_f.is_valid => dt_f.inst = NopInst /\ dt_f.excause = "NONE" /\ ~dt_f.in_delay_slot

\* The program counter stands behind it, unless it is in a delay slot; then the
\* branch was the instruction before.
PcBehindFetched ==
    /\ dt_f.is_valid /\ ~dt_f.in_delay_slot => pc = Wrap(dt_f.inst_addr + 1)
    /\ dt_f.is_valid /\ dt_f.in_delay_slot =>
          prev_inst_addr = Wrap(dt_f.inst_addr - 1) /\ dt_f.inst.op \notin BranchOps

\* What the fetch found is still true when the instruction is executed.
FetchedCause(f) ==
    /\ f.excause \in {"NONE", "INT", "HWBREAK"}
    /\ f.excause = "INT" => Irqs /\ ~cop0.exl
    /\ f.excause = "HWBREAK" => f.inst_addr \in Breaks

SInv == SingleTypes /\ FetchedFromProgram /\ PcBehindFetched /\ FetchedCause(dt_f)

-----------------------------------------------------------------------------
(* The architectural program counter and delay slot.                        *)

APc == IF dt_f.is_valid THEN dt_f.inst_addr ELSE pc
ASlot == IF dt_f.is_valid /\ dt_f.in_delay_slot THEN pc ELSE -1
AAfter == IF ASlot = -1 THEN Wrap(APc + 1) ELSE ASlot

\* the instruction that a step executes
Current(skip_break, irq) ==
    IF delay_slot THEN dt_f ELSE Fetch(program, pc, skip_break, irq, cop0)

Bubble == delay_slot /\ ~dt_f.is_valid

LEMMA FetchedFacts ==
    ASSUME SInv, NEW skip_break \in BOOLEAN, NEW irq \in {FALSE, Irqs}
    PROVE  LET fetched == Fetch(program, pc, skip_break, irq, cop0)
           IN  /\ fetched \in FetchLatch /\ FetchedCause(fetched)
               /\ fetched.inst = program[pc] /\ fetched.inst_addr = pc
               /\ fetched.in_delay_slot = FALSE /\ fetched.is_valid = TRUE
<1>1. Fetch(program, pc, skip_break, irq, cop0) \in FetchLatch
  BY FetchType DEF SInv, SingleTypes
<1>2. FetchedCause(Fetch(program, pc, skip_break, irq, cop0))
  <2>1. CASE pc \in Breaks /\ ~skip_break
    BY <2>1 DEF Fetch, FetchedCause
  <2>2. CASE ~(pc \in Breaks /\ ~skip_break) /\ irq /\ ~cop0.exl
    <3>1. Irqs
      BY <2>2
    <3> QED
      BY <2>2, <3>1 DEF Fetch, FetchedCause
  <2>3. CASE ~(pc \in Breaks /\ ~skip_break) /\ ~(irq /\ ~cop0.exl)
    <3>1. Fetch(program, pc, skip_break, irq, cop0).excause = "NONE"
      BY <2>3 DEF Fetch
    <3> QED
      BY <3>1 DEF FetchedCause
  <2> QED
    BY <2>1, <2>2, <2>3
<1> QED
  BY <1>1, <1>2 DEF Fetch

LEMMA CurrentFacts ==
    ASSUME SInv, NEW skip_break \in BOOLEAN, NEW irq \in {FALSE, Irqs}, ~Bubble
    PROVE  LET f == Current(skip_break, irq)
           IN  /\ f \in FetchLatch /\ FetchedCause(f)
               /\ f.inst = program[APc] /\ f.inst_addr = APc /\ APc \in Addr
               /\ f.in_delay_slot <=> ASlot # -1
               /\ f.in_delay_slot => /\ prev_inst_addr = Wrap(APc - 1)
                                     /\ f.inst.op \notin BranchOps
               /\ AAfter = IF delay_slot THEN pc ELSE Wrap(pc + 1)
               /\ ~delay_slot => APc = pc
<1> USE DEF SInv, SingleTypes
<1>0. pc # -1 /\ APc \in Addr
  BY InstructionsAssumption DEF Addr, Val, APc, FetchLatch
<1>1. CASE delay_slot
  <2>1. dt_f.is_valid /\ Current(skip_break, irq) = dt_f
    BY <1>1 DEF Bubble, Current
  <2>2. dt_f.in_delay_slot \in BOOLEAN
    BY DEF FetchLatch
  <2>3. APc = dt_f.inst_addr /\ (ASlot # -1 <=> dt_f.in_delay_slot)
    BY <1>0, <2>1 DEF APc, ASlot
  <2>4. AAfter = pc
    BY <2>1, <2>2, <2>3 DEF AAfter, ASlot, PcBehindFetched
  <2> QED
    BY <1>0, <1>1, <2>1, <2>3, <2>4 DEF FetchedFromProgram, PcBehindFetched
<1>2. CASE ~delay_slot
  <2>1. ~dt_f.is_valid /\ APc = pc /\ ASlot = -1
    BY <1>2 DEF FetchedFromProgram, APc, ASlot
  <2> QED
    BY <1>0, <1>2, <2>1, FetchedFacts DEF Current, AAfter
<1> QED
  BY <1>1, <1>2

-----------------------------------------------------------------------------
(* The outcome of a step.                                                   *)

LEMMA StepParts ==
    ASSUME NEW skip_break, NEW irq, Step(skip_break, irq)
    PROVE  LET fetched == Fetch(program, pc, skip_break, irq, cop0)
               d == Decode(Current(skip_break, irq), gp)
               e == Execute(d, cop0)
               m == Memory(e, mem)
           IN  /\ mem' = Stored(e, mem) /\ gp' = Writeback(m, gp)
               /\ Complete(fetched, d, e, m) \/ Trap(fetched, d, e, m)
               /\ delay_slot' = delay_slot /\ program' = program
BY DEF Step, Current, setup

\* A bubble only lets the fetched instruction in.
LEMMA BubbleStep ==
    ASSUME SInv, NEW skip_break \in BOOLEAN, NEW irq \in {FALSE, Irqs},
           Step(skip_break, irq), Bubble
    PROVE  /\ SInv'
           /\ UNCHANGED <<delay_slot, program, gp, mem, cop0>> /\ APc' = APc /\ ASlot' = ASlot
<1> DEFINE fetched == Fetch(program, pc, skip_break, irq, cop0)
           f == dt_f
           d == Decode(f, gp)
           e == Execute(d, cop0)
           m == Memory(e, mem)
<1> USE DEF SInv, SingleTypes
<1>1. f \in FetchLatch /\ f.inst = NopInst /\ f.excause = "NONE" /\ Current(skip_break, irq) = f
  BY DEF Bubble, FetchedFromProgram, Current
<1>2. f.inst.op = "NOP" /\ Encodable(f.inst) /\ Raises(f.inst, gp) = "NONE"
  BY <1>1 DEF NopInst, Encodable, Raises
<1>3. Writeback(m, gp) = gp
  BY <1>1, <1>2, PlainResult DEF Result, LinkOps
<1>4. Stored(e, mem) = mem
  BY <1>1, <1>2, PlainStored
<1>5. m.excause = "NONE" /\ ~m.stop_if /\ m.inst_addr = f.inst_addr
  BY <1>1, <1>2, PlainMemory
<1>6. ~BranchTaken(d) /\ HandlePc(d, pc) = Wrap(pc + 1) /\ "NB_SKIP_DS" \notin d.flags
  BY <1>1, <1>2, BranchResolved DEF JumpOps
<1>7. ExecuteCop0(d, cop0) = cop0 /\ ExecutePc(d, cop0, pc) = pc
  BY <1>1, <1>2, Cop0Effect
<1>8. Complete(fetched, d, e, m) /\ mem' = Stored(e, mem) /\ gp' = Writeback(m, gp)
      /\ delay_slot' = delay_slot /\ program' = program
  BY <1>1, <1>5, StepParts DEF Trap
<1> HIDE DEF m, e, d
<1>9. /\ dt_f' = [fetched EXCEPT !.in_delay_slot = BranchTaken(d)]
      /\ pc' = Wrap(pc + 1) /\ cop0' = cop0 /\ prev_inst_addr' = f.inst_addr
  BY <1>5, <1>6, <1>7, <1>8 DEF Complete, NextFetched, Bubble
<1>10. /\ fetched \in FetchLatch /\ FetchedCause(fetched)
       /\ fetched.inst = program[pc] /\ fetched.inst_addr = pc
       /\ fetched.in_delay_slot = FALSE /\ fetched.is_valid = TRUE
  BY FetchedFacts
<1> HIDE DEF fetched
<1>11. /\ dt_f' \in FetchLatch /\ dt_f'.inst = program[pc] /\ dt_f'.inst_addr = pc
       /\ dt_f'.is_valid /\ dt_f'.excause = fetched.excause
       /\ dt_f'.in_delay_slot = BranchTaken(d)
  <2>1. BranchTaken(d) \in BOOLEAN
    BY DEF BranchTaken
  <2> QED
    BY <1>9, <1>10, <2>1 DEF FetchLatch
<1>12. ~dt_f'.in_delay_slot
  BY <1>6, <1>11
<1>13. pc' \in Addr /\ prev_inst_addr' \in Addr
  <2>1. pc + 1 \in Int
    BY Zeros
  <2> QED
    BY <1>1, <1>9, <2>1, WrapType, Zeros DEF FetchLatch
<1>14. SInv'
  BY <1>3, <1>4, <1>8, <1>9, <1>10, <1>11, <1>12, <1>13
  DEF FetchedFromProgram, PcBehindFetched, FetchedCause, Bubble
<1>15. UNCHANGED <<delay_slot, program, gp, mem, cop0>>
  BY <1>3, <1>4, <1>8, <1>9
<1>16. APc' = APc /\ ASlot' = ASlot
  BY <1>11, <1>12 DEF APc, ASlot, Bubble
<1> QED
  BY <1>14, <1>15, <1>16

\* the exception of the instruction that a step executes
Cause(skip_break, irq) ==
    LET f == Current(skip_break, irq)
    IN  IF f.excause = "NONE" THEN Raises(f.inst, gp) ELSE f.excause

\* A step that raises an exception has the effect of the exception alone.
LEMMA TrapStep ==
    ASSUME SInv, RegularUse, NEW skip_break \in BOOLEAN, NEW irq \in {FALSE, Irqs},
           Step(skip_break, irq), ~Bubble, Cause(skip_break, irq) # "NONE"
    PROVE  LET cause   == Cause(skip_break, irq)
               resume  == IF ASlot = -1 THEN APc ELSE Wrap(APc - 1)
           IN  /\ SInv'
               /\ UNCHANGED <<delay_slot, program, gp, mem>>
               /\ cop0' = [epc |-> resume, cause |-> cause, bd |-> ASlot # -1,
                           exl |-> cop0.exl \/ Vectors(cause)]
               /\ APc' = IF Vectors(cause) THEN Vector
                         ELSE IF cause = "HWBREAK" THEN resume ELSE AAfter
               /\ ASlot' = -1
<1> DEFINE fetched == Fetch(program, pc, skip_break, irq, cop0)
           f == Current(skip_break, irq)
           d == Decode(f, gp)
           e == Execute(d, cop0)
           m == Memory(e, mem)
           cause == Cause(skip_break, irq)
           resume == IF ASlot = -1 THEN APc ELSE Wrap(APc - 1)
<1> USE DEF SInv, SingleTypes
<1>1. /\ f \in FetchLatch /\ FetchedCause(f)
      /\ f.inst = program[APc] /\ f.inst_addr = APc /\ APc \in Addr
      /\ f.in_delay_slot <=> ASlot # -1
      /\ f.in_delay_slot => prev_inst_addr = Wrap(APc - 1)
      /\ AAfter = IF delay_slot THEN pc ELSE Wrap(pc + 1)
      /\ ~delay_slot => APc = pc
  BY CurrentFacts
<1>2. /\ fetched \in FetchLatch /\ fetched.inst_addr = pc
  BY FetchedFacts
<1> HIDE DEF fetched, f
<1>3. e.excause = cause
  BY <1>1, ExecuteRaises DEF Cause, f
<1>4. d \in DecodeLatch /\ e \in ExecuteLatch /\ m \in MemoryLatch
  BY <1>1, DecodeType, ExecuteType, MemoryType
<1>5. Writeback(m, gp) = gp /\ Stored(e, mem) = mem /\ m.excause = cause
  BY <1>3, <1>4, FaultyEffect
<1>6. m.inst_addr = APc /\ m.in_delay_slot = f.in_delay_slot
  <2>1. d.inst_addr = f.inst_addr /\ d.in_delay_slot = f.in_delay_slot
    BY DEF Decode
  <2>2. e.inst_addr = d.inst_addr /\ e.in_delay_slot = d.in_delay_slot
    BY DEF Execute
  <2>3. m.inst_addr = e.inst_addr /\ m.in_delay_slot = e.in_delay_slot
    BY DEF Memory
  <2> QED
    BY <1>1, <2>1, <2>2, <2>3
<1>7. \/ f.excause # "NONE"
      \/ f.inst.op \in {"SYSCALL", "TEQ", "ADDI"} /\ cause \notin {"INT", "HWBREAK"}
  BY DEF Cause, Raises, f
<1>8. ExecuteCop0(d, cop0) = cop0
  BY <1>1, <1>7, Cop0Effect
<1>9. f.inst.op \in {"SYSCALL", "TEQ", "ADDI"} => HandlePc(d, pc) = Wrap(pc + 1)
  BY <1>1, BranchResolved DEF JumpOps
<1>10. /\ Trap(fetched, d, e, m) /\ mem' = Stored(e, mem) /\ gp' = Writeback(m, gp)
       /\ delay_slot' = delay_slot /\ program' = program
  BY <1>5, StepParts DEF Complete, f, fetched
<1> DEFINE next_addr == IF delay_slot THEN fetched.inst_addr ELSE HandlePc(d, pc)
<1>11. next_addr \in Addr
  BY <1>2, <1>4, HandlePcType
<1> HIDE DEF m, e, d, cause
<1>12. /\ dt_f' = IF delay_slot THEN FetchInit(fetched) ELSE dt_f
       /\ pc' = HandleExceptionPc(m, prev_inst_addr, next_addr)
       /\ cop0' = HandleExceptionCop0(m, prev_inst_addr, cop0)
       /\ prev_inst_addr' = prev_inst_addr
  BY <1>8, <1>10 DEF Trap
<1> HIDE DEF next_addr
<1>13. Epc(m, prev_inst_addr) = resume
  BY <1>1, <1>6 DEF Epc
<1>14. ~Vectors(cause) /\ cause # "HWBREAK" => next_addr = AAfter
  <2>1. CASE delay_slot
    BY <1>1, <1>2, <2>1 DEF next_addr
  <2>2. CASE ~delay_slot /\ f.inst.op \in {"SYSCALL", "TEQ", "ADDI"}
    BY <1>1, <1>9, <2>2 DEF next_addr
  <2>3. CASE ~delay_slot /\ f.inst.op \notin {"SYSCALL", "TEQ", "ADDI"}
    <3>1. cause = f.excause /\ cause # "NONE"
      BY <1>7, <2>3 DEF cause, Cause, f
    <3>2. cause = "INT" => Vectors("INT")
      BY <1>1, <2>3, <3>1 DEF FetchedCause, RegularUse
    <3> QED
      BY <1>1, <3>1, <3>2 DEF FetchedCause
  <2> QED
    BY <2>1, <2>2, <2>3
<1>15. ~dt_f'.is_valid /\ dt_f'.inst = NopInst /\ dt_f'.excause = "NONE"
       /\ ~dt_f'.in_delay_slot /\ dt_f' \in FetchLatch
  <2>1. CASE delay_slot
    BY <1>2, <1>12, <2>1, FetchInitType DEF FetchInit, FetchLatch
  <2>2. CASE ~delay_slot
    BY <1>12, <2>2 DEF FetchedFromProgram
  <2> QED
    BY <2>1, <2>2
<1>16. pc' = IF Vectors(cause) THEN Vector
             ELSE IF cause = "HWBREAK" THEN resume ELSE AAfter
  BY <1>5, <1>12, <1>13, <1>14 DEF HandleExceptionPc
<1>17. cop0' = [epc |-> resume, cause |-> cause, bd |-> ASlot # -1,
                exl |-> cop0.exl \/ Vectors(cause)]
  <2>1. m.in_delay_slot = (ASlot # -1)
    BY <1>1, <1>4, <1>6 DEF MemoryLatch
  <2> QED
    BY <1>5, <1>12, <1>13, <2>1 DEF HandleExceptionCop0
<1>18. pc' \in Addr /\ cop0' \in Cop0Type
  BY <1>4, <1>11, <1>12, HandleExceptionType
<1>19. APc' = pc' /\ ASlot' = -1
  BY <1>15 DEF APc, ASlot
<1>20. SInv'
  BY <1>5, <1>10, <1>12, <1>15, <1>18
  DEF FetchedFromProgram, PcBehindFetched, FetchedCause
<1>21. UNCHANGED <<delay_slot, program, gp, mem>>
  BY <1>5, <1>10
<1> QED
  BY <1>16, <1>17, <1>19, <1>20, <1>21 DEF cause

\* where a completed instruction leaves the program
Leaves(i) ==
    IF i.op = "ERET" THEN APc' = cop0.epc /\ ASlot' = -1
    ELSE IF ~Takes(i, gp)
    THEN APc' = (IF delay_slot /\ i.op = "BEQL" THEN Wrap(AAfter + 1) ELSE AAfter) /\ ASlot' = -1
    ELSE IF delay_slot THEN APc' = AAfter /\ ASlot' = GoesTo(i, APc, gp)
    ELSE APc' = GoesTo(i, APc, gp) /\ ASlot' = -1

\* A step without an exception completes the instruction.
LEMMA CompleteStep ==
    ASSUME SInv, RegularUse, NEW skip_break \in BOOLEAN, NEW irq \in {FALSE, Irqs},
           Step(skip_break, irq), ~Bubble, Cause(skip_break, irq) = "NONE"
    PROVE  LET i == program[APc]
           IN  /\ SInv' /\ Leaves(i)
               /\ UNCHANGED <<delay_slot, program>>
               /\ gp' = Result(i, APc, gp, mem, cop0)
               /\ mem' = IF i.op \in {"SW", "SC"}
                         THEN [mem EXCEPT ![Wrap(gp[i.rs] + i.imm)] = gp[i.rt]] ELSE mem
               /\ cop0' = IF i.op = "MTC0" THEN [cop0 EXCEPT !.epc = gp[i.rt]]
                          ELSE IF i.op = "ERET" THEN [cop0 EXCEPT !.exl = FALSE] ELSE cop0
<1> DEFINE fetched == Fetch(program, pc, skip_break, irq, cop0)
           f == Current(skip_break, irq)
           d == Decode(f, gp)
           e == Execute(d, cop0)
           m == Memory(e, mem)
           i == program[APc]
<1> USE DEF SInv, SingleTypes
<1>1. /\ f \in FetchLatch /\ FetchedCause(f)
      /\ f.inst = i /\ f.inst_addr = APc /\ APc \in Addr
      /\ f.in_delay_slot <=> ASlot # -1
      /\ f.in_delay_slot => f.inst.op \notin BranchOps
      /\ AAfter = IF delay_slot THEN pc ELSE Wrap(pc + 1)
      /\ ~delay_slot => APc = pc
  BY CurrentFacts
<1>2. /\ fetched \in FetchLatch /\ FetchedCause(fetched)
      /\ fetched.inst = program[pc] /\ fetched.inst_addr = pc
      /\ fetched.in_delay_slot = FALSE /\ fetched.is_valid = TRUE
  BY FetchedFacts
<1>3. Regular(delay_slot, program)
  BY DEF RegularUse
<1>4. i \in Instruction /\ Encodable(i) /\ (~delay_slot => i.op # "ERET")
  BY <1>1, <1>3 DEF Regular
<1> HIDE DEF fetched, f
<1>5. f.excause = "NONE" /\ Raises(i, gp) = "NONE"
  <2>1. IF f.excause = "NONE" THEN Raises(f.inst, gp) = "NONE" ELSE f.excause = "NONE"
    BY DEF Cause, f
  <2> QED
    BY <1>1, <2>1
<1>6. d \in DecodeLatch /\ HandlePc(d, pc) \in Addr /\ BranchTaken(d) \in BOOLEAN
  BY <1>1, DecodeType, HandlePcType
<1>7. Writeback(m, gp) = Result(i, APc, gp, mem, cop0)
      /\ Writeback(m, gp) \in [Reg -> Val] /\ Writeback(m, gp)[0] = 0
  BY <1>1, <1>4, <1>5, PlainResult
<1>8. /\ Stored(e, mem) = IF i.op \in {"SW", "SC"}
                          THEN [mem EXCEPT ![Wrap(gp[i.rs] + i.imm)] = gp[i.rt]] ELSE mem
      /\ Stored(e, mem) \in [Addr -> Val]
  <2>1. e \in ExecuteLatch
    BY <1>1, DecodeType, ExecuteType
  <2> QED
    BY <1>1, <1>5, <2>1, PlainStored, StoredType
<1>9. m.excause = "NONE" /\ (m.stop_if <=> i.op = "ERET") /\ m.inst_addr = APc
  BY <1>1, <1>5, PlainMemory
<1>10. /\ BranchTaken(d) <=> Takes(i, gp)
       /\ HandlePc(d, pc) = IF Takes(i, gp) THEN GoesTo(i, APc, gp) ELSE Wrap(pc + 1)
       /\ "NB_SKIP_DS" \in d.flags <=> i.op = "BEQL"
  BY <1>1, BranchResolved DEF JumpOps, Takes, GoesTo
<1>11. /\ ExecuteCop0(d, cop0) = IF i.op = "MTC0" THEN [cop0 EXCEPT !.epc = gp[i.rt]]
                                 ELSE IF i.op = "ERET" THEN [cop0 EXCEPT !.exl = FALSE] ELSE cop0
       /\ ExecutePc(d, cop0, pc) = IF i.op = "ERET" THEN cop0.epc ELSE pc
  <2>1. /\ f.excause = "NONE" /\ f.inst.op = "MTC0" => ExecuteCop0(d, cop0) = [cop0 EXCEPT !.epc = gp[f.inst.rt]]
        /\ f.inst.op = "ERET" /\ f.excause = "NONE" => ExecuteCop0(d, cop0) = [cop0 EXCEPT !.exl = FALSE]
        /\ f.inst.op \notin {"MTC0", "ERET"} => ExecuteCop0(d, cop0) = cop0
    BY <1>1, Cop0Effect
  <2>2. ExecutePc(d, cop0, pc) =
              IF f.excause = "NONE" /\ f.inst.op = "ERET" THEN cop0.epc ELSE pc
    BY <1>1, Cop0Effect
  <2> HIDE DEF d, i
  <2> QED
    BY <1>1, <1>5, <2>1, <2>2
<1>12. /\ Complete(fetched, d, e, m) /\ mem' = Stored(e, mem) /\ gp' = Writeback(m, gp)
       /\ delay_slot' = delay_slot /\ program' = program
  BY <1>9, StepParts DEF Trap, f, fetched
<1> HIDE DEF m, e, d
<1>13. /\ dt_f' = IF m.stop_if /\ delay_slot THEN FetchInit(fetched) ELSE NextFetched(fetched, d)
       /\ pc' = IF i.op = "ERET" THEN cop0.epc ELSE HandlePc(d, pc)
       /\ cop0' = ExecuteCop0(d, cop0) /\ prev_inst_addr' = APc
  BY <1>4, <1>9, <1>11, <1>12 DEF Complete
<1>14. cop0' \in Cop0Type /\ (~cop0.exl => ~cop0'.exl)
  <2>1. gp[i.rt] \in Val
    BY <1>4 DEF Instruction
  <2> QED
    BY <1>11, <1>13, <2>1, Zeros DEF Cop0Type
<1>15. pc' \in Addr /\ prev_inst_addr' \in Addr
  BY <1>1, <1>6, <1>13, Zeros DEF Cop0Type
<1>16. /\ delay_slot' \in DOMAIN Programs /\ delay_slot' \in BOOLEAN
       /\ program' \in Programs[delay_slot'] /\ program' \in [Addr -> Instruction]
       /\ gp' \in [Reg -> Val] /\ gp'[0] = 0 /\ mem' \in [Addr -> Val]
  BY <1>7, <1>8, <1>12
<1> HIDE DEF i
<1> DEFINE dropped == ~delay_slot \/ i.op = "ERET" \/ (i.op = "BEQL" /\ ~Takes(i, gp))
<1>17. CASE dropped
  <2>1. ~dt_f'.is_valid /\ dt_f'.inst = NopInst /\ dt_f'.excause = "NONE"
        /\ ~dt_f'.in_delay_slot /\ dt_f' \in FetchLatch
    <3>1. CASE delay_slot
      <4>1. dt_f' = FetchInit(fetched)
        BY <1>9, <1>10, <1>13, <1>17, <3>1 DEF NextFetched
      <4> QED
        BY <1>2, <4>1, FetchInitType DEF FetchInit, FetchLatch
    <3>2. CASE ~delay_slot
      BY <1>13, <3>2 DEF FetchedFromProgram, NextFetched
    <3> QED
      BY <3>1, <3>2
  <2>2. APc' = pc' /\ ASlot' = -1
    BY <2>1 DEF APc, ASlot
  <2>3. SInv'
    BY <1>14, <1>15, <1>16, <2>1 DEF FetchedFromProgram, PcBehindFetched, FetchedCause
  <2>4. Leaves(i)
    <3>1. CASE i.op = "ERET"
      BY <1>13, <2>2, <3>1 DEF Leaves
    <3>2. CASE i.op # "ERET" /\ Takes(i, gp)
      BY <1>10, <1>13, <1>17, <2>2, <3>2 DEF Leaves
    <3>3. CASE i.op # "ERET" /\ ~Takes(i, gp)
      BY <1>1, <1>10, <1>13, <1>17, <2>2, <3>3 DEF Leaves
    <3> QED
      BY <3>1, <3>2, <3>3
  <2> QED
    BY <1>7, <1>8, <1>11, <1>12, <1>13, <2>3, <2>4 DEF i
<1>18. CASE ~dropped
  <2>1. dt_f' = [fetched EXCEPT !.in_delay_slot = BranchTaken(d)] /\ pc' = HandlePc(d, pc)
    BY <1>9, <1>10, <1>13, <1>18 DEF NextFetched
  <2>2. /\ dt_f' \in FetchLatch /\ dt_f'.inst = program[pc] /\ dt_f'.inst_addr = pc
        /\ dt_f'.is_valid /\ dt_f'.excause = fetched.excause
        /\ dt_f'.in_delay_slot = BranchTaken(d)
    BY <1>2, <1>6, <2>1 DEF FetchLatch
  <2>3. dt_f'.in_delay_slot <=> Takes(i, gp)
    BY <1>10, <2>2
  <2>4. Leaves(i)
    <3>1. AAfter = pc /\ delay_slot /\ i.op # "ERET" /\ APc' = pc
      BY <1>1, <1>18, <2>2 DEF APc
    <3>2. CASE Takes(i, gp)
      <4>1. ASlot' = GoesTo(i, APc, gp)
        BY <1>10, <2>1, <2>2, <2>3, <3>2 DEF ASlot
      <4> QED
        BY <3>1, <3>2, <4>1 DEF Leaves
    <3>3. CASE ~Takes(i, gp)
      <4>1. ASlot' = -1
        BY <2>3, <3>3 DEF ASlot
      <4> QED
        BY <1>18, <3>1, <3>3, <4>1 DEF Leaves
    <3> QED
      BY <3>2, <3>3
  <2>5. PcBehindFetched'
    <3>1. CASE ~Takes(i, gp)
      BY <1>10, <2>1, <2>2, <2>3, <3>1 DEF PcBehindFetched
    <3>2. CASE Takes(i, gp)
      <4>1. i.op \in BranchOps
        BY <3>2 DEF Takes, BranchOps
      <4>2. dt_f.is_valid /\ ~dt_f.in_delay_slot /\ APc = dt_f.inst_addr /\ f = dt_f
        BY <1>1, <1>18, <4>1 DEF APc, f, Current, Bubble
      <4>3. pc = Wrap(APc + 1)
        BY <4>2 DEF PcBehindFetched
      <4>4. Wrap(pc - 1) = APc
        BY <1>1, <4>3, WrapBack, Zeros
      <4>5. program[pc].op \notin BranchOps
        BY <1>1, <1>3, <1>18, <4>1, <4>3 DEF Regular, i
      <4> QED
        BY <1>13, <2>2, <2>3, <3>2, <4>4, <4>5 DEF PcBehindFetched
    <3> QED
      BY <3>1, <3>2
  <2>6. FetchedFromProgram'
    BY <1>12, <1>18, <2>2 DEF FetchedFromProgram
  <2>7. FetchedCause(dt_f)'
    BY <1>2, <1>14, <2>2 DEF FetchedCause
  <2>8. SInv'
    BY <1>14, <1>15, <1>16, <2>2, <2>5, <2>6, <2>7
  <2> QED
    BY <1>7, <1>8, <1>11, <1>12, <1>13, <2>4, <2>8 DEF i
<1> QED
  BY <1>17, <1>18

-----------------------------------------------------------------------------
(* The same in the words of Isa.                                            *)

\* the arithmetic of words is the same
LEMMA Words ==
    ASSUME NEW v
    PROVE  Architecture!Wrap(v) = Wrap(v) /\ Architecture!Signed(v) = Signed(v)
BY DEF Architecture!Wrap, Architecture!Signed, Wrap, Signed

LEMMA Reading ==
    LET i == program[APc]
    IN  /\ Architecture!I = i /\ Architecture!S = gp[i.rs] /\ Architecture!T = gp[i.rt]
        /\ Architecture!After = AAfter /\ Architecture!Place = Wrap(gp[i.rs] + i.imm)
        /\ Architecture!Raised = Raises(i, gp)
        /\ Architecture!Taken <=> Takes(i, gp)
        /\ Architecture!Target = GoesTo(i, APc, gp)
<1>1. Architecture!I = program[APc]
  BY DEF Architecture!I, APc
<1>2. Architecture!S = gp[program[APc].rs] /\ Architecture!T = gp[program[APc].rt]
  BY <1>1 DEF Architecture!S, Architecture!T
<1>3. Architecture!After = AAfter
  BY Words DEF Architecture!After, Architecture!NoSlot, AAfter, APc, ASlot
<1>4. Architecture!Place = Wrap(gp[program[APc].rs] + program[APc].imm)
  BY <1>1, <1>2, Words DEF Architecture!Place
<1>5. Architecture!Raised = Raises(program[APc], gp)
  BY <1>1, <1>2, Words DEF Architecture!Raised, Raises
<1>6. Architecture!Taken <=> Takes(program[APc], gp)
  BY <1>1, <1>2, Words DEF Architecture!Taken, Takes, JumpOps
<1>7. Architecture!Target = GoesTo(program[APc], APc, gp)
  BY <1>1, <1>2, Words DEF Architecture!Target, GoesTo, APc
<1> QED
  BY <1>1, <1>2, <1>3, <1>4, <1>5, <1>6, <1>7

\* the effect of the completed instruction i
Effect(i) ==
    /\ UNCHANGED <<delay_slot, program>> /\ Leaves(i)
    /\ gp' = Result(i, APc, gp, mem, cop0)
    /\ mem' = IF i.op \in {"SW", "SC"}
              THEN [mem EXCEPT ![Wrap(gp[i.rs] + i.imm)] = gp[i.rt]] ELSE mem
    /\ cop0' = IF i.op = "MTC0" THEN [cop0 EXCEPT !.epc = gp[i.rt]]
               ELSE IF i.op = "ERET" THEN [cop0 EXCEPT !.exl = FALSE] ELSE cop0

LEMMA EffectCompletes ==
    ASSUME SInv, Effect(program[APc]), Raises(program[APc], gp) = "NONE",
           program[APc].op \in Ops
    PROVE  Architecture!Completes
<1> DEFINE i == program[APc]
<1>1. /\ Architecture!I = i /\ Architecture!S = gp[i.rs] /\ Architecture!T = gp[i.rt]
      /\ Architecture!After = AAfter /\ Architecture!Place = Wrap(gp[i.rs] + i.imm)
      /\ Architecture!Taken <=> Takes(i, gp)
      /\ Architecture!Target = GoesTo(i, APc, gp)
  BY Reading
<1>2. UNCHANGED Architecture!setup
  BY DEF Architecture!setup, Effect
<1>3. ASSUME NEW r, NEW v PROVE Architecture!Set(r, v) <=> gp' = Put(gp, r, v)
  BY DEF Architecture!Set, Put
<1>4. /\ (IF dt_f.is_valid THEN dt_f.inst_addr ELSE pc)' = APc'
      /\ (IF dt_f.is_valid /\ dt_f.in_delay_slot THEN pc ELSE -1)' = ASlot'
      /\ Architecture!NoSlot = -1
  BY DEF APc, ASlot, Architecture!NoSlot
<1>5. Architecture!Sequential <=> APc' = AAfter /\ ASlot' = -1
  BY <1>1, <1>4 DEF Architecture!Sequential
<1>6. Effect(i) /\ i.op \in Ops /\ i.op # "SYSCALL"
  BY DEF Raises
<1> HIDE DEF i
<1>14. gp' = Result(i, APc, gp, mem, cop0)
  BY <1>6 DEF Effect
<1>7. i.op \notin BranchOps /\ i.op # "ERET" => Architecture!Sequential
  BY <1>5, <1>6 DEF Effect, Leaves, Takes, BranchOps
<1>8. CASE i.op \in {"NOP", "ADDI", "ADDIU", "ADDU", "MOVZ", "TEQ", "MFC0"}
  <2>1. mem' = mem /\ cop0' = cop0 /\ Architecture!Sequential
    BY <1>6, <1>7, <1>8 DEF Effect, BranchOps, JumpOps
  <2>2. CASE i.op \in {"ADDI", "ADDIU"}
    <3>1. Architecture!Set(Architecture!I.rt, Architecture!Wrap(Architecture!S + Architecture!I.imm))
      <4>1. gp' = Put(gp, i.rt, Wrap(gp[i.rs] + i.imm))
        BY <1>14, <2>2 DEF Result
      <4>2. Architecture!I.rt = i.rt /\ Architecture!Wrap(Architecture!S + Architecture!I.imm) = Wrap(gp[i.rs] + i.imm)
        BY <1>1, Words
      <4> QED
        BY <1>3, <4>1, <4>2
    <3> QED
      BY <1>1, <1>2, <1>8, <2>1, <2>2, <3>1 DEF Architecture!Compute, Architecture!Completes
  <2>3. CASE i.op = "ADDU"
    <3>1. Architecture!Set(Architecture!I.rd, Architecture!Wrap(Architecture!S + Architecture!T))
      <4>1. gp' = Put(gp, i.rd, Wrap(gp[i.rs] + gp[i.rt]))
        BY <1>14, <2>3 DEF Result
      <4>2. Architecture!I.rd = i.rd /\ Architecture!Wrap(Architecture!S + Architecture!T) = Wrap(gp[i.rs] + gp[i.rt])
        BY <1>1, Words
      <4> QED
        BY <1>3, <4>1, <4>2
    <3> QED
      BY <1>1, <1>2, <1>8, <2>1, <2>3, <3>1 DEF Architecture!Compute, Architecture!Completes
  <2>4. CASE i.op = "MOVZ" /\ gp[i.rt] = 0
    <3>1. Architecture!Set(Architecture!I.rd, Architecture!S)
      <4>1. gp' = Put(gp, i.rd, gp[i.rs])
        BY <1>14, <2>4 DEF Result
      <4>2. Architecture!I.rd = i.rd /\ Architecture!S = gp[i.rs]
        BY <1>1, Words
      <4> QED
        BY <1>3, <4>1, <4>2
    <3> QED
      BY <1>1, <1>2, <1>8, <2>1, <2>4, <3>1 DEF Architecture!Compute, Architecture!Completes
  <2>5. CASE i.op = "MFC0"
    <3>1. Architecture!Set(Architecture!I.rt, cop0.epc)
      <4>1. gp' = Put(gp, i.rt, cop0.epc)
        BY <1>14, <2>5 DEF Result
      <4>2. Architecture!I.rt = i.rt
        BY <1>1, Words
      <4> QED
        BY <1>3, <4>1, <4>2
    <3> QED
      BY <1>1, <1>2, <1>8, <2>1, <2>5, <3>1 DEF Architecture!Compute, Architecture!Completes
  <2>6. CASE i.op \in {"NOP", "TEQ"} \/ (i.op = "MOVZ" /\ gp[i.rt] # 0)
    <3>1. gp' = gp
      BY <1>14, <2>6 DEF Result
    <3> QED
      BY <1>1, <1>2, <1>8, <2>1, <2>6, <3>1 DEF Architecture!Compute, Architecture!Completes
  <2> QED
    BY <1>8, <2>2, <2>3, <2>4, <2>5, <2>6
<1>9. CASE i.op = "LW"
  <2>1. Architecture!Load
    BY <1>1, <1>2, <1>3, <1>6, <1>7, <1>9
    DEF Architecture!Load, Effect, Result, BranchOps, JumpOps
  <2> QED
    BY <2>1 DEF Architecture!Completes
<1>10. CASE i.op \in {"SW", "SC"}
  <2>1. cop0' = cop0 /\ Architecture!Sequential
    BY <1>6, <1>7, <1>10 DEF Effect, BranchOps, JumpOps
  <2>2. mem' = [mem EXCEPT ![Architecture!Place] = Architecture!T]
    BY <1>1, <1>6, <1>10 DEF Effect
  <2>3. IF i.op = "SC" THEN Architecture!Set(i.rt, 1) ELSE UNCHANGED gp
    BY <1>3, <1>6, <1>10 DEF Effect, Result
  <2>4. Architecture!Store
    BY <1>1, <1>2, <1>10, <2>1, <2>2, <2>3 DEF Architecture!Store
  <2> QED
    BY <2>4 DEF Architecture!Completes
<1>11. CASE i.op \in BranchOps
  <2>1. mem' = mem /\ cop0' = cop0
    BY <1>6, <1>11 DEF Effect, BranchOps, JumpOps
  <2>2. gp' = IF i.op \in {"JAL", "BLTZAL"} THEN Put(gp, LinkReg, Wrap(APc + 2))
              ELSE IF i.op = "JALR" THEN Put(gp, i.rd, Wrap(APc + 2)) ELSE gp
    BY <1>6, <1>11 DEF Effect, Result, BranchOps, JumpOps
  <2>3. IF Takes(i, gp)
        THEN IF delay_slot THEN APc' = AAfter /\ ASlot' = GoesTo(i, APc, gp)
             ELSE APc' = GoesTo(i, APc, gp) /\ ASlot' = -1
        ELSE /\ APc' = IF delay_slot /\ i.op = "BEQL" THEN Wrap(AAfter + 1) ELSE AAfter
             /\ ASlot' = -1
    BY <1>6, <1>11 DEF Effect, Leaves, BranchOps, JumpOps
  <2>4. Architecture!Branch
    <3>1. CASE i.op \in {"JAL", "BLTZAL"}
      <4>1. Architecture!Set(LinkReg, Architecture!Wrap(APc + 2))
        BY <1>3, <2>2, <3>1, Words
      <4> QED
        BY <1>1, <1>2, <1>4, <1>11, <2>1, <2>3, <3>1, <4>1, Words DEF Architecture!Branch, APc
    <3>2. CASE i.op = "JALR"
      <4>1. Architecture!Set(Architecture!I.rd, Architecture!Wrap(APc + 2))
        BY <1>1, <1>3, <2>2, <3>2, Words
      <4> QED
        BY <1>1, <1>2, <1>4, <1>11, <2>1, <2>3, <3>2, <4>1, Words DEF Architecture!Branch, APc
    <3>3. CASE i.op \notin {"JAL", "BLTZAL", "JALR"}
      BY <1>1, <1>2, <1>4, <1>11, <2>1, <2>2, <2>3, <3>3, Words
      DEF Architecture!Branch, APc, BranchOps, JumpOps
    <3> QED
      BY <3>1, <3>2, <3>3
  <2> QED
    BY <2>4 DEF Architecture!Completes
<1>12. CASE i.op = "MTC0"
  <2>1. Architecture!Privileged
    BY <1>1, <1>2, <1>6, <1>7, <1>12
    DEF Architecture!Privileged, Effect, Result, BranchOps, JumpOps
  <2> QED
    BY <2>1 DEF Architecture!Completes
<1>13. CASE i.op = "ERET"
  <2>1. Architecture!Privileged
    BY <1>1, <1>2, <1>4, <1>6, <1>13
    DEF Architecture!Privileged, Effect, Result, Leaves
  <2> QED
    BY <2>1 DEF Architecture!Completes
<1> QED
  BY <1>6, <1>8, <1>9, <1>10, <1>11, <1>12, <1>13 DEF Ops, BranchOps, JumpOps

\* the effect of an exception
ExceptionEffect(cause) ==
    LET resume == IF ASlot = -1 THEN APc ELSE Wrap(APc - 1)
    IN  /\ UNCHANGED <<delay_slot, program, gp, mem>>
        /\ cop0' = [epc |-> resume, cause |-> cause, bd |-> ASlot # -1,
                    exl |-> cop0.exl \/ Vectors(cause)]
        /\ APc' = IF Vectors(cause) THEN Vector
                  ELSE IF cause = "HWBREAK" THEN resume ELSE AAfter
        /\ ASlot' = -1

LEMMA EffectIsException ==
    ASSUME NEW cause, cause # "NONE", ExceptionEffect(cause)
    PROVE  Architecture!Exception(cause)
<1>1. /\ (IF dt_f.is_valid THEN dt_f.inst_addr ELSE pc)' = APc'
      /\ (IF dt_f.is_valid /\ dt_f.in_delay_slot THEN pc ELSE -1)' = ASlot'
      /\ (IF dt_f.is_valid THEN dt_f.inst_addr ELSE pc) = APc
      /\ (IF dt_f.is_valid /\ dt_f.in_delay_slot THEN pc ELSE -1) = ASlot
      /\ Architecture!NoSlot = -1 /\ Architecture!After = AAfter
  BY Reading DEF APc, ASlot, Architecture!NoSlot
<1>2. UNCHANGED <<Architecture!setup, gp, mem>>
  BY DEF Architecture!setup, ExceptionEffect
<1> QED
  BY <1>1, <1>2, Words DEF Architecture!Exception, ExceptionEffect, Vectors

-----------------------------------------------------------------------------
LEMMA SingleInit ==
    Init => SInv /\ Architecture!Init
<1> SUFFICES ASSUME Init PROVE SInv /\ Architecture!Init
  OBVIOUS
<1>1. dt_f = FetchReset /\ ~dt_f.is_valid /\ ~dt_f.in_delay_slot /\ dt_f.inst = NopInst
      /\ dt_f.excause = "NONE" /\ dt_f \in FetchLatch
  BY Zeros, NopType DEF Init, FetchReset, FetchLatch, Causes
<1>2. /\ delay_slot \in DOMAIN Programs /\ delay_slot \in BOOLEAN
      /\ program \in Programs[delay_slot] /\ program \in [Addr -> Instruction]
  BY SingleAssumption DEF Init
<1>3. /\ gp \in [Reg -> Val] /\ gp[0] = 0 /\ pc \in Addr /\ mem \in [Addr -> Val]
      /\ prev_inst_addr \in Addr
  BY Zeros, CoreAssumption DEF Init, RegsReset
<1>4. cop0 \in Cop0Type
  BY Zeros DEF Init, Cop0Init, Cop0Type, Causes
<1>5. SInv
  BY <1>1, <1>2, <1>3, <1>4
  DEF SInv, SingleTypes, FetchedFromProgram, PcBehindFetched, FetchedCause
<1>6. Architecture!Init
  BY <1>1, <1>2 DEF Init, Architecture!Init, Architecture!NoSlot, RegsReset, Cop0Init,
     Architecture!Addr, Architecture!Val, Architecture!Instruction, Architecture!Ops,
     Architecture!Reg, Addr, Val, Instruction, Ops, Reg
<1> QED
  BY <1>5, <1>6

LEMMA SingleNext ==
    ASSUME SInv, RegularUse, [Next]_vars
    PROVE  SInv' /\ [Architecture!Next]_(Architecture!vars)
<1>1. CASE UNCHANGED vars
  <2>1. SInv'
    BY <1>1 DEF SInv, SingleTypes, FetchedFromProgram, PcBehindFetched, FetchedCause, vars, setup
  <2>2. UNCHANGED Architecture!vars
    BY <1>1 DEF Architecture!vars, Architecture!setup, vars, setup
  <2> QED
    BY <2>1, <2>2
<1>2. ASSUME NEW skip_break \in BOOLEAN, NEW irq \in {FALSE, Irqs}, Step(skip_break, irq)
      PROVE  SInv' /\ [Architecture!Next]_(Architecture!vars)
  <2>1. CASE Bubble
    <3>1. SInv' /\ UNCHANGED <<delay_slot, program, gp, mem, cop0>> /\ APc' = APc /\ ASlot' = ASlot
      BY <1>2, <2>1, BubbleStep
    <3>2. UNCHANGED Architecture!vars
      BY <3>1 DEF Architecture!vars, Architecture!setup, APc, ASlot
    <3> QED
      BY <3>1, <3>2
  <2>2. CASE ~Bubble /\ Cause(skip_break, irq) = "NONE"
    <3>1. Raises(program[APc], gp) = "NONE" /\ program[APc].op \in Ops
      <4>1. Current(skip_break, irq).inst = program[APc] /\ APc \in Addr
        BY <2>2, CurrentFacts
      <4> QED
        BY <2>2, <4>1 DEF Cause, SInv, SingleTypes, Instruction
    <3>2. SInv' /\ Effect(program[APc])
      BY <1>2, <2>2, CompleteStep DEF Effect
    <3>3. Architecture!Completes
      BY <3>1, <3>2, EffectCompletes
    <3>4. Architecture!Raised = "NONE"
      BY <3>1, Reading
    <3> QED
      BY <3>2, <3>3, <3>4 DEF Architecture!Next
  <2>3. CASE ~Bubble /\ Cause(skip_break, irq) # "NONE"
    <3> DEFINE f == Current(skip_break, irq)
    <3>1. SInv' /\ ExceptionEffect(Cause(skip_break, irq))
      BY <1>2, <2>3, TrapStep DEF ExceptionEffect
    <3>2. Architecture!Exception(Cause(skip_break, irq))
      BY <2>3, <3>1, EffectIsException
    <3>3. FetchedCause(f) /\ f.inst = program[APc] /\ f.inst_addr = APc
      BY <2>3, CurrentFacts
    <3>4. CASE f.excause = "NONE"
      <4>1. Cause(skip_break, irq) = Architecture!Raised
        BY <3>3, <3>4, Reading DEF Cause
      <4>2. IF Architecture!Raised = "NONE" THEN Architecture!Completes
            ELSE Architecture!Exception(Architecture!Raised)
        BY <2>3, <3>2, <4>1
      <4> QED
        BY <3>1, <4>2 DEF Architecture!Next
    <3>5. CASE f.excause = "HWBREAK"
      <4>1. Cause(skip_break, irq) = "HWBREAK"
        BY <3>5 DEF Cause
      <4>2. (IF dt_f.is_valid THEN dt_f.inst_addr ELSE pc) \in Breaks
        BY <3>3, <3>5 DEF FetchedCause, APc
      <4> QED
        BY <3>1, <3>2, <4>1, <4>2 DEF Architecture!Next
    <3>6. CASE f.excause = "INT"
      <4>1. Cause(skip_break, irq) = "INT"
        BY <3>6 DEF Cause
      <4>2. Irqs /\ ~cop0.exl
        BY <3>3, <3>6 DEF FetchedCause
      <4> QED
        BY <3>1, <3>2, <4>1, <4>2 DEF Architecture!Next
    <3> QED
      BY <3>3, <3>4, <3>5, <3>6 DEF FetchedCause
  <2> QED
    BY <2>1, <2>2, <2>3
<1>3. CASE Restart
  <2>1. /\ ~dt_f'.is_valid /\ ~dt_f'.in_delay_slot /\ dt_f'.inst = NopInst
        /\ dt_f'.excause = "NONE" /\ dt_f' \in FetchLatch
    BY <1>3, Zeros, NopType DEF Restart, FetchReset, FetchLatch, Causes
  <2>2. /\ gp' \in [Reg -> Val] /\ gp'[0] = 0 /\ pc' \in Addr /\ mem' \in [Addr -> Val]
        /\ prev_inst_addr' \in Addr
    BY <1>3, Zeros, CoreAssumption DEF Restart, RegsReset
  <2>3. SInv'
    BY <1>3, <2>1, <2>2
    DEF Restart, setup, SInv, SingleTypes, FetchedFromProgram, PcBehindFetched, FetchedCause
  <2>4. Architecture!Restart
    BY <1>3, <2>1 DEF Restart, setup, RegsReset, Architecture!Restart, Architecture!setup,
       Architecture!NoSlot, Architecture!Reg, Reg
  <2> QED
    BY <2>3, <2>4 DEF Architecture!Next
<1> QED
  BY <1>1, <1>2, <1>3 DEF Next, Steps

-----------------------------------------------------------------------------
\* CoreSingle::do_step executes every regular program the way the architecture
\* defines it: one instruction after the other, with precise exceptions and
\* delay slots, for every word size, number of registers and set of breakpoints.
THEOREM SingleExecutesInOrder == RegularUse => (Spec => ExecutesInOrder)
<1> SUFFICES ASSUME RegularUse PROVE Spec => ExecutesInOrder
  OBVIOUS
<1>1. SInv /\ [Next]_vars => SInv' /\ [Architecture!Next]_(Architecture!vars)
  BY SingleNext
<1> QED
  BY <1>1, SingleInit, PTL DEF Spec, ExecutesInOrder, Architecture!Spec
=============================================================================
