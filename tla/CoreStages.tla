----------------------------- MODULE CoreStages ------------------------------
(***************************************************************************)
(* The stages both cores are made of (machine/core.cpp): each is a function *)
(* of the latch before it, of the registers, memory and coprocessor 0.     *)
(* What the stages only show to the user interface (the emitted values,    *)
(* ff_rs, forward_m_d_rs, dt.stall) and the cycle counters are left out.   *)
(***************************************************************************)
EXTENDS Instructions

CONSTANTS PcInit,    \* PC_INIT
          MemImage,  \* data memory after loading the program
          Breaks,    \* hw_breaks: addresses with a hardware breakpoint
          Irqs,      \* whether interrupts are requested
          EBaseSet,  \* the EBase register is not zero
          Vector,    \* exception_pc_address()
          StepOver   \* step_over_exception

ASSUME CoreAssumption ==
    /\ PcInit \in Addr /\ Vector \in Addr
    /\ MemImage \in [Addr -> Val]
    /\ Breaks \subseteq Addr
    /\ Irqs \in BOOLEAN /\ EBaseSet \in BOOLEAN
    /\ StepOver \subseteq Causes

RegsReset == [r \in Reg |-> 0]
Cop0Init  == [epc |-> 0, cause |-> "NONE", bd |-> FALSE, exl |-> FALSE]

ReadGp(gp, r) == IF r = 0 THEN 0 ELSE gp[r]
WriteGp(gp, r, v) == IF r = 0 THEN gp ELSE [gp EXCEPT ![r] = v]

-----------------------------------------------------------------------------
(* Latches, and what the dt...Init functions make of them: a bubble that    *)
(* keeps the address of the instruction that was there.                     *)

FetchLatch == [inst : Instruction, inst_addr : Addr, excause : Causes,
               in_delay_slot : BOOLEAN, is_valid : BOOLEAN]

DecodeLatch ==
    [inst : Instruction, flags : SUBSET Flags, aluop : AluOps, memctl : MemCtls,
     num_rs : Reg, num_rt : Reg, val_rs : Val, val_rt : Val,
     immediate_val : Val, rwrite : Reg, inst_addr : Addr, excause : Causes,
     in_delay_slot : BOOLEAN, is_valid : BOOLEAN]

ExecuteLatch ==
    [memread : BOOLEAN, memwrite : BOOLEAN, regwrite : BOOLEAN,
     memctl : MemCtls, val_rt : Val, rwrite : Reg, alu_val : Val,
     inst_addr : Addr, excause : Causes, in_delay_slot : BOOLEAN,
     stop_if : BOOLEAN, is_valid : BOOLEAN]

MemoryLatch ==
    [memtoreg : BOOLEAN, regwrite : BOOLEAN, rwrite : Reg, towrite_val : Val,
     inst_addr : Addr, excause : Causes, in_delay_slot : BOOLEAN,
     stop_if : BOOLEAN, is_valid : BOOLEAN]

FetchInit(f) == [f EXCEPT !.inst = NopInst, !.excause = "NONE",
                          !.in_delay_slot = FALSE, !.is_valid = FALSE]

FetchReset == [inst |-> NopInst, inst_addr |-> 0, excause |-> "NONE",
               in_delay_slot |-> FALSE, is_valid |-> FALSE]

DecodeBubble(flags, inst_addr) ==
    [inst |-> NopInst, flags |-> flags, aluop |-> "SLL", memctl |-> "NONE",
     num_rs |-> 0, num_rt |-> 0, val_rs |-> 0, val_rt |-> 0,
     immediate_val |-> 0, rwrite |-> 0, inst_addr |-> inst_addr,
     excause |-> "NONE", in_delay_slot |-> FALSE, is_valid |-> FALSE]

DecodeReset == DecodeBubble({}, 0)

\* fault: regwrite, memread and rwrite are not cleared either
DecodeInitWrites(d) ==
    [DecodeBubble(d.flags \cap {"ALU_REQ_RS", "ALU_REQ_RT", "PC_TO_R31", "BRANCH",
                                "REGWRITE", "MEMREAD"},
                  d.inst_addr) EXCEPT !.rwrite = d.rwrite]

\* alu_req_rs, alu_req_rt, regd31 and branch are not cleared
DecodeInit(d) ==
    DecodeBubble(d.flags \cap {"ALU_REQ_RS", "ALU_REQ_RT", "PC_TO_R31", "BRANCH"},
                 d.inst_addr)

ExecuteBubble(inst_addr) ==
    [memread |-> FALSE, memwrite |-> FALSE, regwrite |-> FALSE,
     memctl |-> "NONE", val_rt |-> 0, rwrite |-> 0, alu_val |-> 0,
     inst_addr |-> inst_addr, excause |-> "NONE", in_delay_slot |-> FALSE,
     stop_if |-> FALSE, is_valid |-> FALSE]

ExecuteReset == ExecuteBubble(0)
ExecuteInit(e) == ExecuteBubble(e.inst_addr)

MemoryReset ==
    [memtoreg |-> FALSE, regwrite |-> FALSE, rwrite |-> 0, towrite_val |-> 0,
     inst_addr |-> 0, excause |-> "NONE", in_delay_slot |-> FALSE,
     stop_if |-> FALSE, is_valid |-> FALSE]

-----------------------------------------------------------------------------
(* The stages.                                                              *)

\* irq is what core_interrupt_request answers; it never answers TRUE while
\* Status.EXL is set
Fetch(program, pc, skip_break, irq, cop0) ==
    [inst |-> program[pc], inst_addr |-> pc,
     excause |-> IF pc \in Breaks /\ ~skip_break THEN "HWBREAK"
                 ELSE IF irq /\ ~cop0.exl THEN "INT" ELSE "NONE",
     in_delay_slot |-> FALSE, is_valid |-> TRUE]

Decode(f, gp) ==
    LET i     == f.inst
        entry == InstructionMap[i.op]
        flags == entry.flags
    IN  [inst |-> i, flags |-> flags, aluop |-> entry.alu,
         memctl |-> entry.memctl, num_rs |-> i.rs, num_rt |-> i.rt,
         val_rs |-> ReadGp(gp, i.rs),
         val_rt |-> IF flags \cap {"PC8_TO_RT", "PC_TO_R31"} # {}
                    THEN Wrap(f.inst_addr + 2) ELSE ReadGp(gp, i.rt),
         immediate_val |-> i.imm,
         rwrite |-> IF "PC_TO_R31" \in flags THEN LinkReg
                    ELSE IF "REGD" \in flags THEN i.rd ELSE i.rt,
         inst_addr |-> f.inst_addr,
         excause |-> IF "EXCEPTION" \in flags /\ f.excause = "NONE"
                     THEN EncodedException(i.op) ELSE f.excause,
         in_delay_slot |-> f.in_delay_slot, is_valid |-> f.is_valid]

\* the ALU runs only when no exception is pending
Execute(d, cop0) ==
    LET runs == d.excause = "NONE"
        t    == IF "ALUSRC" \in d.flags THEN d.immediate_val ELSE d.val_rt
    IN  [memread  |-> "MEMREAD" \in d.flags,
         memwrite |-> "MEMWRITE" \in d.flags,
         regwrite |-> "REGWRITE" \in d.flags /\ ~(runs /\ AluDiscard(d.aluop, t)),
         memctl   |-> d.memctl, val_rt |-> d.val_rt, rwrite |-> d.rwrite,
         alu_val  |-> IF ~runs THEN 0
                      ELSE IF d.aluop = "MFC0" THEN cop0.epc
                      ELSE AluVal(d.aluop, d.val_rs, t),
         inst_addr |-> d.inst_addr,
         excause  |-> IF runs THEN AluException(d.aluop, d.val_rs, t)
                      ELSE d.excause,
         in_delay_slot |-> d.in_delay_slot,
         stop_if  |-> "STOP_IF" \in d.flags, is_valid |-> d.is_valid]

\* the side effects of execute() on coprocessor 0 and the program counter;
\* MTC0 and MFC0 address EPC
ExecuteCop0(d, cop0) ==
    IF d.excause = "NONE" /\ d.aluop = "MTC0" THEN [cop0 EXCEPT !.epc = d.val_rt]
    ELSE IF d.excause = "NONE" /\ d.aluop = "ERET" THEN [cop0 EXCEPT !.exl = FALSE]
    ELSE cop0

ExecutePc(d, cop0, pc) ==
    IF d.excause = "NONE" /\ d.aluop = "ERET" THEN cop0.epc ELSE pc

\* the access to data memory; special accesses are made by memory_special
Stored(e, mem) ==
    IF e.excause = "NONE" /\ e.memctl # "NONE" /\ e.memwrite
    THEN [mem EXCEPT ![e.alu_val] = e.val_rt] ELSE mem

Memory(e, mem) ==
    LET works == e.excause = "NONE"
    IN  [memtoreg |-> e.memread /\ works,
         regwrite |-> e.regwrite /\ works,
         rwrite   |-> e.rwrite,
         towrite_val |->
             IF works /\ e.memctl = "STORE_CONDITIONAL" /\ e.memwrite THEN 1
             ELSE IF works /\ e.memctl # "NONE" /\ e.memread
                  THEN Stored(e, mem)[e.alu_val]
             ELSE e.alu_val,
         inst_addr |-> e.inst_addr, excause |-> e.excause,
         in_delay_slot |-> e.in_delay_slot, stop_if |-> e.stop_if,
         is_valid |-> e.is_valid]

Writeback(m, gp) == IF m.regwrite THEN WriteGp(gp, m.rwrite, m.towrite_val) ELSE gp

BranchTaken(d) ==
    LET holds == IF "BJR_REQ_RT" \in d.flags THEN d.val_rs = d.val_rt
                 ELSE IF "BGTZ_BLEZ" \in d.flags THEN Signed(d.val_rs) <= 0
                 ELSE Signed(d.val_rs) < 0
    IN  \/ "JUMP" \in d.flags
        \/ "BRANCH" \in d.flags /\ (holds # ("BJ_NOT" \in d.flags))

\* handle_pc: the new program counter; the jump within the 256 MB region is
\* to the address in the instruction
HandlePc(d, pc) ==
    IF "JUMP" \in d.flags
    THEN IF "BJR_REQ_RS" \in d.flags THEN d.val_rs ELSE d.inst.imm
    ELSE IF BranchTaken(d) THEN Wrap(d.inst_addr + d.inst.imm + 1)
    ELSE Wrap(pc + 1)

\* fault: a delay slot is not resumed at its branch
EpcOfSlot(m, jump_branch_pc) == m.inst_addr

\* handle_exception for an instruction m: what it does to coprocessor 0 and to
\* the program counter, already set to the next instruction
Epc(m, jump_branch_pc) == IF m.in_delay_slot THEN jump_branch_pc ELSE m.inst_addr

Vectors(cause) == EBaseSet /\ cause \notin StepOver

HandleExceptionCop0(m, jump_branch_pc, cop0) ==
    [epc |-> Epc(m, jump_branch_pc), cause |-> m.excause,
     bd |-> m.in_delay_slot, exl |-> cop0.exl \/ Vectors(m.excause)]

HandleExceptionPc(m, jump_branch_pc, next_addr) ==
    IF Vectors(m.excause) THEN Vector
    ELSE IF m.excause = "HWBREAK" THEN Epc(m, jump_branch_pc)
    ELSE next_addr
=============================================================================
