---------------------------- MODULE CorePipelined ----------------------------
(***************************************************************************)
(* The five stage pipeline of CorePipelined::do_step (machine/core.cpp).   *)
(* One step is one clock cycle: all stages run, exceptions are resolved,   *)
(* the hazard unit forwards or stalls, and fetch and the program counter   *)
(* come last.  A name with the suffix 1 is a latch after the stages ran.   *)
(***************************************************************************)
EXTENDS CoreStages

CONSTANTS Programs,     \* for each hazard unit to use, the programs to run
          AllowRestart  \* whether Machine::restart is used

HazardUnits == {"HU_NONE", "HU_STALL", "HU_STALL_FORWARD"}

ASSUME PipelineAssumption ==
    /\ DOMAIN Programs \subseteq HazardUnits
    /\ \A hu \in DOMAIN Programs : Programs[hu] \subseteq [Addr -> Instruction]
    /\ AllowRestart \in BOOLEAN

VARIABLES hazard_unit,
          program,  \* the instructions in memory
          pc, gp,   \* Registers
          mem,      \* data memory
          cop0,     \* EPC, Cause.ExcCode, Cause.BD, Status.EXL
          dt_f, dt_d, dt_e, dt_m

latches == <<dt_f, dt_d, dt_e, dt_m>>
setup == <<hazard_unit, program>>
vars == <<setup, pc, gp, mem, cop0, latches>>

Init ==
    /\ hazard_unit \in DOMAIN Programs
    /\ program \in Programs[hazard_unit]
    /\ pc = PcInit /\ gp = RegsReset /\ mem = MemImage
    /\ cop0 = Cop0Init
    /\ dt_f = FetchReset /\ dt_d = DecodeReset
    /\ dt_e = ExecuteReset /\ dt_m = MemoryReset

-----------------------------------------------------------------------------
(* The stages of one cycle, from the last to the first.                     *)

gp1   == Writeback(dt_m, gp)
mem1  == Stored(dt_e, mem)
m1    == Memory(dt_e, mem)
e1    == Execute(dt_d, cop0)
cop01 == ExecuteCop0(dt_d, cop0)
pc1   == ExecutePc(dt_d, cop0, pc)
d1    == Decode(dt_f, gp1)

(* Hazards of the decoded instruction d with an older one.                  *)

Writes(stage, r) == stage.regwrite /\ stage.rwrite # 0 /\ stage.rwrite = r

\* the HAZARD macro
AluHazard(d, stage) ==
    \/ "ALU_REQ_RS" \in d.flags /\ Writes(stage, d.num_rs)
    \/ "ALU_REQ_RT" \in d.flags /\ Writes(stage, d.num_rt)

BranchHazard(d, stage) ==
    \/ "BJR_REQ_RS" \in d.flags /\ Writes(stage, d.num_rs)
    \/ "BJR_REQ_RT" \in d.flags /\ Writes(stage, d.num_rt)

Forwards == hazard_unit = "HU_STALL_FORWARD"

\* fault: the older result of the memory stage wins
ForwardedAluOlder(d, m, e, flag, r, val) ==
    IF ~Forwards \/ flag \notin d.flags THEN val
    ELSE IF Writes(m, r) THEN m.towrite_val
    ELSE IF Writes(e, r) /\ ~e.memread THEN e.alu_val
    ELSE val

\* the value of an operand after forwarding; execute's result is the younger
\* one and is applied last
ForwardedAlu(d, m, e, flag, r, val) ==
    IF ~Forwards \/ flag \notin d.flags THEN val
    ELSE IF Writes(e, r) /\ ~e.memread THEN e.alu_val
    ELSE IF Writes(m, r) THEN m.towrite_val
    ELSE val

ForwardedBranch(d, m, e, flag, r, val) ==
    IF /\ Forwards /\ ~m.memtoreg /\ ~BranchHazard(d, e)
       /\ flag \in d.flags /\ Writes(m, r)
    THEN m.towrite_val ELSE val

Forwarded(d, m, e) ==
    [d EXCEPT
       !.val_rs = ForwardedBranch(d, m, e, "BJR_REQ_RS", d.num_rs,
                     ForwardedAlu(d, m, e, "ALU_REQ_RS", d.num_rs, @)),
       !.val_rt = ForwardedBranch(d, m, e, "BJR_REQ_RT", d.num_rt,
                     ForwardedAlu(d, m, e, "ALU_REQ_RT", d.num_rt, @))]

HazardStall(d, m, e) ==
    /\ hazard_unit # "HU_NONE"
    /\ \/ AluHazard(d, m) /\ ~Forwards
       \/ AluHazard(d, e) /\ (~Forwards \/ e.memread)
       \/ BranchHazard(d, e)
       \/ BranchHazard(d, m) /\ (~Forwards \/ m.memtoreg)

Stall(d, m, e) == HazardStall(d, m, e) \/ e.stop_if \/ m.stop_if

StopsFetch(d) == "STOP_IF" \in d.flags

-----------------------------------------------------------------------------
\* An instruction with an exception reached the memory stage: everything
\* younger is discarded and the exception is handled.
ExceptionInMemory ==
    /\ m1.excause # "NONE"
    /\ dt_m' = m1
    /\ dt_e' = ExecuteInit(e1)
    /\ dt_d' = DecodeInit(d1)
    /\ dt_f' = FetchInit(dt_f)
    /\ cop0' = HandleExceptionCop0(m1, dt_m.inst_addr, cop01)
    /\ pc' = HandleExceptionPc(m1, dt_m.inst_addr, e1.inst_addr)
    /\ gp' = gp1 /\ mem' = mem1
    /\ UNCHANGED setup

\* fault: the fetched instruction is not discarded
ExceptionInExecuteKeepsFetched ==
    /\ m1.excause = "NONE" /\ e1.excause # "NONE"
    /\ dt_m' = m1 /\ dt_e' = e1
    /\ dt_d' = DecodeInit(d1)
    /\ dt_f' = dt_f
    /\ gp' = gp1 /\ mem' = mem1 /\ cop0' = cop01 /\ pc' = pc1
    /\ UNCHANGED setup

\* The exception appears in the execute stage: nothing younger may go on.
ExceptionInExecute ==
    /\ m1.excause = "NONE" /\ e1.excause # "NONE"
    /\ dt_m' = m1 /\ dt_e' = e1
    /\ dt_d' = DecodeInit(d1)
    /\ dt_f' = FetchInit(dt_f)
    /\ gp' = gp1 /\ mem' = mem1 /\ cop0' = cop01 /\ pc' = pc1
    /\ UNCHANGED setup

NoException == m1.excause = "NONE" /\ e1.excause = "NONE"

\* The cycle goes on to fetch, with the branch in decode resolved.
FetchNext(skip_break, irq) ==
    /\ NoException
    /\ LET d == Forwarded(d1, m1, e1)
           f == Fetch(program, pc1, skip_break, irq, cop01)
       IN  /\ ~Stall(d1, m1, e1) /\ ~StopsFetch(d1)
           /\ dt_d' = d
           /\ dt_f' = IF BranchTaken(d) THEN [f EXCEPT !.in_delay_slot = TRUE]
                      ELSE IF "NB_SKIP_DS" \in d.flags THEN FetchInit(f)
                      ELSE f
           /\ pc' = HandlePc(d, pc1)
    /\ dt_m' = m1 /\ dt_e' = e1
    /\ gp' = gp1 /\ mem' = mem1 /\ cop0' = cop01
    /\ UNCHANGED setup

\* The instruction in decode waits: a bubble goes to execute, dt_f stays.
StallDecode ==
    /\ NoException
    /\ Stall(d1, m1, e1) /\ ~StopsFetch(d1)
    /\ dt_d' = DecodeInit(d1)
    /\ dt_m' = m1 /\ dt_e' = e1
    /\ gp' = gp1 /\ mem' = mem1 /\ cop0' = cop01 /\ pc' = pc1
    /\ UNCHANGED <<setup, dt_f>>

\* ERET goes on alone, whatever the hazard unit says: fetch waits for it.
StopFetch ==
    /\ NoException
    /\ StopsFetch(d1)
    /\ dt_d' = Forwarded(d1, m1, e1)
    /\ dt_f' = FetchInit(dt_f)
    /\ dt_m' = m1 /\ dt_e' = e1
    /\ gp' = gp1 /\ mem' = mem1 /\ cop0' = cop01 /\ pc' = pc1
    /\ UNCHANGED setup

Step ==
    \/ ExceptionInMemory \/ ExceptionInExecute
    \/ \E skip_break \in BOOLEAN, irq \in {FALSE, Irqs} : FetchNext(skip_break, irq)
    \/ StallDecode \/ StopFetch

\* Machine::restart; coprocessor 0 keeps its registers
Restart ==
    /\ AllowRestart
    /\ pc' = PcInit /\ gp' = RegsReset /\ mem' = MemImage
    /\ dt_f' = FetchReset /\ dt_d' = DecodeReset
    /\ dt_e' = ExecuteReset /\ dt_m' = MemoryReset
    /\ UNCHANGED <<setup, cop0>>

Next == Step \/ Restart

Spec == Init /\ [][Next]_vars

\* the timer of Machine::play calls step_internal again and again
FairSpec == Spec /\ WF_vars(Step)

-----------------------------------------------------------------------------
\* The types of the registers, of coprocessor 0 and of the latches.
TypeOK ==
    /\ hazard_unit \in HazardUnits
    /\ program \in [Addr -> Instruction]
    /\ pc \in Addr
    /\ gp \in [Reg -> Val] /\ mem \in [Addr -> Val]
    /\ cop0 \in [epc : Addr, cause : Causes, bd : BOOLEAN, exl : BOOLEAN]
    /\ dt_f \in FetchLatch /\ dt_d \in DecodeLatch
    /\ dt_e \in ExecuteLatch /\ dt_m \in MemoryLatch

\* Behind an instruction that traps, and behind an ERET until it has left the
\* memory stage, the pipeline is empty: nothing younger can write a register,
\* store or redirect the program counter before the exception is taken or the
\* return is done.
Empty(d) == ~d.is_valid /\ d.excause = "NONE"
            /\ d.flags \cap {"MEMREAD", "MEMWRITE", "JUMP", "STOP_IF"} = {}
            /\ d.aluop = "SLL" /\ d.rwrite = 0

NothingYounger ==
    /\ "STOP_IF" \in dt_d.flags => ~dt_f.is_valid
    /\ dt_e.excause # "NONE" \/ dt_e.stop_if => Empty(dt_d) /\ ~dt_f.is_valid
    /\ dt_m.excause # "NONE" \/ dt_m.stop_if =>
          /\ Empty(dt_d) /\ ~dt_f.is_valid
          /\ ~dt_e.is_valid /\ dt_e.excause = "NONE"
          /\ ~dt_e.memwrite /\ dt_e.rwrite = 0 /\ ~dt_e.stop_if

(* The architectural state: what is left when the instructions in execute   *)
(* and memory have been let to their end, unless they hold an exception.    *)
(* The oldest instruction that has done nothing yet is next.                *)

Drained == Memory(dt_e, mem)

ArchGp == Writeback(Drained, Writeback(dt_m, gp))

Traps == dt_e.excause # "NONE"

ArchPc == IF Traps THEN dt_e.inst_addr
          ELSE IF dt_d.is_valid THEN dt_d.inst_addr
          ELSE IF dt_f.is_valid THEN dt_f.inst_addr
          ELSE pc

\* a bubble has the address of the instruction it stands for
ArchSlot == IF Traps THEN IF dt_e.in_delay_slot THEN dt_d.inst_addr ELSE -1
            ELSE IF dt_d.is_valid /\ dt_d.in_delay_slot THEN dt_f.inst_addr
            ELSE IF ~dt_d.is_valid /\ dt_f.is_valid /\ dt_f.in_delay_slot THEN pc
            ELSE -1

\* What the programs have to keep to: no return from an exception in a delay slot,
\* and no interrupt at a return that would be stepped over.  The stalling unit loses
\* the address of the branch when its delay slot waits, so there nothing in a delay
\* slot may raise an exception.
RegularUse ==
    \A hu \in DOMAIN Programs : \A p \in Programs[hu] :
        /\ hu # "HU_NONE" /\ Regular(TRUE, p)
        /\ \A a \in Addr : p[a].op \in BranchOps => p[Wrap(a + 1)].op # "ERET"
        /\ \A a \in Addr : p[a].op = "ERET" /\ Irqs => Vectors("INT")
        /\ hu = "HU_STALL" => \A a \in Addr : p[a].op \in BranchOps =>
              /\ p[Wrap(a + 1)].op \notin {"ADDI", "TEQ", "SYSCALL"}
              /\ Wrap(a + 1) \notin Breaks /\ ~Irqs

Architecture ==
    INSTANCE Isa WITH delay_slot <- TRUE, pc <- ArchPc, slot <- ArchSlot,
        gp <- ArchGp, mem <- Stored(dt_e, mem)

\* Whatever the hazard unit forwards or stalls, and whatever branches and
\* exceptions discard, the pipeline executes the program one instruction after
\* the other, with precise exceptions and delay slots.
ExecutesInOrder == Architecture!Spec

\* The pipeline never waits for ever: an instruction is executed again and
\* again.
Progress == []<>dt_e.is_valid
=============================================================================
