----------------------------- MODULE CoreSingle ------------------------------
(***************************************************************************)
(* The core without a pipeline, CoreSingle::do_step (machine/core.cpp):    *)
(* one step runs one instruction through all stages.  With a delay slot    *)
(* the instruction was fetched by the step before and waits in dt_f.       *)
(***************************************************************************)
EXTENDS CoreStages

CONSTANTS Programs,     \* with and without a delay slot, the programs to run
          AllowRestart  \* whether Machine::restart is used

ASSUME SingleAssumption ==
    /\ DOMAIN Programs \subseteq BOOLEAN
    /\ \A ds \in DOMAIN Programs : Programs[ds] \subseteq [Addr -> Instruction]
    /\ AllowRestart \in BOOLEAN

VARIABLES delay_slot,  \* jmp_delay_slot: dt_f is used
          program, pc, gp, mem, cop0,
          dt_f, prev_inst_addr

setup == <<delay_slot, program>>
vars == <<setup, pc, gp, mem, cop0, dt_f, prev_inst_addr>>

Init ==
    /\ delay_slot \in DOMAIN Programs
    /\ program \in Programs[delay_slot]
    /\ pc = PcInit /\ gp = RegsReset /\ mem = MemImage
    /\ cop0 = Cop0Init
    /\ dt_f = FetchReset /\ prev_inst_addr = 0

\* fault: the delay slot of a likely branch that is not taken is executed
NextFetchedAlways(fetched, d) ==
    IF ~delay_slot THEN dt_f ELSE [fetched EXCEPT !.in_delay_slot = BranchTaken(d)]

\* what fetch leaves in dt_f for the step after a completed instruction d
NextFetched(fetched, d) ==
    IF ~delay_slot THEN dt_f
    ELSE IF "NB_SKIP_DS" \in d.flags /\ ~BranchTaken(d)
         THEN FetchInit(fetched)
    ELSE [fetched EXCEPT !.in_delay_slot = BranchTaken(d)]

\* The instruction completes.  stop_if drops the fetched instruction and does
\* not advance the program counter, but only when there is a delay slot.
Complete(fetched, d, e, m) ==
    LET stops == m.stop_if /\ delay_slot
        pc1   == ExecutePc(d, cop0, pc)
    IN  /\ m.excause = "NONE"
        /\ dt_f' = IF stops THEN FetchInit(fetched) ELSE NextFetched(fetched, d)
        /\ pc' = IF stops THEN pc1 ELSE HandlePc(d, pc1)
        /\ cop0' = ExecuteCop0(d, cop0)
        /\ prev_inst_addr' = m.inst_addr

\* The instruction raised an exception.
Trap(fetched, d, e, m) ==
    LET next_addr == IF delay_slot THEN fetched.inst_addr ELSE HandlePc(d, pc)
    IN  /\ m.excause # "NONE"
        /\ dt_f' = IF delay_slot THEN FetchInit(fetched) ELSE dt_f
        /\ pc' = HandleExceptionPc(m, prev_inst_addr, next_addr)
        /\ cop0' = HandleExceptionCop0(m, prev_inst_addr, ExecuteCop0(d, cop0))
        /\ UNCHANGED prev_inst_addr

\* The stages; with a delay slot dt_f and the fetched instruction are swapped.
Step(skip_break, irq) ==
    LET fetched == Fetch(program, pc, skip_break, irq, cop0)
        d == Decode(IF delay_slot THEN dt_f ELSE fetched, gp)
        e == Execute(d, cop0)
        m == Memory(e, mem)
    IN  /\ mem' = Stored(e, mem)
        /\ gp' = Writeback(m, gp)
        /\ Complete(fetched, d, e, m) \/ Trap(fetched, d, e, m)
        /\ UNCHANGED setup

\* Machine::restart; coprocessor 0 keeps its registers
Restart ==
    /\ AllowRestart
    /\ pc' = PcInit /\ gp' = RegsReset /\ mem' = MemImage
    /\ dt_f' = FetchReset /\ prev_inst_addr' = 0
    /\ UNCHANGED <<setup, cop0>>

Steps == \E skip_break \in BOOLEAN, irq \in {FALSE, Irqs} : Step(skip_break, irq)

Next == Steps \/ Restart

Spec == Init /\ [][Next]_vars

-----------------------------------------------------------------------------
\* What the programs have to keep to.  Without delay slots an interrupt that is
\* stepped over must not meet a branch: the branch would be followed.
RegularUse ==
    /\ \A ds \in DOMAIN Programs : \A p \in Programs[ds] : Regular(ds, p)
    /\ FALSE \in DOMAIN Programs /\ Irqs => Vectors("INT")

Architecture ==
    INSTANCE Isa WITH
        pc   <- IF dt_f.is_valid THEN dt_f.inst_addr ELSE pc,
        slot <- IF dt_f.is_valid /\ dt_f.in_delay_slot THEN pc ELSE -1

\* The single cycle core executes the program one instruction after the other,
\* with precise exceptions and delay slots.
ExecutesInOrder == Architecture!Spec
=============================================================================
