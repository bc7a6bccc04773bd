# QtMips in TLA+

This directory models QtMips, a MIPS simulator for teaching computer
architecture, checks the models with TLC on small instances and proves some of
their properties with TLAPS for all instances.  Paths below are relative to the
repository root.

## The system

| part | state | operations | source |
|---|---|---|---|
| Machine | status (ready, running, busy, exit, trapped), timer | play, pause, step, step_timer, restart | `src/machine/machine.cpp` |
| Cores | program counter and registers, the latches `dt_f`, `dt_d`, `dt_e`, `dt_m`, breakpoints | step (one cycle or one instruction), reset | `src/machine/core.cpp` |
| Instruction table, ALU | none | decode, alu_operate | `src/machine/instruction.cpp`, `src/machine/alu.cpp` |
| Coprocessor 0 | Status, Cause, EPC, EBase, Count, Compare | read/write, interrupt lines, exception bookkeeping | `src/machine/cop0state.cpp` |
| Caches (program, data) | lines, replacement statistics, counters | read, write, flush/sync, reset | `src/machine/memory/cache/` |
| Memory bus | address ranges of devices | insert, remove, read, write | `src/machine/memory/memory_bus.cpp` |
| Memory, serial port, LEDs, LCD | sections of bytes; device registers, interrupt lines | read, write, poll | `src/machine/memory/backend/` |
| OS emulation | descriptors, memory break | system calls | `src/os_emulation/ossyscall.cpp` |
| Assembler, loader, symbols | source, relocations | assemble, load | `src/assembler/`, `src/machine/programloader.cpp` |
| CLI, GUI | views | user actions | `src/cli/`, `src/gui/` |

The machine calls the core once for each tick of its timer.  The core calls the
program cache to fetch and the data cache for loads and stores; the caches call
the bus, and the bus a memory or a peripheral.  A peripheral raises an interrupt
line of coprocessor 0, which the core asks at every fetch.  Everything runs in
one thread: what makes the system hard is not preemption but the overlap of
instructions in the pipeline, the copies of data in the caches, interrupts and
breakpoints arriving at any cycle, state that survives a restart, and event
loops inside of event handlers: a message box serves timers and finished builds
before the handler that opened it returns.

What makes each part correct:

- *cache*: nobody can tell that it is there; its statistics tell what happened;
- *replacement policy*: an invalid line is used before a valid one is evicted,
  and no way is ever lost;
- *cores*: whatever is stalled, forwarded or discarded, the program runs one
  instruction after the other, exceptions are precise, and execution never hangs;
- *coprocessor 0*: no interrupt is lost, none is taken while masked;
- *serial port*: characters arrive once and in order, and no character waits
  without its interrupt;
- *machine*: a running machine advances until it is stopped, and not one
  instruction longer;
- *bus and memory*: an address belongs to one device, and what is read is what
  was written, in either byte order;
- *instruction table, assembler, ALU*: what is written is what is executed, and
  what is shown can be typed in again;
- *OS emulation*: what is handed out has one owner, and results and errors of
  the host reach the program;
- *front ends*: what is shown, offered and stored belongs to the current machine,
  no edit is lost, and the process ends with the status it promised.

PROJECT.json lists the hazards behind these properties with their lines.

## The modules

`Cache` models `Cache::write`, `read`, `flush`, `reset` and the policies.  A
call is not atomic in the model: `access()` handles one block and calls itself,
`flush()` kicks line after line, so each is a sequence of steps and the variable
`call` holds what the C++ stack holds.  `dt` and `stats` are the members of the
same names, `cnt` the counters, `mem` everything behind the bus, `io` what the
caller sees.  Backing memory is one array of bytes; a peripheral register
changes by itself (`DeviceChange`).  The counters wrap at `CounterModulus`, which
is 2^32 in the code.  `CacheCorrectness` holds the properties and
`FlatMemory`, the abstract specification: one array of bytes.

`Instructions` has one instruction for each combination of table flags that the
cores treat differently, with the flags of its entry in the instruction table
and the ALU operations they need.  Addresses count words, so +4 in the code is
+1, and a word has `ValMod` values.  `CoreStages` translates the stages, the
`dt...Init` functions, `handle_pc` and `handle_exception` as functions of a
latch.  `CorePipelined` and `CoreSingle` are the two `do_step` functions: the
actions of the pipeline are the ways through a cycle (exception in the memory or
in the execute stage, normal fetch, stall, ERET in decode).  `Isa` is the
abstract specification of both: an architecture that executes one instruction at
a time, with delay slots.  Interrupt requests are nondeterministic and masked by
Status.EXL; `skip_break` is nondeterministic, as a user may continue from a
breakpoint at any time.  The hazard unit and the presence of a delay slot are
configuration, chosen in `Init`.

`Cop0` has the interrupt logic of coprocessor 0 and its timer, `SerialPort` the
serial port with the terminal behind it, both as functions of their registers.
A function of the port ends with the calls the code ends with, and taking a
character includes the callback from the input line of the terminal.
`InterruptSystem` composes them with the core without a pipeline, of which it
keeps whether the fetched instruction carries an interrupt or a breakpoint; the
program is any sequence of the instructions that matter here, and the user types
and looks at the registers between any two steps.  `CharFifo` is the abstract
specification of the port.  EBase stays nonzero, as it is after reset.

`InstructionTable` is the table of `instruction.cpp`, entry by entry, with codes,
masks, operands and flags; a word is the set of its bits, since TLC's integers
are narrower.  `InstructionCodec` has the lookup, `to_str`, `code_from_string`
with its operand descriptions, `update` for late operands, and the pseudo
instructions; `InstructionPath` sends every entry through them.  A number n + 2^32 is n
with a mark (`High`).  `Alu` is
`alu_operate` on registers twice as wide as a word of `W` bits, with a reference
definition of each operation; a register holds a word as it is or with its sign
extended (`RegisterValues`), and `PassOps` pass it on uncut.
`SimpleAsm` is the assembler in three parts: the scanner of a source line, the
expression parser (one token per step, the tree as in the code), and the passes over
lines, includes, symbols, directives and relocations.  Texts are sequences of the few kinds
of characters or tokens the scanners tell apart.

`OsSyscall` is the OS emulation with its tables of errors and calls.  A call is one action; the host is
external and may fail with any error number or move fewer bytes than asked.  The
variable `handed` is history: how far each allocator has come in all.  Two things a program
may do are left out of `CallsReported`: a `readv` into buffers that overlap (`Separate`), and
two `/` in a row in a path (`SingleSlashes`): `filepath_to_host` takes the empty component
for a name, and of `a//../b` opens `a/b`.

`MemoryBus` has the two maps of `MemoryDataBus`; `MemorySystem` composes it with the
section tree of `Memory`, the typed accesses of `FrontendMemory`, the LED
peripheral and the display, for both byte orders of host and machine.  Its memory
refines the same `FlatMemory` that the cache expects below it and offers above, but for
reads that meet a section which is not allocated (`ReadUpToGap`).  A cache reads in
blocks, which hold any number of words: one that fills a line over the end of a section
reads zeros from an unallocated section on, also where allocated data lie behind it, and
writes them back with a dirty line.  The properties of the cache say nothing of that
case: the memory below it is flat.

`MachineControl` is the status machine of `Machine`, as functions on a machine that
collect the signals they emit.  Two front ends use it: `MainWindow` (actions, run
timer, message boxes, builds, core view) and `CommandLine` (options, tracer,
reporter, event loop).  `SourceEditors` are the editor tabs, their files and the
questions asked on close and exit; `MachineConfig` and `NewDialog` the
configuration with its presets and the dialog that edits it; `TableView` the memory
and program views; `Docks` the registers and coprocessor 0 with the docks that show
them; `SymbolTable` the symbols.  A scroll bar, a current index and an
event queue of Qt are external and modelled by what the code relies on.

`MCCache`, `MCCorePrograms`, `MCCorePipelined`, `MCCoreSingle`,
`MCInterrupts`, `MCToolchain`, `MCOsSyscall`, `MCMemory` and `MCSession` give the
constants values for TLC; `MCToolchain` and `MCSession` compose modules that do not
interact, and a behaviour picks one of them.  Operators whose comment begins with
"fault:" or "a bug:" are variants of the definition that follows with a typical
programming error; they show that a property, or a part of a joined one, notices
it, and nothing else uses them.

`CacheProofs`, `StageProofs` (lemmas about the stages, for both cores), `SingleProofs`,
`CoreProofs`, `ProcessorProofs` (interrupts and ALU), `MemoryProofs`, `OsProofs` and
`SessionProofs` hold the theorems; each extends the modules it is about.

## The runs

| run | what it shows |
|---|---|
| `cache_back` | Two ways, LRU, write-back, three blocks of memory, accesses within and over a block boundary, debugger reads, flushes: `Transparent` (refinement of `FlatMemory`), the structural invariants and `CallReturns`. |
| `cache_through` | Two ways, LFU, write-through without allocation, an access over three blocks, an uncached block with a device register, restarts: `Transparent`, `OnlyInvalidHaveZeroStat`. |
| `cache_stats` | Two rows, random replacement, two-word blocks: the counters agree with each other and with the dirty lines, the stall count does not underflow, and every change of content moves the change counter. |
| `cache_restart` | *Violation.* `Cache::reset` keeps the dirty bits, so after `Machine::restart` a write-back cache writes data of the previous run into the new image. |
| `pipeline_programs` | Every program of four instructions from three alphabets (hazards; calls and returns; traps), with both hazard units: `ExecutesInOrder` (refinement of `Isa`), `NothingYounger`, `Progress`. |
| `pipeline_interrupts` | An interrupt may be requested at any fetch, two addresses have breakpoints, the machine may restart: `ExecutesInOrder`. |
| `single` | The core without a pipeline, with and without a delay slot, with traps, interrupts, breakpoints and restarts: `ExecutesInOrder`. |
| `interrupts` | The program, the timer, the serial port, the user and the memory view in any order, with breakpoints and restarts: `CharsInOrder` (refinement of `CharFifo`), `RxLineLevel`, `RxConsumed`, `FetchedInterruptUnmasked`, `RequestServed`, `TimerFires`. |
| `toolchain` | `InstructionsAgree`: table, decoding, disassembly, assembly, late operands and hazard flags say the same of every instruction. `AluMatchesReference`: every operation on all words of four bits, and on the ends of the signed numbers with their sign extended. `AssemblerFaithful`: lines, expressions and programs of up to three lines with forward references and includes. `AssemblyEnds`: also when files include each other. |
| `os` | Eight programs of system calls, a host that fails and serves short: `ResourcesApart` (descriptors and areas), `CallsReported` (errors, bytes moved, paths below the root). |
| `memory` | Devices inserted and removed, accesses of every width, also over the ends of sections, to memory, and to LEDs, knobs and display, in all byte orders, restart: `BusSound`, `RamIsFlat` (refinement of `FlatMemory`), `DevicesFaithful`. |
| `session` | `WindowMatchesMachine` and `RunsUntilStopped` with up to two machines, two builds and two message boxes; `EditorsConsistent` and `NoEditLost` with two editors of a file that has two names; `DialogConsistent` for three changes in any order; `CommandLineTruthful` for about 300 sets of options; `ViewsConsistent` and `ViewSettles` for three moves in views of 24 rows and three uses of registers shown in docks; `SymbolsLive`. |

The joined properties are conjunctions of named parts, each with its own comment
beside it.

Bounds.  Two ways and three blocks are the least that make a row overflow, and a
refill after an eviction; two byte values tell a stale byte from a new one.
`UseBound` limits the LFU counts and `CounterBound` the statistics; a call starts
only below them.  Where the counters are not the subject, `CounterModulus` is 1
and they stay 0.  Four instructions and the loop behind them fill the five
stages with every combination of dependences at distances one to three; eight
words of memory hold them, the loop and a handler; values are three bits wide,
so sums overflow.
Count has ten values: around breakpoints it advances by up to four at once, and
has to meet the positive half of the signed difference, as it always does with
32 bits.  Two characters in the input line and one in the receiver show a change
of order; `MaxInput` is this bound.  A program of `interrupts` works with one device,
since they meet only in the lines of Cause, and Count runs in all of them.
`toolchain`: six characters or tokens are enough for a quote inside of a quote and
for an operator inserted above two others; three lines for a symbol used before and
after its definition with the address moved in between; four bits make every carry
and sign; each field is tried at its ends, also with 2^32 added, at addresses next to
the ends of a region of jumps and of the address space.  `os`: `WordBits` is 16, with lengths about a page
and about the end of the address space; two files and five slots reuse a descriptor.
`memory`: sections of four bytes in a tree of depth two, accesses within a section and
over the end of one, a display of two by two pixels.  `session`: `MaxMachines`, `MaxBuilds`, `MaxDialogs`, `MaxEditors`, `MaxEdits`,
`MaxChanges`, `MaxMoves`, `MaxSymbols` and
`MaxOps` bound what a user or a program does; a view has 24 rows for
the 750 of the code, with the same thresholds of an eighth.

Conditions.  `CacheCorrectness!EnvironmentAssumption` says when the cache is
transparent; `cache_restart` is one of the things that happen outside of it.  Programs
have no branch or ERET in a delay slot, which the architecture leaves undefined.
With the stalling hazard unit `pipeline_programs` has no traps, because the address
of the branch is lost there (see below).  Without a delay slot ERET ends behind EPC, since
`handle_pc` still increments the program counter, so `single` has no ERET there.

Fairness.  `CallReturns` assumes that a thread inside the cache goes on.
`Progress` assumes that `Machine::play`'s timer keeps calling `step_timer`
(weak fairness of `Step`).  `RequestServed` and `TimerFires` assume the same of
`Steps`, and that a user continues from a breakpoint; restarts and, for the
timer, writes to it are excepted in the properties.
`AssemblyEnds` assumes that the assembler does not stop between two lines.
`RunsUntilStopped` and `ViewSettles` assume that Qt's event loop serves the run timer
and queued calls, and that a step of the core ends.

## Where the code deviates

What the models had to translate although a document, a comment or the
architecture says otherwise.  Properties that would fail because of it name the
case in their statement.

- *cache*: `destination + size` is the first byte behind an access, so one that ends
  just below the uncached area bypasses the cache (`cache.cpp:85`).
- *cores*: after a stall the address of the branch is that of the bubble, so a
  breakpoint in the delay slot stops at the slot (`core.cpp:828`; the user
  documentation says at the branch).  DI and EI write `val_rt` into Status.
- *interrupts*: `update_tx_irq` tests a bit nothing sets, so the transmit interrupt is
  never raised (`serialport.cpp:137`, README.md:198); `core_interrupt_request` does not
  test Status.IE (`cop0state.cpp:252`, README.md:234).
- *instruction table*: TLTU and TLTIU use the operation of TGEU and INS that of EXT
  (`instruction.cpp:626`, `1006`, `860`), although README.md:363 lists them as
  supported; CACHE and MFMC0 lack operand flags; a late operand n + 2^32 of a signed
  field is taken for n, while the same number typed directly is refused
  (`instruction.cpp:2403`, `2273`); a jump in the last word of a region
  is printed relative to another region than it is assembled in.
- *ALU*: registers have 64 bits, and MTLO stores a word with its sign extended (after
  SRA, SRAV, SEB, SEH or a signed load) uncut; `alu_read_hi_lo_64bit` ORs its upper half
  over HI, so that MADD, MADDU, MSUB and MSUBU after MTLO of a negative number see HI as
  all ones (`alu.cpp:79`, `135`; `Accumulated`).  INT_MIN / -1, and EXT and INS of 32 bits,
  are undefined in C++ and left open.
- *memory*: a read that meets an unallocated section reads zeros from there to its
  end, also where sections behind it are allocated (`memory.cpp:258`); that can only be an
  access or a cache line over the end of a section of 256 bytes, which nothing prevents; a
  range that contains another one is not refused
  (`memory_bus.cpp:154`); `clean_range` continues from an erased element;
  an external change is announced to the devices behind its own, too.
- *assembler*: `.word` of an expression with value 0 is refused, a label before
  alignment padding keeps the unaligned address, the check for recursive includes
  compares names and not files.  *Expressions*: a trailing `)` is refused and a missing
  one accepted, of several unary operators only the last counts.
- *OS emulation*: an invalid descriptor sets `$v0` but not `$a3`, which otherwise holds
  the error number and not 1 (README says 0/1); the handler's state survives restart.
- *coprocessor 0*: RDHWR reads UserLocal as 0xe0000000 and MFC0 as 0 until it is first
  written (`core.cpp:59`); `Machine::restart` resets the registers but not coprocessor 0.
- *machine*: restart starts at `PC_INIT` and not at the entry of the executable
  (`machine.cpp:60`, `343`).
- *GUI*: a reload that keeps memory copies it without the dirty lines of the caches
  (`mainwindow.cpp:323`); a failed Save As keeps the new name; of two editors with one
  file only one is saved on exit; one row above the first stays out of reach in the
  memory view (`memorytableview.cpp:165` tests `>`, the program view `>=`); the
  address one row behind the last gets no cursor; rows of the memory view
  that start within its first row are moved to address 0 under the cursor, which is then one
  row above the address asked for.
- *CLI*: an end within the first step is lost and the process waits for ever
  (`main.cpp:534`); a stop on an exception always exits with 0; `load_ranges` aligns
  `start` but uses `addr`; the number of `--serial-in` is taken from `--serial-out`;
  `--trace-gp` lets 32 and negative numbers through (`main.cpp:275`), on which `RegisterId`
  throws.

## The proofs

`CacheProofs`, for every organisation, policy, set of requests and image:

- `TypeCorrect`: `TypeOK`, in particular that an access never runs past its size
  (needs that a block overflow is less than what is left of the access);
- `OneWayPerBlock`: `BlockInOneWay`, since a line is filled only after a search
  of all ways failed;
- `LRUNeverLosesWay`: `LRUKeepsEveryWay`, since both bubble passes permute the
  queue;
- `ZeroStatMeansInvalid`, `InvalidEvictedFirst`: `OnlyInvalidHaveZeroStat` and
  `InvalidWayEvictedFirst`.  The strengthening is `PolicyInv`: in an LRU queue the
  invalid ways stand before the valid ones, and an LFU count is zero only for invalid
  ones.  `InvalidEvictedFirst` excludes LFU with restarts, since `Cache::reset` clears the
  lines and keeps the counts;
- `ChangesAreCounted`: `ContentChangeCounted`, without restarts, and for counters wide
  enough that one access cannot turn them around;
- `CacheTransparent`: the cache implements `FlatMemory` (`Transparent`), under
  `EnvironmentAssumption`.  The inductive invariant `TInv` adds to the types that clean
  lines agree with memory (`Sound`), that the done part of a write is in place and the
  done part of a read is what memory showed (`DoneHeld`, `ReadHeld`), and that the user
  interface reads within one block (`Aligned`).  Each step maps to one of `FlatMemory` or
  to a stutter;
- `CleanLinesAgreeWithMemory`: `CleanLinesAgree`, a part of `TInv`;
- `StatisticsTell`: `StatisticsAddUp`.  `StatInv` balances the counters: the words read
  from memory are a block for each allocation, and those written back together with the
  dirty lines are bounded by the writes.  The hypotheses are `StatisticsUse` (every access
  goes through the cache, since uncached ones share the counters, and there is no restart,
  since `Cache::reset` clears the counters and not the dirty bits) and, of the behaviour,
  `CountersRise`: no 32-bit counter turns around.

`SingleProofs`, for every regular program, word size, number of registers, set of
exceptions and breakpoints, with and without a delay slot:

- `SingleExecutesInOrder`: `CoreSingle` implements `Isa` (`ExecutesInOrder`).  The hypothesis
  `RegularUse`: instructions are encodable (a NOP with register 0), no branch
  stands in the delay slot of another, and without delay slots there is no ERET and an
  interrupt goes to the handler instead of being stepped over.  The invariant `SInv` says that the
  instruction in `dt_f` is the one of its address, that the program counter is behind
  it, and why it carries a cause; a step is a bubble, a trap or a completed
  instruction, and each has a lemma.

`CoreProofs`, for every program, word size, number of registers, hazard unit and set
of breakpoints:

- `PipelineTypeCorrect`: `TypeOK`;
- `PipelineNothingYounger`: `NothingYounger`.  It is not inductive by itself:
  the strengthening `PInv` adds that a latch which holds no valid instruction
  holds a NOP without an exception, so that what a bubble becomes in the next
  stage is known;
- `PipelineExecutesInOrder`: `CorePipelined` implements `Isa` (`ExecutesInOrder`), under
  `RegularUse`, which TLC evaluates on both pipeline runs: the hazard unit stalls or
  forwards, programs are regular as for the single cycle core, no ERET stands in a delay
  slot, an interrupt of a program with ERET goes to the handler (stepped over at the
  ERET, it would come back to the ERET itself), and without forwarding nothing in a
  delay slot traps (the address of the branch is lost when the slot waits).  `PipeInv`
  adds to `PInv` that operands are those the architecture has once the older latches are
  retired (`OperandsReady`), that each latch holds the instruction of its address
  (`FromProgram`), that an exception on its way is one its instruction raises or fetch
  found (`TrapHolds`), and that each latch follows the one before it (`ProgramOrder`,
  `BranchAddress`).  A cycle is a
  stutter, a completed instruction or an exception of `Isa`; the lemmas about single
  stages are in `StageProofs`, which `SingleProofs` uses too.

`ProcessorProofs`, for every width of a word that is a multiple of four bits:

- `OperationsMatchReference`: `AluMatchesReference`, for all registers, amounts, fields and
  contents of HI and LO, words or words with their sign extended.  `RegisterHalves` says
  that a register above its word is zero or all ones, and `ReadAccumulates` that this is
  what HI is replaced by.  `Bit` is a bit of any integer, those above the word being the sign;
  `BitsBelow`, `BitsAbove` and the lemmas on shifts say what each step of an
  operation does to it, `NumberBits` and `WordOfBits` that a word is the number of its bits.  Sums
  and differences are linear over the sign bit; `DoubleWord` puts HI and LO together, `SignedAccumulator`
  drops the sign of the accumulator, `SignedDivision` shows that only the smallest number
  divided by -1 leaves the words.  Powers of two and `Number` are recursive functions, over
  which `EveryPass` is the induction;

and for every width of Count, set of characters, set of values written
and length of the input line:

- `InterruptTypeCorrect`, `ReceiveLineIsLevel`, `ReceiverConsumes` and
  `InterruptNotNested`.  Together with the types these are inductive.  The
  argument is in the lemmas about the functions of the port: `UpdateRxIrq` needs
  only that the line follows `rx_irq_active` (`Edge`) and makes it a level,
  `RxQueueCheck` turns any state with `Edge` into one that satisfies everything,
  and each access ends with one of the two or does not touch the receiver;
- `CharactersInOrder`: the port implements `CharFifo` (`CharsInOrder`).

`MemoryProofs`, for every set of devices and every finite set of ranges of which none
lies inside of another and at most one owns a given device (`MappingsAssumption`), every
size of a section, row and tree, display, program and byte order of machine and host
(`MemoryAssumption`, `UsesAssumption`):

- `BusStaysSound`: `BusSound`.  The invariant `BusInv` adds to it what the two maps know
  of each other: a range is filed under its last address, it is listed once with its
  device, and the range that owns the device is the oldest of it.  The proof covers
  `clean_range` wherever its loop goes on after it erased the element under its iterator;
- `MemoryIsFlat`: the tree of sections implements `FlatMemory` (`RamIsFlat`), also while
  devices come and go.  The path and the offset in the section identify an address
  (`SameSection`, `OneAddress`), so that a write meets the bytes of its addresses and no
  others (`WriteKeeps`).  `RamInv` is that of the bus and that the memory is a tree.
  An access may start anywhere and run over any number of sections, which a write
  allocates (`WriteAllocates`).  A read gives the bytes of the array up to the first section
  that is not allocated, and zeros from there on (`UpToGap`); when all are allocated, or all
  that are not lie behind the data, that is what `FlatMemory` gives (`NoGapAllThere`), and a
  read that is cut short before allocated data (`CutShort`) is no step of it.  `RamIsFlat`
  says both, and that only a write makes a section (`SectionsFollowWrites`), so that the
  section that cuts a read short was neither loaded nor written since the restart;
- `DevicesAgree`: `DevicesFaithful`.  The byte order is corrected in the frontend and again in
  the device, and `WordRead` and `WordWrittenFacts` say that the two cancel for a whole
  word; `PixelPlace` that pixels are found where they are announced; `DevInv` adds that the
  display shows the frame buffer.

`OsProofs`, for every width of a word, set of descriptors, lengths, paths, vectors and programs:

- `ResourcesStayApart`: `ResourcesApart`.  `FdInv` says that the slots of `fd_mapping` and
  the files the host has open are one-to-one; `AreasInv` that the areas of one allocator
  lie one behind the other on a line without end (`handed`), of which the addresses are
  the remainders.  The areas of the two allocators, and those handed out once the
  address space is used up or after `brk` moved the limit, are not compared;
- `CallsStayReported`: `CallsReported`.  An error: `ErrnoKept` says that the entry of `errno_map`
  that counts has the target's number of the same name, and `ErrorReported` that the number
  survives `result_errno_if_error` and `status_from_result`.  A vector: `Passes` is what one pass of
  the loops of `readv` and `writev` may do, and keeps `CountInv` (the result counts the bytes, or is
  the error that met the first of them) and `BytesInv` (the bytes moved begin the buffers
  passed, and are all of them while the loop goes on); `GatherSame` says that a read leaves
  the earlier buffers alone.  A path: each pass of `filepath_to_host` keeps `ScanInv`
  (no `..` before the position, the length left shrinks) and, by `CutResolves`, what the path
  resolves to; `PathsResolved` puts the passes together.  Loops are recursive functions:
  `LoopDefined` is their existence and `EveryPass` the induction over their passes.

`SessionProofs`, for every number of machines, builds, message boxes, symbols, editors, command
lines and changes made:

- `WindowMatches`: `WindowMatchesMachine`.  `WindowInv` says that the actions show the
  status the user sees, also while a step hides it behind BUSY, that the timer runs
  exactly while that status is RUNNING, that BUSY and a step in progress are the same,
  and that the current machine is the last one made.  The signals of an operation are
  handled by a recursive function; `LastSignal` is the lemma that unfolds it;
- `StoppedMachineRests`: `StopStopsTheRun`, the safety part of `RunsUntilStopped`;
- `SymbolsStayLive`: `SymbolsLive`, since entries have numbers of their own;
- `EditorsAgree`: `EditorsConsistent`.  `EdInv` says that no tab is there twice, that an
  editor asks for a name exactly if its file cannot be written to, that the shown editor is
  the current one, and that the rows of a question are files of tabs: while a question is
  open, every name leads `EditorFor` to an open editor;
- `EditsSurvive`: `NoEditLost`.  What is saved name after name is a walk over
  `SavedStates`, in which editors keep their file and text (`SaveAllDoes`); a text once
  written is overwritten only by an editor of the same file (`SaveOneWrites`).  The lists
  that are computed element by element rest on `WalkTaken` and `PickedFacts`;
- `DocksShowMachine`: `DocksConsistent`, a part of `ViewsConsistent`.  `DocksKept` adds that the marks are the labels used
  since the last tick, that the flag of the coprocessor dock is set if one of them is its own,
  and that the two setters of UserLocal leave two equal copies;
- `CommandLineKeepsWord`: `CommandLineTruthful`.  `CliInv` says that a machine that runs has
  its timer, or the process is about to end, or the wish to end came before `exec`; and that
  the status asked for is the one the options give (`StatusAsked`).  What is said of single
  options holds for lists of every length;
- `ViewsShowAddresses`, `CursorStaysPut`: `ViewConsistent` and `CursorKept`, the safety part of
  `ViewSettles`, for every number of rows of which at most half are visible (`ViewAssumption`), cell size and target.
  `GoodView` says that offset, top row and cursor are within the rows (`RowsOk`), that a view
  at rest on its first row is at address 0 and the saved address leads back to its top row
  (`Settled`), and that stages not painted are due (`PaintOk`); `CursorShows` where the cursor
  of an address may be.  The cases are the eighths of the rows at which the window moves;
- `ViewsStayConsistent`: `ViewsConsistent`, from the two;
- `DialogStaysConsistent`: `DialogConsistent`.  The handlers that call each other are unfolded
  once: `SetTimeShows` says that a spin box set to the configured time stops there,
  `GuiShowsConfig` that `config_gui` changes neither configuration nor preset, and
  `PresetIsChosen` that a preset chosen over another one is applied.  `DlgInv` adds to the
  property that the stored settings are those of the last machine, with an applied preset.

Assumptions.  The hypotheses of a theorem are written in it; beyond these the proofs
rest on the named `ASSUME`s of the modules, which TLC evaluates on every run.

Only model-checked, and why:

- liveness (`CallReturns`, `Progress`, `RequestServed`, `TimerFires`, `AssemblyEnds`,
  `ScrollSettles` in `ViewSettles`, the rest of `RunsUntilStopped`): fairness and ENABLED are
  out of the prover's reach;
- what a recursive operator computes: `InstructionsAgree` and `AssemblerFaithful`.  Where a function is recursive over
  a number, the proofs use a least counterexample instead of induction (`LeastNatural`,
  `LeastNumber`, `LeastSlot` with `EveryPass`).

## Not modelled

In the cores: hi and lo in the pipeline, accesses narrower than a word, the cycle and
stall counters, self-modifying code (programs are separate from data memory),
`HU_NONE` (where the program is responsible for hazards), exception handlers of the OS
emulation inside of the pipeline, and what is only shown in the user interface.
In the cache: the emitted signals, the speed improvement and hit rate shown.  In the
loader: the ELF checks, which are calls of libelf.  In the command line: the formats
of printed lines.  In the graphical front end: drawing (core view, cache view, LCD
and LED widgets), printing, syntax highlighting, the parsing of build messages.
Debug output everywhere.  PROJECT.json gives the reason for each component that is
left out.

## Plan

The cores over the whole instruction table, with partial words and hi/lo; proofs about the
passes of the assembler, with its recursive operators as functions.
