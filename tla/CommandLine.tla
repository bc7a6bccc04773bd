----------------------------- MODULE CommandLine ------------------------------
(***************************************************************************)
(* The command line simulator (cli/main.cpp, reporter.cpp, tracer.cpp,      *)
(* chariohandler.cpp): options are checked and applied, the machine is      *)
(* played, and the reporter ends the process.  play() makes the first step  *)
(* before the event loop runs, when a request to leave the loop is lost.    *)
(***************************************************************************)
EXTENDS Integers, MachineControl, MachineConfig, SequencesExt, FiniteSets

CONSTANTS CliOptions,    \* the command lines
          MemBytes       \* size of the memory that ranges are dumped from

\* An option given several times has its values in order.  A register is the number that
\* toInt reads, a piece of a cache's option a word or the unsigned number it becomes.
CliAssumption ==
    /\ MemBytes \in Nat
    /\ \A o \in CliOptions :
          /\ o.gps \in Seq([word : STRING, n : Int])
          /\ o.dcache \in Seq([word : STRING, n : Nat])
          /\ o.serin \in Seq(STRING) /\ o.serout \in Seq(STRING)
          /\ o.fail \in Seq(SUBSET STRING)
          /\ o.range \in [start : Nat, len : Nat] /\ o.asm \in BOOLEAN
ASSUME CliAssumption

VARIABLES opts, cpu, cli

clivars == <<opts, cpu, cli>>

CliStart == [phase |-> "start", loop |-> FALSE, request |-> 2, cause |-> "none", lost |-> FALSE,
             config |-> DefaultConfig]

CliInit == opts \in CliOptions /\ cpu = NoMachine /\ cli = CliStart

-----------------------------------------------------------------------------
(* configure_machine.  A cache is given as policy,sets,block,ways[,write]:   *)
(* the policy may be missing, and a piece that is no number reads as zero.   *)

IsNumber(piece) == piece.word = ""

CachePolicies == [random |-> "RAND", lru |-> "LRU", lfu |-> "LFU"]
WriteNames    == [wb |-> "BACK", wt |-> "THROUGH_NOALLOC", wtna |-> "THROUGH_NOALLOC",
                  wta |-> "THROUGH_ALLOC"]

CacheNumbers(pieces) == IF IsNumber(pieces[1]) THEN pieces ELSE Tail(pieces)

CacheBad(pieces) ==
    /\ pieces # <<>>
    /\ \/ Len(pieces) < 3
       \/ ~IsNumber(pieces[1]) /\ pieces[1].word \notin DOMAIN CachePolicies
       \/ Len(CacheNumbers(pieces)) < 3
       \/ Len(CacheNumbers(pieces)) > 3 /\ CacheNumbers(pieces)[4].word \notin DOMAIN WriteNames

configure_cache(c, pieces) ==
    LET n == CacheNumbers(pieces)
        sized == SetCache(SetCache(SetCache([c EXCEPT !.enabled = TRUE], "sets", n[1].n),
                                   "blocks", n[2].n), "assoc", n[3].n)
        policy == IF IsNumber(pieces[1]) THEN sized
                  ELSE [sized EXCEPT !.replacement = CachePolicies[pieces[1].word]]
    IN  IF pieces = <<>> THEN c
        ELSE IF Len(n) > 3 THEN [policy EXCEPT !.write = WriteNames[n[4].word]] ELSE policy

MachineBad == \/ opts.files # 1
              \/ opts.hazard \notin {""} \cup DOMAIN HazardUnitNamed
              \/ CacheBad(opts.dcache)

configure_machine ==
    [DefaultConfig EXCEPT
        !.pipelined = opts.pipelined,
        !.delay_slot = ~opts.no_delay_slot,
        !.hazard_unit = IF opts.hazard = "" THEN @ ELSE HazardUnitNamed[opts.hazard],
        !.data = configure_cache(@, opts.dcache)]

-----------------------------------------------------------------------------
(* configure_tracer: how often each slot is connected, and the registers.    *)

\* a bug: every option connects the slot once more
ConnectAgain(calls) == calls

\* CON: a slot is connected by the first of the calls that ask for it
CON(calls) == IF calls > 0 THEN 1 ELSE 0

\* a number becomes a byte
GpNumbers(arg) == IF arg.word = "*" THEN 0 .. 31 ELSE {arg.n % 256}

\* what configure_tracer refuses, and what RegisterId does: 32 and the numbers below zero
\* are let through, and an exception that nobody catches ends the process
Refused(arg)     == arg.word \notin {"*", ""} \/ arg.n > 32
OutOfBounds(arg) == arg.word # "*" /\ \E r \in GpNumbers(arg) : r >= 32

\* the first of the options that are not fine decides
TracerBad    == \E i \in 1 .. Len(opts.gps) :
                   Refused(opts.gps[i]) /\ \A j \in 1 .. i - 1 : ~OutOfBounds(opts.gps[j])
TracerThrows == \E i \in 1 .. Len(opts.gps) :
                   OutOfBounds(opts.gps[i]) /\ \A j \in 1 .. i : ~Refused(opts.gps[j])

\* the calls of reg_gp, each with the option it comes from
reg_gp == UNION {{i} \X GpNumbers(opts.gps[i]) : i \in 1 .. Len(opts.gps)}

\* the calls for an option that takes no value
Traced(option) == IF option \in opts.trace THEN 1 ELSE 0

configure_tracer ==
    [fetch        |-> CON(Traced("fetch")),
     decode       |-> CON(IF opts.pipelined THEN Traced("decode") ELSE 0),
     gp_update    |-> CON(Cardinality(reg_gp)),
     hi_lo_update |-> CON(Traced("hi") + Traced("lo")),
     gp           |-> {call[2] : call \in reg_gp},
     hi           |-> "hi" \in opts.trace,
     lo           |-> "lo" \in opts.trace]

\* lines printed when general register r, HI or LO is written
GpLines(r)  == LET tr == configure_tracer IN IF r \in tr.gp THEN tr.gp_update ELSE 0
HiLoLines(hi) == LET tr == configure_tracer
                 IN  IF (hi /\ tr.hi) \/ (~hi /\ tr.lo) THEN tr.hi_lo_update ELSE 0

-----------------------------------------------------------------------------
(* configure_reporter, load_ranges and the dump of a range.                  *)

FailAny == {"I", "A", "O", "J"}

ReporterBad == \E i \in 1 .. Len(opts.fail) : ~(opts.fail[i] \subseteq FailAny)

\* e_fail
expect_fail == IF opts.fail # <<>> THEN UNION ToSet(opts.fail)
               ELSE IF opts.expect THEN FailAny ELSE {}

Aligned(a) == a - (a % 4)

\* a bug: the dump begins with the word after an unaligned start
DumpedAfter(start, len) ==
    {a \in 0 .. MemBytes - 1 : a % 4 = 0 /\ a >= start /\ a < start + len}

\* the addresses of the words written to the file, in order
DumpedWords(start, len) ==
    {a \in 0 .. MemBytes - 1 : a % 4 = 0 /\ a >= Aligned(start) /\ a < start + len}

\* the word each line of a file of n lines goes to
LoadedWord(start, line) == start + 4 * (line - 1)

-----------------------------------------------------------------------------
(* configure_serial_port: which handler reads and which writes, and how the  *)
(* files are opened.  The output's count indexes both lists.                 *)

\* a bug: a file named twice is opened twice
OpenedApart ==
    {<<Last(opts.serin), "r">> : i \in 1 .. Len(opts.serin)}
        \cup {<<Last(opts.serout), "w">> : i \in 1 .. Len(opts.serout)}

SerialOpened ==
    LET n == Len(opts.serout)
        same == n \in 1 .. Len(opts.serin) /\ opts.serin[n] = opts.serout[n]
    IN  {<<Last(opts.serin), IF same THEN "rw" ELSE "r">> : i \in 1 .. Len(opts.serin)}
            \cup (IF same THEN {} ELSE {<<Last(opts.serout), "w">> : i \in 1 .. n})

\* QList::at past the end of serial-in: a crash, or a name that is not the output's
SerialBad == opts.serin # <<>> /\ Len(opts.serout) > Len(opts.serin)

SerialMissing == \E o \in SerialOpened : o[1] = "missing" /\ o[2] # "w"

-----------------------------------------------------------------------------
(* main.                                                                     *)

Ends(code) == cli' = [cli EXCEPT !.phase = "ended", !.request = code]

\* configure_reporter and what follows: a bad option, an index past the end, a serial file
\* that cannot be opened, an error in the source, or a range's file that cannot be read
ReportFails == \/ ~ReporterBad /\ SerialBad /\ Ends(134)
               \/ Ends(1)

\* the process ends before the machine plays: a bad option, or an executable that cannot be
\* read (an exception nobody catches)
StartFails ==
    /\ cli.phase = "start"
    /\ \/ MachineBad /\ Ends(1)
       \/ ~MachineBad /\ ~opts.asm /\ Ends(134)
       \/ ~MachineBad /\ TracerBad /\ Ends(1)
       \/ ~MachineBad /\ TracerThrows /\ Ends(134)
       \/ ~MachineBad /\ ~TracerBad /\ ~TracerThrows /\ ReportFails
    /\ UNCHANGED <<opts, cpu>>

Start ==
    /\ cli.phase = "start"
    /\ ~(MachineBad \/ TracerBad \/ TracerThrows \/ ReporterBad \/ SerialMissing)
    /\ cpu' = [play(NewMachine(1, ~opts.asm, "elf")) EXCEPT !.sig = <<>>]
    /\ cli' = [cli EXCEPT !.phase = "running", !.config = configure_machine]
    /\ UNCHANGED opts

\* QCoreApplication::exit: without a running loop it does nothing
exit(c, code, cause) ==
    IF c.loop THEN [c EXCEPT !.request = code, !.cause = cause] ELSE [c EXCEPT !.lost = TRUE]

machine_exception_reached(c) == exit(c, 0, "stop")

\* a bug: the exit status is that of a program that ends well
ExitAlways(c) == exit(c, 0, "exit")

reporter_machine_exit(c) == exit(c, IF expect_fail # {} THEN 1 ELSE 0, "exit")

\* a bug: a trap is reported but the process stays
TrapReported(c, reason) == c

reporter_machine_trap(c, reason) == exit(c, IF reason \in expect_fail THEN 0 ELSE 1, reason)

\* the reporter's slot, if the step emitted the signal (no step emits it twice)
Reported(c, m) ==
    IF \E i \in DOMAIN m.sig : m.sig[i][1] = "program_exit" THEN reporter_machine_exit(c) ELSE c

\* after the first step exec() is called
LoopRuns(c) == [c EXCEPT !.loop = TRUE]

CliStep ==
    /\ cli.phase = "running" /\ cpu.stepping
    /\ \E pc \in 0 .. EndPc, stop \in BOOLEAN :
         \E m \in {step_finish(core_step(cpu, pc))} :
           /\ cpu' = [m EXCEPT !.sig = <<>>]
           /\ cli' = LoopRuns(Reported(IF stop THEN machine_exception_reached(cli) ELSE cli, m))
    /\ UNCHANGED opts

\* reason "other": an exception --fail-match has no letter for
CliTrap ==
    /\ cli.phase = "running" /\ cpu.stepping
    /\ \E reason \in FailAny \cup {"other"} :
         /\ cpu' = [step_trapped(cpu) EXCEPT !.sig = <<>>]
         /\ cli' = LoopRuns(reporter_machine_trap(cli, reason))
    /\ UNCHANGED opts

\* the event loop: leave it if asked, else the timer
CliLoop ==
    /\ cli.phase = "running" /\ ~cpu.stepping
    /\ \/ cli.request # 2 /\ cli' = [cli EXCEPT !.phase = "ended"] /\ UNCHANGED cpu
       \/ /\ cli.request = 2 /\ cpu.timer
          /\ cpu' = [step_timer(cpu) EXCEPT !.sig = <<>>]
          /\ UNCHANGED cli
    /\ UNCHANGED opts

CliNext == StartFails \/ Start \/ CliStep \/ CliTrap \/ CliLoop

CliSpec == CliInit /\ [][CliNext]_clivars

-----------------------------------------------------------------------------

\* The exit status is 0 after a trap only if --expect-fail or --fail-match asked for that
\* trap, and after a regular end only if no trap was asked for (Reporter::machine_trap,
\* machine_exit).  A machine stopped on an exception always ends with 0.
ExitStatusTruthful ==
    LET asked == opts.expect \/ opts.fail # <<>>
        named(r) == opts.fail # <<>> => \E i \in 1 .. Len(opts.fail) : r \in opts.fail[i]
    IN  cli.phase = "ended" /\ cli.cause # "none" =>
            (cli.request = 0 <=>
                \/ cli.cause = "stop"
                \/ cli.cause = "exit" /\ ~(asked /\ (opts.fail # <<>> => UNION ToSet(opts.fail) # {}))
                \/ cli.cause \in FailAny /\ asked /\ named(cli.cause))

\* The process waits for an event that never comes only if the program was over within the
\* first step, which play() makes before exec(); otherwise it ends once the machine does.
EndsUnlessFirstStep ==
    cli.phase = "running" /\ ~cpu.stepping /\ ~cpu.timer => cli.request # 2 \/ cli.lost

\* A machine that runs has no cache without sets, blocks or ways, although a piece that is
\* no number reads as zero and configure_cache looks for zero only once it is too late.
CacheUsable ==
    LET data == cli.config.data
    IN  data.enabled => data.sets > 0 /\ data.blocks > 0 /\ data.assoc > 0

\* Each traced event is printed once, however the options repeat it: no slot is connected
\* twice, and a shared slot filters what was not asked for (Tracer).
TracedOnce ==
    cli.phase = "start" /\ ~TracerBad /\ ~TracerThrows =>
        /\ \A r \in 0 .. 31 :
             GpLines(r) = IF \E i \in 1 .. Len(opts.gps) : opts.gps[i].word = "*" \/ opts.gps[i].n % 256 = r
                          THEN 1 ELSE 0
        /\ HiLoLines(TRUE) = IF "hi" \in opts.trace THEN 1 ELSE 0
        /\ HiLoLines(FALSE) = IF "lo" \in opts.trace THEN 1 ELSE 0

\* A dumped range holds every byte asked for, and loading the file at the aligned start
\* puts each word where it came from (Reporter::report, load_ranges).
DumpComesBack ==
    cli.phase = "start" =>
        LET s == opts.range.start  n == opts.range.len
            words == DumpedWords(s, n)
        IN  /\ \A b \in s .. s + n - 1 : b < MemBytes => Aligned(b) \in words
            /\ \A a \in words : LoadedWord(Aligned(s), Cardinality({w \in words : w <= a})) = a

\* Opening the output never truncates the file that is the input too, if both options were
\* given equally often (configure_serial_port).
InputNotTruncated ==
    cli.phase = "start" /\ Len(opts.serin) = Len(opts.serout) /\ opts.serin # <<>> =>
        <<Last(opts.serin), "w">> \notin SerialOpened

\* The process ends, with the status its options ask for, and the options it accepted take
\* effect once and in full (main.cpp, reporter.cpp, tracer.cpp).
CommandLineTruthful ==
    /\ ExitStatusTruthful /\ EndsUnlessFirstStep
    /\ CacheUsable /\ TracedOnce /\ DumpComesBack /\ InputNotTruncated
=============================================================================
