---------------------------- MODULE MemorySystem -----------------------------
(***************************************************************************)
(* What lies below the caches: the typed accesses of FrontendMemory with   *)
(* their byte order, the bus, the memory that allocates its sections when  *)
(* they are first written, the LED and knob peripheral and the display.    *)
(* A register value is a function from the significance of a byte (0 is    *)
(* the least significant) to the byte.                                     *)
(***************************************************************************)
EXTENDS MemoryBus, SequencesExt

CONSTANTS MEMORY_SECTION_SIZE,   \* bytes of a section
          MEMORY_TREE_ROW_SIZE,  \* entries of a row of the tree
          MEMORY_TREE_DEPTH,     \* rows from the root to a section
          FbWidth, FbHeight,     \* pixels of the display
          Segments,              \* the program: a sequence of [vaddr, bytes]
          Uses,                  \* what happens to the memory; one is picked
          CounterMod             \* the width of the change counter

VARIABLES ram, mem_program_only, \* trees of sections
          led,                   \* registers of the LED peripheral
          fb_data, shown,        \* the frame buffer and what the display shows
          change_counter,
          notified,              \* addresses announced by external_change_notify
          last,                  \* the access just made
          setup                  \* the byte orders and the use

vars == <<busVars, ram, mem_program_only, led, fb_data, shown, change_counter,
          notified, last, setup>>

------------------------------------------------------------------------------
\* The sizes of accesses, and the bytes below a tree of k rows.
CtlSize == [AC_I8 |-> 1, AC_U8 |-> 1, AC_I16 |-> 2, AC_U16 |-> 2, AC_I32 |-> 4, AC_U32 |-> 4,
            AC_I64 |-> 8, AC_U64 |-> 8]
Signed == {"AC_I8", "AC_I16", "AC_I32", "AC_I64"}

TreeBytes[k \in 0 .. MEMORY_TREE_DEPTH] ==
    IF k = 0 THEN MEMORY_SECTION_SIZE ELSE MEMORY_TREE_ROW_SIZE * TreeBytes[k - 1]
RamSize == TreeBytes[MEMORY_TREE_DEPTH]
RamAddr == 0 .. (RamSize - 1)
Byte == 0 .. 255

\* The segments of the program lie in the address space of the memory.
MemoryAssumption ==
    /\ {MEMORY_SECTION_SIZE, MEMORY_TREE_ROW_SIZE, MEMORY_TREE_DEPTH} \subseteq Nat \ {0}
    /\ {FbWidth, FbHeight} \subseteq Nat
    /\ CounterMod \in Nat \ {0, 1}
    /\ Segments \in Seq({Segments[k] : k \in DOMAIN Segments})
    /\ \A k \in 1 .. Len(Segments) : \E n \in 1 .. RamSize :
          Segments[k] \in [vaddr : 0 .. (RamSize - n), bytes : [0 .. (n - 1) -> Byte]]

\* The devices of a machine are plugged in side by side, and the memory's range
\* ends well before the tree does.
UsesAssumption ==
    \A u \in Uses :
        /\ u.plugged \subseteq Mappings
        /\ \A m, n \in u.plugged : m # n => ~overlaps(m, n)
        /\ u.orders \subseteq {"LITTLE", "BIG"} \X {"LITTLE", "BIG"}
        /\ u.accesses \subseteq (DOMAIN CtlSize) \X Nat
        /\ u.values \subseteq [0 .. 7 -> Byte]
        /\ u.knobs \subseteq 0 .. 3
        /\ \A m \in Mappings, r \in u.accesses : m.device = "mem" /\ contains(m, r[2]) =>
              r[2] - m.start + CtlSize[r[1]] <= RamSize

ASSUME MemoryAssumption
ASSUME UsesAssumption

------------------------------------------------------------------------------
\* Byte order.
Swapped(v)     == [i \in DOMAIN v |-> v[Cardinality(DOMAIN v) - 1 - i]]
byteswap_if(v, c) == IF c THEN Swapped(v) ELSE v
\* the bytes of a number in the memory of the host, and back
Native(v)      == byteswap_if(v, setup.native = "BIG")
Foreign        == setup.simulated # setup.native
\* what a program of the simulated machine sees at increasing addresses
Simulated(v)   == byteswap_if(v, setup.simulated = "BIG")
Low(v, n)      == [i \in 0 .. (n - 1) |-> v[i]]

------------------------------------------------------------------------------
\* The memory: a tree of rows, whose last level points to sections.
EmptyTree == [subtrees |-> {}, sections |-> [p \in {} |-> 0]]
get_tree_row(offset, i) ==
    (offset \div TreeBytes[MEMORY_TREE_DEPTH - i]) % MEMORY_TREE_ROW_SIZE
Path == [offset \in RamAddr |-> [i \in 1 .. MEMORY_TREE_DEPTH |-> get_tree_row(offset, i)]]
get_section_offset_mask(offset) == offset % MEMORY_SECTION_SIZE

\* get_section with create, for every section of an access.
Allocated(tree, paths) ==
    [subtrees |-> tree.subtrees \cup {SubSeq(p, 1, i) : p \in paths, i \in 1 .. (MEMORY_TREE_DEPTH - 1)},
     sections |-> [p \in DOMAIN tree.sections \cup paths |->
                      IF p \in DOMAIN tree.sections THEN tree.sections[p]
                      ELSE [i \in 0 .. (MEMORY_SECTION_SIZE - 1) |-> 0]]]

Covered(a, n) == a .. (a + n - 1)

\* fault: what does not fit into the first section is dropped
WriteFirstSection(tree, dst, bytes) ==
    LET covered == Covered(dst, Cardinality(DOMAIN bytes))
        t == Allocated(tree, {Path[o] : o \in covered})
        at(p, i) == {o \in covered : Path[o] = p /\ Path[dst] = p /\ get_section_offset_mask(o) = i}
    IN  [t EXCEPT !.sections = [p \in DOMAIN @ |-> [i \in 0 .. (MEMORY_SECTION_SIZE - 1) |->
            IF at(p, i) = {} THEN @[p][i] ELSE bytes[(CHOOSE o \in at(p, i) : TRUE) - dst]]]]

memory_write(tree, dst, bytes) ==
    LET covered == Covered(dst, Cardinality(DOMAIN bytes))
        t == Allocated(tree, {Path[o] : o \in covered})
        at(p, i) == {o \in covered : Path[o] = p /\ get_section_offset_mask(o) = i}
    IN  [t EXCEPT !.sections = [p \in DOMAIN @ |-> [i \in 0 .. (MEMORY_SECTION_SIZE - 1) |->
            IF at(p, i) = {} THEN @[p][i] ELSE bytes[(CHOOSE o \in at(p, i) : TRUE) - dst]]]]

\* From the first section that was never written on, everything is read as zero.
memory_read(tree, src, n) ==
    [j \in 0 .. (n - 1) |->
        IF \E k \in 0 .. j : Path[src + k] \notin DOMAIN tree.sections THEN 0
        ELSE tree.sections[Path[src + j]][get_section_offset_mask(src + j)]]

\* ProgramLoader: every loadable segment, byte by byte.
to_memory(segments) ==
    LET loaded[k \in 0 .. Len(segments)] ==
            IF k = 0 THEN EmptyTree
            ELSE memory_write(loaded[k - 1], segments[k].vaddr, segments[k].bytes)
    IN  loaded[Len(segments)]

------------------------------------------------------------------------------
\* A peripheral made of words (or pixels): an access is split at their
\* boundaries, and a word written in part is read first.
Words(offset, n, w) == {o - (o % w) : o \in Covered(offset, n)}
WordImage(v) == Native(byteswap_if(v, Foreign))
FromImageAsIs(b) == Native(b)                          \* fault: the order of the host
FromImage(b) == byteswap_if(Native(b), Foreign)

\* values holds the words an access of n bytes meets.
ReadBy(w, values, offset, n) ==
    [j \in 0 .. (n - 1) |-> WordImage(values[offset + j - ((offset + j) % w)])[(offset + j) % w]]

\* The number that reaches the word at o, which held value.
WordWritten(value, o, offset, bytes) ==
    LET old == WordImage(value) IN
    FromImage([i \in DOMAIN old |->
        IF o + i \in Covered(offset, Cardinality(DOMAIN bytes)) THEN bytes[o + i - offset]
        ELSE old[i]])

Zero(n) == [i \in 0 .. (n - 1) |-> 0]
LED_LINE == 4
LED_RGB1 == 16
LED_RGB2 == 20
KBDWR_DIRECT == 24
KNOBS_DIRECT == 32
KNOBS_8BIT == 36
LedWritable == {LED_LINE, LED_RGB1, LED_RGB2}
LedRegisters == LedWritable \cup {KBDWR_DIRECT, KNOBS_DIRECT, KNOBS_8BIT}
LedReg(o) == IF o \in LedRegisters THEN led[o] ELSE Zero(4)

FbBytes == 2 * FbWidth * FbHeight
read_raw_pixel(o) == IF o + 1 >= FbBytes THEN Zero(2)
                     ELSE Native([i \in 0 .. 1 |-> fb_data[o + i]])
get_address_from_pixel(x, y) == y * 2 * FbWidth + 2 * x
get_pixel_from_address(o) == <<(o % (2 * FbWidth)) \div 2, o \div (2 * FbWidth)>>
Pixels == (0 .. (FbWidth - 1)) \X (0 .. (FbHeight - 1))

------------------------------------------------------------------------------
\* Accesses through the bus.
Access(op, ctl, addr, value) == [op |-> op, ctl |-> ctl, addr |-> addr, value |-> value]
NoAccess == Access("none", "AC_U8", 0, Zero(8))

\* The change counter of the bus moves when the device reports a change.
Count(changed) == change_counter' = (change_counter + (IF changed THEN 1 ELSE 0)) % CounterMod

\* The bytes of the sections an access meets, whether they were allocated or not.
Held(tree, offset, n) == memory_read(Allocated(tree, {Path[a] : a \in Covered(offset, n)}), offset, n)

WriteRam(o, bytes) ==
    /\ ram' = memory_write(ram, o, bytes)
    /\ Count(\E i \in DOMAIN bytes : bytes[i] # Held(ram, o, Cardinality(DOMAIN bytes))[i])
    /\ UNCHANGED <<led, fb_data, shown>>

WriteLed(o, bytes) ==
    /\ led' = [r \in LedRegisters |->
                 IF r \in LedWritable \cap Words(o, Cardinality(DOMAIN bytes), 4)
                 THEN WordWritten(LedReg(r), r, o, bytes) ELSE led[r]]
    /\ Count(led' # led)
    /\ UNCHANGED <<ram, fb_data, shown>>

\* Every pixel that changed is announced to the display with its colours.
PixelsChanged(o, bytes) ==
    {p \in Words(o, Cardinality(DOMAIN bytes), 2) :
        p + 1 < FbBytes /\ WordWritten(read_raw_pixel(p), p, o, bytes) # read_raw_pixel(p)}
Announced(o, changed) == changed

WriteLcd(o, bytes) ==
    \E changed \in {PixelsChanged(o, bytes)} :
        /\ fb_data' = [a \in 0 .. (FbBytes - 1) |->
              IF a - (a % 2) \in changed
              THEN Native(WordWritten(read_raw_pixel(a - (a % 2)), a - (a % 2), o, bytes))[a % 2]
              ELSE fb_data[a]]
        /\ shown' = [xy \in Pixels |->
              IF \E p \in Announced(o, changed) : get_pixel_from_address(p) = xy
              THEN Native([i \in 0 .. 1 |-> fb_data'[get_address_from_pixel(xy[1], xy[2]) + i]])
              ELSE shown[xy]]
        /\ Count(changed # {})
        /\ UNCHANGED <<ram, led>>

\* A write where no device is plugged in is ignored.
bus_write(addr, bytes) ==
    IF find_range(addr) = {} THEN UNCHANGED <<ram, led, fb_data, shown, change_counter>>
    ELSE \E r \in find_range(addr) :
            \/ r.device = "mem" /\ WriteRam(addr - r.start, bytes)
            \/ r.device = "spi_led" /\ WriteLed(addr - r.start, bytes)
            \/ r.device = "lcd" /\ WriteLcd(addr - r.start, bytes)

\* A read where no device is plugged in gives zeros.
bus_read(addr, n) ==
    LET of(dev) == {r \in find_range(addr) : r.device = dev}
        offset(dev) == addr - (CHOOSE r \in of(dev) : TRUE).start
    IN  IF of("mem") # {} THEN memory_read(ram, offset("mem"), n)
        ELSE IF of("spi_led") # {} THEN
             ReadBy(4, [o \in Words(offset("spi_led"), n, 4) |-> LedReg(o)], offset("spi_led"), n)
        ELSE IF of("lcd") # {} THEN
             ReadBy(2, [o \in Words(offset("lcd"), n, 2) |-> read_raw_pixel(o)], offset("lcd"), n)
        ELSE Zero(n)

write_ctl(ctl, addr, value) ==
    /\ bus_write(addr, Native(byteswap_if(Low(value, CtlSize[ctl]), Foreign)))
    /\ last' = Access("write", ctl, addr, value)
    /\ notified' = {}
    /\ UNCHANGED <<busVars, mem_program_only, setup>>

\* read_generic, and the extension of the number to the register.
read_generic(addr, n) == byteswap_if(Native(bus_read(addr, n)), Foreign)
Extended(ctl, v) ==
    LET n == Cardinality(DOMAIN v) IN
    [i \in 0 .. 7 |-> IF i < n THEN v[i]
                      ELSE IF ctl \in Signed /\ v[n - 1] >= 128 THEN 255 ELSE 0]

read_ctl(ctl, addr) ==
    /\ last' = Access("read", ctl, addr, Extended(ctl, read_generic(addr, CtlSize[ctl])))
    /\ notified' = {}
    /\ UNCHANGED <<busVars, ram, mem_program_only, led, fb_data, shown, change_counter, setup>>

AnnouncedRange(r, start, end) ==
    (r.start + start) .. (IF r.start + end >= r.last THEN r.start + end ELSE r.last)

\* A knob is turned: the byte of that knob is replaced.  The bus announces the
\* change at every range of the peripheral (and, as the loop runs to the end of
\* the map, at ranges of other devices), up to the end of the range.
knob_update_notify(byte, value) ==
    /\ led[KNOBS_8BIT][byte] # value
    /\ led' = [led EXCEPT ![KNOBS_8BIT][byte] = value]
    /\ \E others \in SUBSET {r \in Ranges : r.device # "spi_led"} :
          notified' = UNION {AnnouncedRange(r, KNOBS_8BIT, KNOBS_8BIT + 3) :
                               r \in others \cup {s \in Ranges : s.device = "spi_led"}}
    /\ last' = NoAccess
    /\ UNCHANGED <<busVars, ram, mem_program_only, fb_data, shown, change_counter, setup>>

\* Machine::restart puts the memory back to the loaded program.
Restart == /\ ram' = mem_program_only
           /\ last' = [NoAccess EXCEPT !.op = "restart"]
           /\ notified' = {}
           /\ UNCHANGED <<busVars, mem_program_only, led, fb_data, shown, change_counter, setup>>

\* The ranges of a device that is plugged in from the start, the last inserted
\* first: the owning one was inserted before the others.
Inserted(use, d) ==
    LET ranges == {m \in use.plugged : m.device = d}
        count == Cardinality(ranges)
    IN  {s \in Bijection(1 .. count, ranges) : \A i \in 1 .. count : s[i].owns => i = count}

Init == \E use \in Uses : \E order \in use.orders :
    /\ setup = [native |-> order[1], simulated |-> order[2], use |-> use]
    /\ ranges_by_addr = [k \in {m.last : m \in use.plugged} |-> CHOOSE m \in use.plugged : m.last = k]
    /\ ranges_by_device \in {f \in [Devices -> UNION {Inserted(use, d) : d \in Devices}] :
                              \A d \in Devices : f[d] \in Inserted(use, d)}
    /\ alive = Devices
    /\ mem_program_only = to_memory(Segments)
    /\ ram = mem_program_only
    /\ led = [r \in LedRegisters |-> Zero(4)]
    /\ fb_data = [a \in 0 .. (FbBytes - 1) |-> 0]
    /\ shown = [xy \in Pixels |-> Zero(2)]
    /\ change_counter = 0 /\ notified = {} /\ last = NoAccess

BusStep == /\ setup.use.plugged = {}
           /\ \/ \E m \in Mappings : insert_device_to_range(m)
              \/ \E d \in Devices : remove_device(d) \/ NewDevice(d)
              \/ \E area \in setup.use.areas : clean_range(area[1], area[2])
           /\ notified' = {} /\ last' = NoAccess
           /\ UNCHANGED <<ram, mem_program_only, led, fb_data, shown, change_counter, setup>>

Next == \/ \E r \in setup.use.accesses, v \in setup.use.values : write_ctl(r[1], r[2], v)
        \/ \E r \in setup.use.accesses : read_ctl(r[1], r[2])
        \/ \E k \in setup.use.knobs : \E v \in {0, 255} : knob_update_notify(k, v)
        \/ setup.use.restart /\ Restart
        \/ BusStep

Spec == Init /\ [][Next]_vars

------------------------------------------------------------------------------
\* The rows on the way to a section are allocated.
Paths == [1 .. MEMORY_TREE_DEPTH -> 0 .. (MEMORY_TREE_ROW_SIZE - 1)]
IsTree(t) == \E P \in SUBSET Paths :
    /\ t \in [subtrees : SUBSET {SubSeq(p, 1, i) : p \in Paths, i \in 1 .. (MEMORY_TREE_DEPTH - 1)},
              sections : [P -> [0 .. (MEMORY_SECTION_SIZE - 1) -> Byte]]]
    /\ \A p \in P, i \in 1 .. (MEMORY_TREE_DEPTH - 1) : SubSeq(p, 1, i) \in t.subtrees

TypeOK ==
    /\ BusTypeOK
    /\ IsTree(ram) /\ IsTree(mem_program_only)
    /\ led \in [LedRegisters -> [0 .. 3 -> Byte]]
    /\ fb_data \in [0 .. (FbBytes - 1) -> Byte]
    /\ change_counter \in 0 .. (CounterMod - 1)

Content == [a \in RamAddr |-> memory_read(ram, a, 1)[0]]
Image == [a \in RamAddr |-> memory_read(to_memory(Segments), a, 1)[0]]

\* The accesses that the bus may lead to the memory, and the bytes they may write.
RamRequests == UNION {{[addr |-> r[2] - m.start, size |-> CtlSize[r[1]]] :
                          r \in {q \in u.accesses : contains(m, q[2])}} :
                         u \in Uses, m \in {n \in Mappings : n.device = "mem"}}
WrittenBytes == {v[i] : v \in UNION {u.values : u \in Uses}, i \in 0 .. 7}

\* The access just made, as the memory sees it: its addresses, and the data in the order
\* of the addresses of the simulated machine.
RamRange == {r \in find_range(last.addr) : r.device = "mem"}
RamOffset == last.addr - (CHOOSE r \in RamRange : TRUE).start
RamData == Simulated(Low(last.value, CtlSize[last.ctl]))

IsAllocated(tree, a) == Path[a] \in DOMAIN tree.sections

\* a read that meets a section that was never written in front of one that was
CutShort ==
    /\ last.op = "read" /\ RamRange # {}
    /\ \E a, b \in Covered(RamOffset, CtlSize[last.ctl]) :
          a < b /\ ~IsAllocated(ram, a) /\ IsAllocated(ram, b)

RamEvent ==
    IF last.op = "restart" THEN [op |-> "restart", addr |-> 0, data |-> [i \in {} |-> 0]]
    ELSE IF last.op = "none" \/ RamRange = {} \/ CutShort
    THEN [op |-> "none", addr |-> 0, data |-> [i \in {} |-> 0]]
    ELSE [op |-> last.op, addr |-> RamOffset, data |-> RamData]

Flat == INSTANCE FlatMemory WITH
            Addr <- RamAddr, Val <- WrittenBytes, Requests <- RamRequests, DebugRequests <- {},
            DeviceAddrs <- {}, ProgramLoaded <- TRUE, store <- Content, io <- RamEvent

\* What any read shows: the bytes of the memory up to the first section that was
\* never written, and zeros from there to its end, whatever lies behind.
ReadUpToGap ==
    last.op = "read" /\ RamRange # {} =>
        \A j \in 0 .. (CtlSize[last.ctl] - 1) :
            RamData[j] = IF \E k \in 0 .. j : ~IsAllocated(ram, RamOffset + k) THEN 0
                         ELSE Content[RamOffset + j]

\* A section exists from the first write into it to the next restart, if the program
\* does not bring it.
SectionsFollowWrites ==
    [][\A a \in RamAddr :
          IsAllocated(ram', a) <=>
              IF last'.op = "restart" THEN IsAllocated(to_memory(Segments), a)
              ELSE \/ IsAllocated(ram, a)
                   \/ /\ last'.op = "write" /\ RamRange' # {}
                      /\ \E b \in Covered(RamOffset, CtlSize[last.ctl])' :
                            a \div MEMORY_SECTION_SIZE = b \div MEMORY_SECTION_SIZE]_vars

\* The memory behind the bus is one array of bytes: a write of any width at any address,
\* within a section or over the end of one, in either byte order of machine and host,
\* changes the bytes of its addresses and no others, and a read shows what was last
\* written.  The one exception are the reads of CutShort, of which Flat sees nothing: they show
\* zeros where the array holds data, as ReadUpToGap says, and SectionsFollowWrites says when
\* that is so (Memory::write, Memory::read, FrontendMemory::write_generic, read_generic).
RamIsFlat == Flat!Spec /\ []ReadUpToGap /\ SectionsFollowWrites

\* A number stored in a register of the LED peripheral or in a pixel arrives as
\* that number, and a register is read as the number it holds, whichever the
\* byte orders are: they are corrected in the frontend and again in the device.
DeviceNumbersKept ==
    \A r \in {s \in Ranges : last.addr >= s.start /\ last.addr <= s.last} :
        LET o == last.addr - r.start
            n == Low(last.value, CtlSize[last.ctl])
        IN  /\ r.device = "spi_led" /\ CtlSize[last.ctl] = 4 /\ o \in LedRegisters =>
                  /\ last.op = "read" => n = led[o]
                  /\ last.op = "write" /\ o \in LedWritable => n = led[o]
            /\ r.device = "lcd" /\ CtlSize[last.ctl] = 2 /\ o % 2 = 0 /\ o + 1 < FbBytes /\ last.op # "none" =>
                  n = read_raw_pixel(o)

\* The display shows what is in the frame buffer (write_raw_pixel, pixel_update).
DisplayShowsPixels == \A xy \in Pixels : shown[xy] = read_raw_pixel(get_address_from_pixel(xy[1], xy[2]))

\* What a program changes is counted, so that the memory views are redrawn
\* (MemoryModel::check_for_updates compares the counters).
WritesCounted ==
    [][last'.op # "restart" /\ <<Content, fb_data, [led EXCEPT ![KNOBS_8BIT] = 0]>>'
                             # <<Content, fb_data, [led EXCEPT ![KNOBS_8BIT] = 0]>>
          => change_counter' # change_counter]_vars

\* A knob that is turned is announced at every address of its register
\* (range_backend_external_change).
KnobAnnounced ==
    [][led'[KNOBS_8BIT] # led[KNOBS_8BIT] =>
          \A r \in Ranges : r.device = "spi_led" =>
              Covered(r.start + KNOBS_8BIT, 4) \subseteq notified']_vars

\* A program, a device and the user agree on what the device holds: numbers keep their
\* value, pixels are shown, and every change is counted or announced to the views
\* (peripspiled.cpp, lcddisplay.cpp, memory_bus.cpp).
DevicesFaithful ==
    [](TypeOK /\ DeviceNumbersKept /\ DisplayShowsPixels) /\ WritesCounted /\ KnobAnnounced
=============================================================================
