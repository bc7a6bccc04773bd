-------------------------------- MODULE Cache --------------------------------
(***************************************************************************)
(* One cache between the core and the memory bus                           *)
(* (machine/memory/cache/cache.cpp), with its replacement policy           *)
(* (cache_policy.cpp).                                                     *)
(*                                                                         *)
(* A call of Cache::write, read or flush runs to its end before another    *)
(* one starts, but it is not one step: access() handles one block and      *)
(* calls itself for the rest, flush() kicks the lines one by one.  Each    *)
(* step below is one invocation of access() or one turn of flush()'s loop, *)
(* and the variable call holds what the C++ stack holds between them.      *)
(***************************************************************************)
EXTENDS Integers

(* The replacement policies: the statistics a policy keeps for each row and  *)
(* the way it selects for eviction.                                          *)

CONSTANTS Associativity,      \* number of ways
          SetCount,           \* number of rows
          ReplacementPolicy   \* "RP_RAND", "RP_LRU" or "RP_LFU"

ASSUME PolicyAssumption ==
    /\ Associativity \in Nat \ {0}
    /\ SetCount \in Nat \ {0}
    /\ ReplacementPolicy \in {"RP_RAND", "RP_LRU", "RP_LFU"}

Ways == 0 .. (Associativity - 1)
Rows == 0 .. (SetCount - 1)

\* LRU: stats[row][i] is the way at position i of the row's queue, the next
\* victim in front.  LFU: stats[row][way] counts the uses of the way.  RAND
\* keeps nothing.
InitStats ==
    [row \in Rows |->
        [i \in Ways |-> IF ReplacementPolicy = "RP_LRU" THEN i ELSE 0]]

\* fault: a used way is copied to the back without closing the gap
LRUUpdateLosesWay(queue, way, isValid) ==
    IF isValid THEN [queue EXCEPT ![Associativity - 1] = way]
    ELSE [queue EXCEPT ![0] = way]

\* The bubble pass that stops where the way used to be: a used way goes to the
\* back of the queue, an invalidated one to the front.
LRUUpdate(queue, way, isValid) ==
    LET p    == CHOOSE i \in Ways : queue[i] = way
        last == Associativity - 1
    IN  IF isValid
        THEN [i \in Ways |-> IF i < p THEN queue[i]
                             ELSE IF i < last THEN queue[i + 1] ELSE way]
        ELSE [i \in Ways |-> IF i > p THEN queue[i]
                             ELSE IF i > 0 THEN queue[i - 1] ELSE way]

\* fault: the first use after an invalidation is not counted
LFUUpdateFirstUseLost(uses, way, isValid) ==
    [uses EXCEPT ![way] = IF isValid /\ @ > 0 THEN @ + 1 ELSE 0]

LFUUpdate(uses, way, isValid) ==
    [uses EXCEPT ![way] = IF isValid THEN @ + 1 ELSE 0]

UpdateStats(stats, way, row, isValid) ==
    [stats EXCEPT ![row] =
        CASE ReplacementPolicy = "RP_LRU"  -> LRUUpdate(@, way, isValid)
          [] ReplacementPolicy = "RP_LFU"  -> LFUUpdate(@, way, isValid)
          [] ReplacementPolicy = "RP_RAND" -> @]

\* The first way with the fewest uses; a way with no use at all stops the scan.
LFUVictim(uses) ==
    CHOOSE i \in Ways : /\ \A j \in Ways : uses[i] <= uses[j]
                        /\ \A j \in Ways : j < i => uses[i] < uses[j]

\* The ways select_way_to_evict may return for a row.
VictimWays(stats, row) ==
    CASE ReplacementPolicy = "RP_LRU"  -> {stats[row][0]}
      [] ReplacementPolicy = "RP_LFU"  -> {LFUVictim(stats[row])}
      [] ReplacementPolicy = "RP_RAND" -> Ways

-----------------------------------------------------------------------------
(* The cache.                                                                *)

CONSTANTS BlockSize,       \* words in a block
          BLOCK_ITEM_SIZE, \* bytes in a word
          MemBlocks,       \* blocks of backing memory
          Val,             \* the values of a byte
          Enabled,         \* CacheConfig::enabled()
          WritePolicy,     \* "WP_BACK", "WP_THROUGH_ALLOC", "WP_THROUGH_NOALLOC"
          UncachedStart, UncachedLast,  \* first and last uncached address
          Requests,        \* accesses of the core, [addr, size]
          DebugRequests,   \* AccessEffects::INTERNAL reads, [addr, size]
          DeviceAddrs,     \* addresses a peripheral changes by itself
          Image,           \* memory after loading the program
          ProgramLoaded,   \* Machine::mem_program_only # nullptr
          AllowRestart,    \* whether Machine::restart is used
          CounterModulus,  \* the counters are uint32_t: 2^32 in the code
          AccessPenR, AccessPenW, AccessPenB,  \* cycles of a memory access
          UseBound,        \* bound of the LFU counts
          CounterBound     \* bound of the counters at the start of a call

BlockBytes == BlockSize * BLOCK_ITEM_SIZE
Addr == 0 .. (MemBlocks * BlockBytes - 1)

ASSUME CacheAssumption ==
    /\ BlockSize \in Nat \ {0}
    /\ BLOCK_ITEM_SIZE \in Nat \ {0}
    /\ MemBlocks \in Nat \ {0}
    /\ Enabled \in BOOLEAN
    /\ WritePolicy \in {"WP_BACK", "WP_THROUGH_ALLOC", "WP_THROUGH_NOALLOC"}
    /\ UncachedStart \in Nat /\ UncachedLast \in Nat
    /\ \A r \in Requests \cup DebugRequests :
          /\ r \in [addr : Addr, size : Nat]
          /\ r.addr .. (r.addr + r.size - 1) \subseteq Addr
    /\ DeviceAddrs \subseteq Addr
    /\ Image \in [Addr -> Val]
    /\ ProgramLoaded \in BOOLEAN /\ AllowRestart \in BOOLEAN
    /\ CounterModulus \in Nat \ {0}
    /\ AccessPenR \in Nat \ {0} /\ AccessPenW \in Nat \ {0} /\ AccessPenB \in Nat
    /\ UseBound \in Nat /\ CounterBound \in Nat

VARIABLES dt,     \* dt[way][row]: the cache lines
          stats,  \* the replacement policy's statistics
          mem,    \* the backing memory behind the bus
          call,   \* the call in progress
          io,     \* the event at the interface, as in FlatMemory
          cnt     \* hit_read ... burst_writes, change_counter

vars == <<dt, stats, mem, call, io, cnt>>

Lines == [valid : BOOLEAN, dirty : BOOLEAN, tag : Nat,
          data : [0 .. (BlockBytes - 1) -> Val]]

Span(r) == r.addr .. (r.addr + r.size - 1)

Idle == [op |-> "none"]
Event(op, addr, data) == [op |-> op, addr |-> addr, data |-> data]
NoEvent == Event("none", 0, [i \in {} |-> 0])

-----------------------------------------------------------------------------
(* Where an address lives in a way.                                         *)

ComputeLocation(a) ==
    LET word       == a \div BLOCK_ITEM_SIZE
        wayWords   == SetCount * BlockSize
        indexInWay == word % wayWords
    IN  [row |-> indexInWay \div BlockSize, col |-> indexInWay % BlockSize,
         tag |-> word \div wayWords, byte |-> a % BLOCK_ITEM_SIZE]

CalcBaseAddress(tag, row) == (tag * SetCount + row) * BlockSize * BLOCK_ITEM_SIZE

Row(a) == ComputeLocation(a).row
Tag(a) == ComputeLocation(a).tag
\* position of the byte in its block
Offset(a) == (ComputeLocation(a).col * BLOCK_ITEM_SIZE) + ComputeLocation(a).byte

IsInUncachedArea(a) == a >= UncachedStart /\ a <= UncachedLast

Bypasses(r) == \/ ~Enabled
               \/ IsInUncachedArea(r.addr)
               \/ IsInUncachedArea(r.addr + r.size)

\* fault: an access over a block boundary is left to the next call as a whole
OverflowWhole(a, size) == IF Offset(a) + size > BlockBytes THEN size ELSE 0

\* calculate_overflow_to_next_blocks
Overflow(a, size) == IF Offset(a) + size > BlockBytes
                     THEN Offset(a) + size - BlockBytes ELSE 0

\* fault: only the first way is searched
HitWaysFirstOnly(a) == {way \in {0} : /\ dt[way][Row(a)].valid
                                      /\ dt[way][Row(a)].tag = Tag(a)}

\* the ways that hold the block of an address: find_block_index takes the
\* first, or runs off the end when there is none
HitWays(a) == {way \in Ways : /\ dt[way][Row(a)].valid
                              /\ dt[way][Row(a)].tag = Tag(a)}

FindBlockIndex(a) == CHOOSE way \in HitWays(a) :
                        \A other \in HitWays(a) : way <= other

-----------------------------------------------------------------------------
(* Counters.                                                                *)

Counters == {"hit_read", "hit_write", "miss_read", "miss_write", "mem_reads",
             "mem_writes", "burst_reads", "burst_writes", "change_counter"}

\* fault: the counters do not wrap around
CountWide(c, d) == [f \in Counters |-> IF f \in DOMAIN d THEN c[f] + d[f] ELSE c[f]]

\* c with each counter f increased by d[f], a uint32_t addition
Count(c, d) == [f \in Counters |->
                   IF f \in DOMAIN d THEN (c[f] + d[f]) % CounterModulus ELSE c[f]]

\* get_stall_count: cycles lost waiting for memory
StallCount ==
    LET reads  == cnt["mem_reads"]  * (AccessPenR - 1)
        writes == cnt["mem_writes"] * (AccessPenW - 1)
        fills  == (cnt["miss_read"] + cnt["miss_write"]) * BlockSize
        bursts == IF AccessPenB = 0 THEN 0
                  ELSE cnt["burst_reads"] * (AccessPenR - AccessPenB)
                       + cnt["burst_writes"] * (AccessPenW - AccessPenB)
    IN  reads + writes + fills - bursts

-----------------------------------------------------------------------------
(* Backing memory, kick.                                                    *)

MemWrite(m, addr, size, buf) ==
    [a \in Addr |-> IF a \in addr .. (addr + size - 1) THEN buf[a - addr] ELSE m[a]]

MemRead(m, addr, size) == [i \in 0 .. (size - 1) |-> m[addr + i]]

WritesBack(way, row) == dt[way][row].dirty /\ WritePolicy = "WP_BACK"

\* fault: the evicted line is not written back
KickedMemLost(way, row) == mem

KickedMem(way, row) ==
    IF WritesBack(way, row)
    THEN MemWrite(mem, CalcBaseAddress(dt[way][row].tag, row), BlockBytes,
                  dt[way][row].data)
    ELSE mem

KickedLine(way, row) == [dt[way][row] EXCEPT !.valid = FALSE, !.dirty = FALSE]

\* fault: the first word of a block counts as part of the burst
KickedCntLongBurst(way, row) ==
    Count(cnt, IF WritesBack(way, row)
               THEN [mem_writes |-> BlockSize, burst_writes |-> BlockSize,
                     change_counter |-> 1]
               ELSE [change_counter |-> 1])

\* fault: an eviction does not move the change counter
KickedCntSilent(way, row) ==
    Count(cnt, IF WritesBack(way, row)
               THEN [mem_writes |-> BlockSize, burst_writes |-> BlockSize - 1]
               ELSE [change_counter |-> 0])

KickedCnt(way, row) ==
    Count(cnt, IF WritesBack(way, row)
               THEN [mem_writes |-> BlockSize, burst_writes |-> BlockSize - 1,
                     change_counter |-> 1]
               ELSE [change_counter |-> 1])

\* fault: the policy is told that the kicked line was used
KickedStatsAsUse(way, row) == UpdateStats(stats, way, row, TRUE)

KickedStats(way, row) == UpdateStats(stats, way, row, FALSE)

-----------------------------------------------------------------------------
Init ==
    /\ dt = [way \in Ways |-> [row \in Rows |->
               [valid |-> FALSE, dirty |-> FALSE, tag |-> 0,
                data |-> [i \in 0 .. (BlockBytes - 1) |-> CHOOSE v \in Val : TRUE]]]]
    /\ stats = InitStats
    /\ mem = Image
    /\ call = Idle
    /\ io = NoEvent
    /\ cnt = [f \in Counters |-> 0]

(* Cache::write and Cache::read up to the first access().                   *)

\* The model's bounds.  One call uses a line at most once, so an LFU count
\* never exceeds UseBound.
WithinBounds ==
    /\ ReplacementPolicy = "RP_LFU" =>
          \A row \in Rows, way \in Ways : stats[row][way] < UseBound
    /\ \A f \in Counters : cnt[f] < CounterBound

WriteBypass(r, buf) ==
    /\ call = Idle /\ WithinBounds
    /\ Bypasses(r)
    /\ mem' = MemWrite(mem, r.addr, r.size, buf)
    /\ cnt' = Count(cnt, [mem_writes |-> 1])
    /\ io' = Event("write", r.addr, buf)
    /\ UNCHANGED <<dt, stats, call>>

WriteStart(r, buf) ==
    /\ call = Idle /\ WithinBounds
    /\ ~Bypasses(r)
    /\ call' = [op |-> "write", addr |-> r.addr, size |-> r.size, done |-> 0,
                buf |-> buf]
    /\ io' = Event("write", r.addr, buf)
    /\ UNCHANGED <<dt, stats, mem, cnt>>

ReadBypass(r) ==
    /\ call = Idle /\ WithinBounds
    /\ Bypasses(r)
    /\ io' = Event("read", r.addr, MemRead(mem, r.addr, r.size))
    /\ cnt' = Count(cnt, [mem_reads |-> 1])
    /\ UNCHANGED <<dt, stats, mem, call>>

ReadStart(r) ==
    /\ call = Idle /\ WithinBounds
    /\ ~Bypasses(r)
    /\ call' = [op |-> "read", addr |-> r.addr, size |-> r.size, done |-> 0,
                buf |-> [i \in {} |-> 0]]
    /\ io' = NoEvent
    /\ UNCHANGED <<dt, stats, mem, cnt>>

\* AccessEffects::INTERNAL.  Cached: internal_read copies from the line of the
\* first byte, and bytes past the end of the block are whatever lies there.
ReadInternal(r) ==
    /\ call = Idle /\ WithinBounds
    /\ IF Bypasses(r)
       THEN /\ io' = Event("read", r.addr, MemRead(mem, r.addr, r.size))
            /\ cnt' = Count(cnt, [mem_reads |-> 1])
       ELSE /\ UNCHANGED cnt
            /\ IF HitWays(r.addr) = {}
               THEN io' = Event("read", r.addr, MemRead(mem, r.addr, r.size))
               ELSE LET line == dt[FindBlockIndex(r.addr)][Row(r.addr)]
                        off  == Offset(r.addr)
                    IN  \E beyond \in [0 .. (Overflow(r.addr, r.size) - 1) -> Val] :
                          io' = Event("read", r.addr,
                                  [i \in 0 .. (r.size - 1) |->
                                     IF off + i < BlockBytes THEN line.data[off + i]
                                     ELSE beyond[off + i - BlockBytes]])
    /\ UNCHANGED <<dt, stats, mem, call>>

-----------------------------------------------------------------------------
(* One invocation of access().                                              *)

InAccess == call.op \in {"read", "write"} /\ call.done < call.size

CurAddr == call.addr + call.done
CurSize == call.size - call.done
WithinBlock == CurSize - Overflow(CurAddr, CurSize)

ReadOrWrite(r, w) == IF call.op = "read" THEN r ELSE w

\* the line with the bytes of the write that fall into its block
WrittenData(line) ==
    LET off == Offset(CurAddr)
    IN  [i \in 0 .. (BlockBytes - 1) |->
           IF i \in off .. (off + WithinBlock - 1)
           THEN call.buf[call.done + i - off] ELSE line.data[i]]

\* fault: the dirty bit is not set
NewLineClean(line) == ReadOrWrite(line, [line EXCEPT !.data = WrittenData(line)])

\* the line after the transfer
NewLine(line) ==
    ReadOrWrite(line, [line EXCEPT !.dirty = TRUE, !.data = WrittenData(line)])

\* The common end of access(): the line is in the cache, valid; statistics of
\* the policy, transfer of the bytes in the block, the rest left to the next
\* invocation.
Transfer(way, line, statsBefore, cntBefore) ==
    LET row == Row(CurAddr)
        off == Offset(CurAddr)
        new == NewLine(line)
    IN  /\ dt' = [dt EXCEPT ![way][row] = new]
        /\ stats' = UpdateStats(statsBefore, way, row, TRUE)
        /\ cnt' = IF new.data # line.data
                  THEN Count(cntBefore, [change_counter |-> 1]) ELSE cntBefore
        /\ call' = [call EXCEPT
              !.done = @ + WithinBlock,
              !.buf = ReadOrWrite(
                  [i \in 0 .. (call.done + WithinBlock - 1) |->
                      IF i < call.done THEN call.buf[i]
                      ELSE line.data[off + i - call.done]],
                  @)]

AccessHit ==
    /\ InAccess
    /\ HitWays(CurAddr) # {}
    /\ LET way == FindBlockIndex(CurAddr)
           row == Row(CurAddr)
       IN  Transfer(way, dt[way][row], stats,
               Count(cnt, ReadOrWrite([hit_read |-> 1], [hit_write |-> 1])))
    /\ UNCHANGED <<mem, io>>

SkipsAllocation == call.op = "write" /\ WritePolicy = "WP_THROUGH_NOALLOC"

AccessMissNoAlloc ==
    /\ InAccess
    /\ HitWays(CurAddr) = {}
    /\ SkipsAllocation
    /\ cnt' = Count(cnt, [miss_write |-> 1])
    /\ call' = [call EXCEPT !.done = @ + WithinBlock]
    /\ UNCHANGED <<dt, stats, mem, io>>

FilledLine(a, m) ==
    [valid |-> TRUE, dirty |-> FALSE, tag |-> Tag(a),
     data |-> MemRead(m, CalcBaseAddress(Tag(a), Row(a)), BlockBytes)]

AccessMissAlloc(way) ==
    /\ InAccess
    /\ HitWays(CurAddr) = {}
    /\ ~SkipsAllocation
    /\ LET row == Row(CurAddr)
           d   == [mem_reads |-> BlockSize, burst_reads |-> BlockSize - 1,
                   change_counter |-> BlockSize]
       IN  /\ way \in VictimWays(stats, row)
           /\ mem' = KickedMem(way, row)
           /\ Transfer(way, FilledLine(CurAddr, KickedMem(way, row)),
                 KickedStats(way, row),
                 Count(Count(KickedCnt(way, row), d),
                       ReadOrWrite([miss_read |-> 1], [miss_write |-> 1])))
    /\ UNCHANGED io

\* Cache::write after access(); a write-through cache writes everything again.
WriteFinish ==
    /\ call.op = "write"
    /\ call.done = call.size
    /\ call' = Idle
    /\ IF WritePolicy # "WP_BACK"
       THEN /\ mem' = MemWrite(mem, call.addr, call.size, call.buf)
            /\ cnt' = Count(cnt, [mem_writes |-> 1])
       ELSE UNCHANGED <<mem, cnt>>
    /\ io' = NoEvent
    /\ UNCHANGED <<dt, stats>>

ReadFinish ==
    /\ call.op = "read"
    /\ call.done = call.size
    /\ call' = Idle
    /\ io' = Event("read", call.addr, call.buf)
    /\ UNCHANGED <<dt, stats, mem, cnt>>

-----------------------------------------------------------------------------
(* flush() and sync(): ways in the outer loop, rows in the inner one.       *)

FlushStart ==
    /\ call = Idle
    /\ Enabled
    /\ cnt["change_counter"] < CounterBound
    /\ call' = [op |-> "flush", way |-> 0, row |-> 0]
    /\ io' = NoEvent
    /\ UNCHANGED <<dt, stats, mem, cnt>>

FlushStep ==
    /\ call.op = "flush"
    /\ call.way < Associativity
    /\ LET way == call.way
           row == call.row
       IN  /\ IF dt[way][row].valid
              THEN /\ dt' = [dt EXCEPT ![way][row] = KickedLine(way, row)]
                   /\ stats' = KickedStats(way, row)
                   /\ mem' = KickedMem(way, row)
                   /\ cnt' = KickedCnt(way, row)
              ELSE UNCHANGED <<dt, stats, mem, cnt>>
           /\ call' = IF row + 1 < SetCount
                      THEN [call EXCEPT !.row = row + 1]
                      ELSE [call EXCEPT !.way = way + 1, !.row = 0]
    /\ UNCHANGED io

FlushFinish ==
    /\ call.op = "flush"
    /\ call.way = Associativity
    /\ call' = Idle
    /\ cnt' = Count(cnt, [change_counter |-> 1])
    /\ UNCHANGED <<dt, stats, mem, io>>

-----------------------------------------------------------------------------
\* fault: the lines survive the reset
ResetLinesKept == dt

\* Cache::reset, called by Machine::restart after the backing memory got the
\* program image again.  Only the valid bits are cleared.
ResetLines ==
    IF Enabled
    THEN [way \in Ways |-> [row \in Rows |-> [dt[way][row] EXCEPT !.valid = FALSE]]]
    ELSE dt

Restart ==
    /\ AllowRestart
    /\ call = Idle
    /\ mem' = IF ProgramLoaded THEN Image ELSE mem
    /\ dt' = ResetLines
    /\ cnt' = [f \in Counters |-> IF f = "change_counter" THEN cnt[f] ELSE 0]
    /\ io' = Event("restart", 0, [i \in {} |-> 0])
    /\ UNCHANGED <<stats, call>>

\* a peripheral changes one of its registers behind the bus
DeviceChange(a, v) ==
    /\ call = Idle
    /\ mem' = [mem EXCEPT ![a] = v]
    /\ io' = Event("device", a, [i \in {0} |-> v])
    /\ UNCHANGED <<dt, stats, call, cnt>>

Access == AccessHit \/ AccessMissNoAlloc \/ \E way \in Ways : AccessMissAlloc(way)

Next ==
    \/ \E r \in Requests :
          \/ \E buf \in [0 .. (r.size - 1) -> Val] : WriteBypass(r, buf)
          \/ \E buf \in [0 .. (r.size - 1) -> Val] : WriteStart(r, buf)
          \/ ReadBypass(r)
          \/ ReadStart(r)
    \/ \E r \in DebugRequests : ReadInternal(r)
    \/ Access \/ WriteFinish \/ ReadFinish
    \/ FlushStart \/ FlushStep \/ FlushFinish
    \/ Restart
    \/ \E a \in DeviceAddrs, v \in Val : DeviceChange(a, v)

Spec == Init /\ [][Next]_vars

\* The thread that called the cache keeps running it until the call returns.
Continue == Access \/ WriteFinish \/ ReadFinish \/ FlushStep \/ FlushFinish

FairSpec == Spec /\ WF_vars(Continue)
=============================================================================
