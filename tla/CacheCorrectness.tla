-------------------------- MODULE CacheCorrectness ---------------------------
(***************************************************************************)
(* What makes the cache of Cache.tla correct.                              *)
(***************************************************************************)
EXTENDS Cache, FiniteSets

\* The conditions under which the cache is transparent.  An access next to the
\* uncached area goes around the cache although its bytes may be cached, so no
\* bypassing access and no device register may share a block with a cached
\* access; the user interface reads within one block (aligned words, and a
\* block has at least one word); restart with a write-back cache is excluded,
\* since Cache::reset keeps the dirty bits.
Cached == {r \in Requests : ~Bypasses(r)}
CachedAddrs == UNION {Span(r) : r \in Cached}
SameBlock(a, b) == Tag(a) = Tag(b) /\ Row(a) = Row(b)

SeparatedFrom(A) == \A a \in A, b \in CachedAddrs : ~SameBlock(a, b)

EnvironmentAssumption ==
    /\ \A r \in Requests \cup DebugRequests : Bypasses(r) => SeparatedFrom(Span(r))
    /\ SeparatedFrom(DeviceAddrs)
    /\ \A r \in DebugRequests : ~Bypasses(r) => Overflow(r.addr, r.size) = 0
    /\ AllowRestart => WritePolicy # "WP_BACK"

-----------------------------------------------------------------------------
\* A read or write in progress: its buffer is full (write) or filled up to
\* the bytes done (read).
AccessCalls(r, done) ==
    [op : {"write"}, addr : {r.addr}, size : {r.size}, done : {done},
     buf : [0 .. (r.size - 1) -> Val]]
    \cup
    [op : {"read"}, addr : {r.addr}, size : {r.size}, done : {done},
     buf : [0 .. (done - 1) -> Val]]

FlushCalls == [op : {"flush"}, way : 0 .. Associativity, row : Rows]

CallOK == \/ call = Idle
          \/ call \in FlushCalls
          \/ \E r \in Cached : \E done \in 0 .. r.size : call \in AccessCalls(r, done)

\* The types of the cache's state; an access in progress never runs past its
\* size.
TypeOK ==
    /\ dt \in [Ways -> [Rows -> Lines]]
    /\ stats \in [Rows -> [Ways -> Nat]]
    /\ mem \in [Addr -> Val]
    /\ CallOK
    /\ cnt \in [Counters -> 0 .. (CounterModulus - 1)]

\* A block is in at most one way of its row: find_block_index may stop at the
\* first match, and a line that access() fills can have no stale twin.
BlockInOneWay ==
    \A row \in Rows : \A w1, w2 \in Ways :
        /\ dt[w1][row].valid /\ dt[w2][row].valid
        /\ dt[w1][row].tag = dt[w2][row].tag
        => w1 = w2

\* Between calls a valid line holds what memory holds, unless it is a dirty
\* line of a write-back cache: kick() loses nothing when it writes only those.
LineAgrees(way, row) ==
    \A i \in 0 .. (BlockBytes - 1) :
        dt[way][row].data[i] = mem[CalcBaseAddress(dt[way][row].tag, row) + i]

CleanLinesAgree ==
    call.op \notin {"read", "write"} =>
        \A way \in Ways, row \in Rows :
            dt[way][row].valid /\ ~WritesBack(way, row) => LineAgrees(way, row)

\* CachePolicyLRU::update_stats always finds the way it moves ("LRU lost the
\* way from priority queue" is never thrown): every way is in the queue.
LRUKeepsEveryWay ==
    ReplacementPolicy = "RP_LRU" =>
        \A row \in Rows, way \in Ways : \E i \in Ways : stats[row][i] = way

\* LRU and LFU evict a valid line only when the row has no invalid one left.
InvalidWayEvictedFirst ==
    ReplacementPolicy # "RP_RAND" =>
        \A row \in Rows : \A victim \in VictimWays(stats, row) :
            dt[victim][row].valid => \A way \in Ways : dt[way][row].valid

\* CachePolicyLFU::select_way_to_evict: "Only invalid blocks have zero stat".
OnlyInvalidHaveZeroStat ==
    ReplacementPolicy = "RP_LFU" =>
        \A row \in Rows, way \in Ways : stats[row][way] = 0 => ~dt[way][row].valid

-----------------------------------------------------------------------------
\* What the processor sees at an address: the write it is making, else the
\* cached byte, else memory.
View(a) ==
    IF call.op = "write" /\ a \in Span(call) THEN call.buf[a - call.addr]
    ELSE IF HitWays(a) # {} THEN dt[FindBlockIndex(a)][Row(a)].data[Offset(a)]
    ELSE mem[a]

Flat == INSTANCE FlatMemory WITH store <- [a \in Addr |-> View(a)]

\* The cache is transparent: with any organisation, replacement and write
\* policy, the core and the user interface see one flat memory.
Transparent == Flat!Spec

\* Whatever changes in the valid content of the cache moves change_counter,
\* from which the memory views of the user interface learn of it.
Content == [way \in Ways |-> [row \in Rows |->
              LET line == dt[way][row]
              IN  IF line.valid THEN [tag |-> line.tag, data |-> line.data]
                  ELSE [tag |-> 0]]]

ContentChangeCounted ==
    [][Content' # Content =>
          cnt'["change_counter"] # cnt["change_counter"]]_vars

\* The statistics tell what happened: every allocation fetched one block, a
\* line is written back at most once for each time it got dirty, and the stall
\* count, an unsigned difference, never goes below zero.  (Stated for a cache
\* no access bypasses: uncached accesses share the counters.)
Allocations == cnt["miss_read"]
               + (IF WritePolicy = "WP_THROUGH_NOALLOC" THEN 0 ELSE cnt["miss_write"])

DirtyLines == {p \in Ways \X Rows : dt[p[1]][p[2]].dirty}

StatisticsAddUp ==
    /\ cnt["mem_reads"] = BlockSize * Allocations
    /\ cnt["burst_reads"] = (BlockSize - 1) * Allocations
    /\ WritePolicy = "WP_BACK" =>
          /\ cnt["burst_writes"] * BlockSize = cnt["mem_writes"] * (BlockSize - 1)
          /\ cnt["mem_writes"] + BlockSize * Cardinality(DirtyLines)
                <= BlockSize * (cnt["hit_write"] + cnt["miss_write"])
    /\ StallCount >= 0

\* The use StatisticsAddUp is about: every access is cached, Cache::reset does not
\* clear the counters, and a block has fewer words than a counter has values.
StatisticsUse ==
    /\ \A r \in Requests \cup DebugRequests : ~Bypasses(r)
    /\ ~AllowRestart
    /\ BlockSize < CounterModulus

\* No counter of the statistics turns around.
Statistics == Counters \ {"change_counter"}

CountersRise == [][\A f \in Statistics : cnt'[f] >= cnt[f]]_vars

\* Every call returns: the recursion of access() makes progress.
CallReturns == call # Idle ~> call = Idle
=============================================================================
