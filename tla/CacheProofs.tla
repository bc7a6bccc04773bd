----------------------------- MODULE CacheProofs -----------------------------
(***************************************************************************)
(* Proofs about the cache, for every organisation, replacement policy and  *)
(* write policy.                                                           *)
(***************************************************************************)
EXTENDS CacheCorrectness, WellFoundedInduction, FiniteSetTheorems, TLAPS

-----------------------------------------------------------------------------
(* Arithmetic of cache locations.                                           *)

\* The organisation of the cache is made of positive numbers.
LEMMA Sizes ==
    /\ Associativity \in Nat \ {0} /\ SetCount \in Nat \ {0}
    /\ BlockSize \in Nat \ {0} /\ BLOCK_ITEM_SIZE \in Nat \ {0}
    /\ MemBlocks \in Nat \ {0}
    /\ BlockBytes \in Nat \ {0}
  BY PolicyAssumption, CacheAssumption DEF BlockBytes

\* Division with remainder.
LEMMA DivMod ==
    ASSUME NEW a \in Nat, NEW b \in Nat, b > 0
    PROVE  /\ a \div b \in Nat /\ a % b \in Nat
           /\ a % b < b
           /\ a = ((a \div b) * b) + (a % b)
  OBVIOUS

\* Quotient and remainder are unique.
LEMMA DivModUnique ==
    ASSUME NEW q \in Nat, NEW b \in Nat, NEW r \in Nat, r < b
    PROVE  /\ ((q * b) + r) \div b = q
           /\ ((q * b) + r) % b = r
<1> DEFINE a == (q * b) + r
<1>1. a \in Nat
  OBVIOUS
<1>2. /\ a \div b \in Nat /\ a % b \in Nat /\ a % b < b
      /\ a = ((a \div b) * b) + (a % b)
  BY <1>1, DivMod
<1> HIDE DEF a
<1>3. SUFFICES ASSUME NEW p \in Nat, NEW s \in Nat, s < b,
                      (q * b) + r = (p * b) + s
               PROVE  p = q /\ s = r
  BY <1>1, <1>2 DEF a
<1>4. CASE p = q
  BY <1>3, <1>4
<1>5. CASE p > q
  <2>1. (p - q) * b = r - s
    BY <1>3
  <2>2. p - q >= 1
    BY <1>5
  <2>3. (p - q) * b >= b
    BY <2>2
  <2> QED BY <1>3, <2>1, <2>3
<1>6. CASE p < q
  <2>1. (q - p) * b = s - r
    BY <1>3
  <2>2. q - p >= 1
    BY <1>6
  <2>3. (q - p) * b >= b
    BY <2>2
  <2> QED BY <1>3, <2>1, <2>3
<1> QED BY <1>4, <1>5, <1>6

LEMMA Distribute ==
    ASSUME NEW k \in Nat, NEW s \in Nat, NEW c \in Nat, NEW w \in Nat
    PROVE  ((k * s) + c) * w = (k * (s * w)) + (c * w)
  OBVIOUS

\* compute_location, in terms of the number of the block.
LEMMA LocationOfBlock ==
    ASSUME NEW k \in Nat, NEW i \in 0 .. (BlockBytes - 1)
    PROVE  /\ Tag((k * BlockBytes) + i) = k \div SetCount
           /\ Row((k * BlockBytes) + i) = k % SetCount
           /\ Offset((k * BlockBytes) + i) = i
<1> USE Sizes
<1> DEFINE a == (k * BlockBytes) + i
           col == i \div BLOCK_ITEM_SIZE
           byte == i % BLOCK_ITEM_SIZE
           word == (k * BlockSize) + col
           tag == k \div SetCount
           row == k % SetCount
<1>0. BlockBytes \in Nat /\ BlockBytes > 0 /\ i \in Nat
  BY DEF BlockBytes
<1>1. /\ col \in Nat /\ byte \in Nat /\ byte < BLOCK_ITEM_SIZE
      /\ i = (col * BLOCK_ITEM_SIZE) + byte
  BY <1>0, DivMod
<1>2. col < BlockSize
  <2>1. SUFFICES ASSUME col >= BlockSize PROVE FALSE
    BY <1>1
  <2>2. col * BLOCK_ITEM_SIZE >= BlockSize * BLOCK_ITEM_SIZE
    BY <1>1, <2>1
  <2> QED BY <1>1, <2>2 DEF BlockBytes
<1>3. a = (word * BLOCK_ITEM_SIZE) + byte
  <2> HIDE DEF col, byte
  <2>1. word * BLOCK_ITEM_SIZE = (k * BlockBytes) + (col * BLOCK_ITEM_SIZE)
    BY <1>1, Distribute DEF BlockBytes
  <2> HIDE DEF word
  <2> QED BY <1>0, <1>1, <2>1
<1>4. word \in Nat
  BY <1>1
<1>5. a \div BLOCK_ITEM_SIZE = word /\ a % BLOCK_ITEM_SIZE = byte
  <2> HIDE DEF word, byte, a
  <2> QED BY <1>1, <1>3, <1>4, DivModUnique
<1>6. tag \in Nat /\ row \in Nat /\ row < SetCount /\ k = (tag * SetCount) + row
  BY DivMod
<1>7. /\ (row * BlockSize) + col \in Nat
      /\ (row * BlockSize) + col < SetCount * BlockSize
  <2>1. (row + 1) * BlockSize <= SetCount * BlockSize
    BY <1>6
  <2> QED BY <1>1, <1>2, <1>6, <2>1
<1>8. word = (tag * (SetCount * BlockSize)) + ((row * BlockSize) + col)
  <2> HIDE DEF row, tag, col
  <2>1. k * BlockSize = (tag * (SetCount * BlockSize)) + (row * BlockSize)
    BY <1>6, Distribute
  <2> QED BY <1>1, <1>6, <2>1
<1>9. /\ word \div (SetCount * BlockSize) = tag
      /\ word % (SetCount * BlockSize) = (row * BlockSize) + col
  <2>1. SetCount * BlockSize \in Nat
    OBVIOUS
  <2> HIDE DEF word, tag, row, col
  <2> QED BY <1>6, <1>7, <1>8, <2>1, DivModUnique
<1>10. /\ ((row * BlockSize) + col) \div BlockSize = row
       /\ ((row * BlockSize) + col) % BlockSize = col
  <2> HIDE DEF row, col
  <2> QED BY <1>1, <1>2, <1>6, DivModUnique
<1>11. ComputeLocation(a) = [row |-> row, col |-> col, tag |-> tag, byte |-> byte]
  <2> HIDE DEF a, word, row, col, tag, byte
  <2> QED BY <1>5, <1>9, <1>10 DEF ComputeLocation
<1> HIDE DEF a, word, row, col, tag, byte
<1>12. Tag(a) = tag /\ Row(a) = row /\ Offset(a) = i
  BY <1>1, <1>11 DEF Tag, Row, Offset
<1> QED BY <1>12 DEF a, tag, row

\* calc_base_address and compute_location are inverse to each other, and a
\* block of backing memory lies in backing memory as a whole.
LEMMA LocationFacts ==
    ASSUME NEW a \in Addr
    PROVE  /\ Row(a) \in Rows /\ Tag(a) \in Nat
           /\ Offset(a) \in 0 .. (BlockBytes - 1)
           /\ CalcBaseAddress(Tag(a), Row(a)) \in Nat
           /\ a = CalcBaseAddress(Tag(a), Row(a)) + Offset(a)
           /\ \A i \in 0 .. (BlockBytes - 1) :
                 CalcBaseAddress(Tag(a), Row(a)) + i \in Addr
<1> USE Sizes
<1> DEFINE k == a \div BlockBytes
           i == a % BlockBytes
<1>1. BlockBytes \in Nat /\ BlockBytes > 0 /\ a \in Nat
  BY DEF BlockBytes, Addr
<1>2. k \in Nat /\ i \in Nat /\ i < BlockBytes /\ a = (k * BlockBytes) + i
  BY <1>1, DivMod
<1> HIDE DEF k, i
<1>3. Tag(a) = k \div SetCount /\ Row(a) = k % SetCount /\ Offset(a) = i
  <2>1. i \in 0 .. (BlockBytes - 1)
    BY <1>1, <1>2
  <2> QED BY <1>2, <2>1, LocationOfBlock
<1>4. /\ k \div SetCount \in Nat /\ k % SetCount \in Nat /\ k % SetCount < SetCount
      /\ k = ((k \div SetCount) * SetCount) + (k % SetCount)
  BY <1>2, DivMod
<1>5. CalcBaseAddress(Tag(a), Row(a)) = k * BlockBytes
  <2>1. CalcBaseAddress(Tag(a), Row(a)) = k * BlockSize * BLOCK_ITEM_SIZE
    BY <1>3, <1>4 DEF CalcBaseAddress
  <2> QED BY <1>2, <2>1 DEF BlockBytes
<1>6. k < MemBlocks
  <2>1. SUFFICES ASSUME k >= MemBlocks PROVE FALSE
    BY <1>2
  <2>2. k * BlockBytes >= MemBlocks * BlockBytes
    BY <1>1, <1>2, <2>1
  <2> QED BY <1>1, <1>2, <2>2 DEF Addr
<1>7. (k * BlockBytes) + BlockBytes <= MemBlocks * BlockBytes
  <2>1. (k + 1) * BlockBytes <= MemBlocks * BlockBytes
    BY <1>1, <1>2, <1>6
  <2> QED BY <1>1, <1>2, <2>1
<1>8. k * BlockBytes \in Nat /\ MemBlocks * BlockBytes \in Nat
  BY <1>1, <1>2
<1>9. \A j \in 0 .. (BlockBytes - 1) : (k * BlockBytes) + j \in Addr
  BY <1>1, <1>7, <1>8 DEF Addr
<1> QED BY <1>1, <1>2, <1>3, <1>4, <1>5, <1>8, <1>9 DEF Rows

LEMMA BaseFacts ==
    ASSUME NEW t \in Nat, NEW row \in Rows, NEW i \in 0 .. (BlockBytes - 1)
    PROVE  /\ Tag(CalcBaseAddress(t, row) + i) = t
           /\ Row(CalcBaseAddress(t, row) + i) = row
           /\ Offset(CalcBaseAddress(t, row) + i) = i
           /\ CalcBaseAddress(t, row) \in Nat
<1> USE Sizes
<1> DEFINE k == (t * SetCount) + row
<1>1. row \in Nat /\ row < SetCount
  BY DEF Rows
<1>2. k \in Nat
  BY <1>1
<1>3. CalcBaseAddress(t, row) = k * BlockBytes
  <2> HIDE DEF k
  <2>1. CalcBaseAddress(t, row) = k * BlockSize * BLOCK_ITEM_SIZE
    BY DEF CalcBaseAddress, k
  <2> QED BY <1>2, <2>1 DEF BlockBytes
<1>4. k \div SetCount = t /\ k % SetCount = row
  BY <1>1, DivModUnique
<1>5. k * BlockBytes \in Nat
  BY <1>2 DEF BlockBytes
<1> HIDE DEF k
<1> QED BY <1>2, <1>3, <1>4, <1>5, LocationOfBlock

-----------------------------------------------------------------------------
(* Types of what the actions compute.                                       *)

CntTypes == [Counters -> 0 .. (CounterModulus - 1)]

LEMMA CountType ==
    ASSUME NEW c \in CntTypes, NEW d, \A f \in DOMAIN d : d[f] \in Nat
    PROVE  Count(c, d) \in CntTypes
<1>1. CounterModulus \in Nat \ {0}
  BY CacheAssumption
<1>2. ASSUME NEW f \in Counters, f \in DOMAIN d
      PROVE  (c[f] + d[f]) % CounterModulus \in 0 .. (CounterModulus - 1)
  <2>1. c[f] \in Nat /\ d[f] \in Nat
    BY <1>1, <1>2 DEF CntTypes
  <2>2. c[f] + d[f] \in Nat
    BY <2>1
  <2> HIDE DEF Counters
  <2> QED BY <1>1, <2>2, DivMod
<1> QED BY <1>1, <1>2 DEF Count, CntTypes

LEMMA MemWriteType ==
    ASSUME NEW m \in [Addr -> Val], NEW addr \in Nat, NEW size \in Nat,
           NEW buf \in [0 .. (size - 1) -> Val]
    PROVE  MemWrite(m, addr, size, buf) \in [Addr -> Val]
<1>1. \A a \in addr .. (addr + size - 1) : a - addr \in 0 .. (size - 1)
  OBVIOUS
<1> QED BY <1>1 DEF MemWrite

\* The policy's statistics: counts, or a queue in which every way is found.
StatsOK(st) ==
    /\ st \in [Rows -> [Ways -> Nat]]
    /\ ReplacementPolicy = "RP_LRU" =>
          \A row \in Rows : /\ \A i \in Ways : st[row][i] \in Ways
                            /\ \A way \in Ways : \E i \in Ways : st[row][i] = way

\* The bubble pass of CachePolicyLRU::update_stats loses no way.
LEMMA LRUUpdateOK ==
    ASSUME NEW q \in [Ways -> Nat], NEW way \in Ways, NEW isValid \in BOOLEAN,
           \A i \in Ways : q[i] \in Ways,
           \A w \in Ways : \E i \in Ways : q[i] = w
    PROVE  /\ LRUUpdate(q, way, isValid) \in [Ways -> Nat]
           /\ \A i \in Ways : LRUUpdate(q, way, isValid)[i] \in Ways
           /\ \A w \in Ways : \E i \in Ways : LRUUpdate(q, way, isValid)[i] = w
<1> DEFINE p == CHOOSE i \in Ways : q[i] = way
           u == LRUUpdate(q, way, isValid)
<1>1. p \in Ways /\ q[p] = way
  OBVIOUS
<1>2. Ways \subseteq Nat /\ Associativity \in Nat \ {0}
  BY Sizes DEF Ways
<1>3. CASE isValid
  <2>1. u = [i \in Ways |->
               IF i < p THEN q[i]
               ELSE IF i < Associativity - 1 THEN q[i + 1] ELSE way]
    BY <1>3 DEF LRUUpdate
  <2> HIDE DEF p, u
  <2>2. ASSUME NEW i \in Ways
        PROVE  /\ i < p => u[i] = q[i]
               /\ i >= p /\ i < Associativity - 1 => u[i] = q[i + 1] /\ i + 1 \in Ways
               /\ i = Associativity - 1 => u[i] = way
    <3>1. i \in Nat /\ p \in Nat /\ p <= Associativity - 1 /\ i <= Associativity - 1
      BY <1>1, <1>2 DEF Ways
    <3>2. i < Associativity - 1 => i + 1 \in Ways
      BY <1>2, <3>1 DEF Ways
    <3> QED BY <1>2, <2>1, <3>1, <3>2
  <2>3. ASSUME NEW i \in Ways PROVE u[i] \in Ways
    <3>1. i \in Nat /\ p \in Nat /\ i <= Associativity - 1
      BY <1>1, <1>2 DEF Ways
    <3>2. \/ i < p
          \/ i >= p /\ i < Associativity - 1
          \/ i = Associativity - 1
      BY <1>2, <3>1
    <3> QED BY <2>2, <3>2
  <2>4. ASSUME NEW w \in Ways PROVE \E i \in Ways : u[i] = w
    <3>1. PICK j \in Ways : q[j] = w
      OBVIOUS
    <3>2. CASE j < p
      BY <2>2, <3>1, <3>2
    <3>3. CASE j = p
      <4>1. Associativity - 1 \in Ways
        BY <1>2 DEF Ways
      <4> QED BY <1>1, <2>2, <3>1, <3>3, <4>1
    <3>4. CASE j > p
      <4>1. /\ j - 1 \in Ways /\ j - 1 >= p /\ j - 1 < Associativity - 1
            /\ (j - 1) + 1 = j
        BY <1>1, <1>2, <3>4 DEF Ways
      <4> QED BY <2>2, <3>1, <4>1
    <3> QED BY <1>1, <1>2, <3>2, <3>3, <3>4
  <2>5. u \in [Ways -> Nat]
    BY <1>2, <2>1, <2>3
  <2> QED BY <2>3, <2>4, <2>5 DEF u
<1>4. CASE ~isValid
  <2>1. u = [i \in Ways |->
               IF i > p THEN q[i] ELSE IF i > 0 THEN q[i - 1] ELSE way]
    BY <1>4 DEF LRUUpdate
  <2> HIDE DEF p, u
  <2>2. ASSUME NEW i \in Ways
        PROVE  /\ i > p => u[i] = q[i]
               /\ i <= p /\ i > 0 => u[i] = q[i - 1] /\ i - 1 \in Ways
               /\ i = 0 => u[i] = way
    BY <1>1, <1>2, <2>1 DEF Ways
  <2>3. ASSUME NEW i \in Ways PROVE u[i] \in Ways
    <3>1. \/ i > p
          \/ i <= p /\ i > 0
          \/ i = 0
      BY <1>1, <1>2
    <3> QED BY <2>2, <3>1
  <2>4. ASSUME NEW w \in Ways PROVE \E i \in Ways : u[i] = w
    <3>1. PICK j \in Ways : q[j] = w
      OBVIOUS
    <3>2. CASE j > p
      BY <2>2, <3>1, <3>2
    <3>3. CASE j = p
      <4>1. 0 \in Ways
        BY <1>2 DEF Ways
      <4> QED BY <1>1, <2>2, <3>1, <3>3, <4>1
    <3>4. CASE j < p
      <4>1. /\ j + 1 \in Ways /\ j + 1 <= p /\ j + 1 > 0 /\ (j + 1) - 1 = j
        BY <1>1, <1>2, <3>4 DEF Ways
      <4> QED BY <2>2, <3>1, <4>1
    <3> QED BY <1>1, <1>2, <3>2, <3>3, <3>4
  <2>5. u \in [Ways -> Nat]
    BY <1>2, <2>1, <2>3
  <2> QED BY <2>3, <2>4, <2>5 DEF u
<1> QED BY <1>3, <1>4

LEMMA UpdateStatsOK ==
    ASSUME NEW st, StatsOK(st), NEW way \in Ways, NEW row \in Rows,
           NEW isValid \in BOOLEAN
    PROVE  StatsOK(UpdateStats(st, way, row, isValid))
<1>1. CASE ReplacementPolicy = "RP_LRU"
  <2> DEFINE u == LRUUpdate(st[row], way, isValid)
  <2>1. UpdateStats(st, way, row, isValid) = [st EXCEPT ![row] = u]
    BY <1>1 DEF UpdateStats
  <2>2. /\ u \in [Ways -> Nat]
        /\ \A i \in Ways : u[i] \in Ways
        /\ \A w \in Ways : \E i \in Ways : u[i] = w
    BY <1>1, LRUUpdateOK DEF StatsOK
  <2> HIDE DEF u
  <2> DEFINE st2 == [st EXCEPT ![row] = u]
  <2>3. st2 \in [Rows -> [Ways -> Nat]]
    BY <2>2 DEF StatsOK
  <2>4. ASSUME NEW r \in Rows
        PROVE  /\ \A i \in Ways : st2[r][i] \in Ways
               /\ \A w \in Ways : \E i \in Ways : st2[r][i] = w
    <3>1. CASE r = row
      BY <2>2, <3>1 DEF StatsOK
    <3>2. CASE r # row
      BY <1>1, <3>2 DEF StatsOK
    <3> QED BY <3>1, <3>2
  <2> HIDE DEF st2
  <2>5. StatsOK(st2)
    BY <2>3, <2>4 DEF StatsOK
  <2> QED BY <2>1, <2>5 DEF st2
<1>2. CASE ReplacementPolicy = "RP_LFU"
  BY <1>2 DEF UpdateStats, LFUUpdate, StatsOK
<1>3. CASE ReplacementPolicy = "RP_RAND"
  BY <1>3 DEF UpdateStats, StatsOK
<1> QED BY <1>1, <1>2, <1>3, PolicyAssumption

-----------------------------------------------------------------------------
(* One invocation of access().                                              *)

\* An access in progress is a request the cache serves.
LEMMA AccessCall ==
    ASSUME CallOK, call.op \in {"read", "write"}
    PROVE  \E r \in Cached :
              /\ r \in [addr : Addr, size : Nat] /\ Span(r) \subseteq Addr
              /\ call.addr = r.addr /\ call.size = r.size
              /\ call.done \in 0 .. r.size
              /\ call.op = "write" => call.buf \in [0 .. (r.size - 1) -> Val]
              /\ call.op = "read" => call.buf \in [0 .. (call.done - 1) -> Val]
              /\ call \in AccessCalls(r, call.done)
<1>1. call # Idle /\ call \notin FlushCalls
  BY DEF Idle, FlushCalls
<1>2. PICK r \in Cached : \E done \in 0 .. r.size : call \in AccessCalls(r, done)
  BY <1>1 DEF CallOK
<1>3. PICK done \in 0 .. r.size : call \in AccessCalls(r, done)
  BY <1>2
<1>4. r \in [addr : Addr, size : Nat] /\ Span(r) \subseteq Addr
  BY CacheAssumption DEF Cached, Span
<1>5. /\ call.addr = r.addr /\ call.size = r.size /\ call.done = done
      /\ call.op = "write" => call.buf \in [0 .. (r.size - 1) -> Val]
      /\ call.op = "read" => call.buf \in [0 .. (call.done - 1) -> Val]
  BY <1>3 DEF AccessCalls
<1> QED BY <1>3, <1>4, <1>5

\* access() stays in the block of its address, and gets on.
LEMMA AccessFacts ==
    ASSUME CallOK, InAccess
    PROVE  /\ CurAddr \in Addr
           /\ call.addr \in Nat /\ call.size \in Nat /\ call.done \in Nat
           /\ WithinBlock \in Nat /\ WithinBlock > 0
           /\ call.done + WithinBlock <= call.size
           /\ Offset(CurAddr) + WithinBlock <= BlockBytes
<1>1. PICK r \in Cached :
              /\ r \in [addr : Addr, size : Nat] /\ Span(r) \subseteq Addr
              /\ call.addr = r.addr /\ call.size = r.size
              /\ call.done \in 0 .. r.size
  BY AccessCall DEF InAccess
<1>2. r.addr \in Nat /\ r.size \in Nat
  BY <1>1 DEF Addr
<1>3. call.addr \in Nat /\ call.size \in Nat /\ call.done \in Nat
  BY <1>1, <1>2
<1>4. call.done < call.size
  BY DEF InAccess
<1>5. CurAddr \in Addr
  BY <1>1, <1>3, <1>4 DEF CurAddr, Span
<1>6. Offset(CurAddr) \in Nat /\ Offset(CurAddr) < BlockBytes /\ BlockBytes \in Nat
  BY <1>5, LocationFacts, Sizes
<1> QED BY <1>3, <1>4, <1>5, <1>6 DEF WithinBlock, CurSize, Overflow

\* The end of access() keeps the types.
LEMMA TransferType ==
    ASSUME CallOK, InAccess, dt \in [Ways -> [Rows -> Lines]],
           NEW way \in Ways, NEW line \in Lines,
           NEW st, StatsOK(st), NEW c \in CntTypes,
           Transfer(way, line, st, c)
    PROVE  /\ dt' \in [Ways -> [Rows -> Lines]]
           /\ StatsOK(stats')
           /\ CallOK'
           /\ cnt' \in CntTypes
<1> DEFINE off == Offset(CurAddr)
           w == WithinBlock
           row == Row(CurAddr)
           new == ReadOrWrite(line,
                    [line EXCEPT !.dirty = TRUE, !.data = WrittenData(line)])
<1>1. PICK r \in Cached :
              /\ r \in [addr : Addr, size : Nat] /\ Span(r) \subseteq Addr
              /\ call.addr = r.addr /\ call.size = r.size
              /\ call.done \in 0 .. r.size
              /\ call.op = "write" => call.buf \in [0 .. (r.size - 1) -> Val]
              /\ call.op = "read" => call.buf \in [0 .. (call.done - 1) -> Val]
              /\ call \in AccessCalls(r, call.done)
  BY AccessCall DEF InAccess
<1>2. /\ CurAddr \in Addr /\ w \in Nat /\ w > 0 /\ call.done \in Nat
      /\ call.done + w <= call.size /\ off + w <= BlockBytes
  BY AccessFacts
<1>3. row \in Rows /\ off \in Nat
  BY <1>2, LocationFacts
<1>4. line.data \in [0 .. (BlockBytes - 1) -> Val] /\ BlockBytes \in Nat
  BY Sizes DEF Lines
<1>5. call.op \in {"read", "write"}
  BY DEF InAccess
<1> HIDE DEF off, w, row
<1>6. new \in Lines
  <2>1. CASE call.op = "read"
    BY <2>1 DEF ReadOrWrite
  <2>2. CASE call.op # "read"
    <3>1. call.op = "write"
      BY <1>5, <2>2
    <3>2. WrittenData(line) \in [0 .. (BlockBytes - 1) -> Val]
      <4>1. ASSUME NEW i \in 0 .. (BlockBytes - 1), i \in off .. (off + w - 1)
            PROVE  call.done + i - off \in 0 .. (r.size - 1)
        BY <1>1, <1>2, <1>3, <4>1
      <4> QED BY <1>1, <1>4, <3>1, <4>1 DEF WrittenData, off, w
    <3> HIDE DEF WrittenData
    <3> QED BY <2>2, <3>2 DEF ReadOrWrite, Lines
  <2> QED BY <2>1, <2>2
<1> HIDE DEF new
<1>7. dt' = [dt EXCEPT ![way][row] = new]
  BY DEF Transfer, NewLine, row, new, off
<1>8. dt' \in [Ways -> [Rows -> Lines]]
  BY <1>3, <1>6, <1>7
<1>9. StatsOK(stats')
  <2>1. stats' = UpdateStats(st, way, row, TRUE)
    BY DEF Transfer, row
  <2> QED BY <1>3, <2>1, UpdateStatsOK
<1>10. cnt' \in CntTypes
  <2>1. cnt' \in {c, Count(c, [change_counter |-> 1])}
    BY DEF Transfer
  <2>2. Count(c, [change_counter |-> 1]) \in CntTypes
    BY CountType
  <2> QED BY <2>1, <2>2
<1>11. call' \in AccessCalls(r, call.done + w) /\ call.done + w \in 0 .. r.size
  <2> DEFINE rbuf == [i \in 0 .. (call.done + w - 1) |->
                        IF i < call.done THEN call.buf[i]
                        ELSE line.data[off + i - call.done]]
  <2>1. call' = [call EXCEPT !.done = @ + w, !.buf = ReadOrWrite(rbuf, @)]
    BY DEF Transfer, w, off
  <2>2. CASE call.op = "write"
    <3>1. call' = [call EXCEPT !.done = @ + w]
      <4> HIDE DEF rbuf
      <4> QED BY <1>1, <2>1, <2>2 DEF ReadOrWrite, AccessCalls
    <3> QED BY <1>1, <1>2, <2>2, <3>1 DEF AccessCalls
  <2>3. CASE call.op = "read"
    <3>1. rbuf \in [0 .. (call.done + w - 1) -> Val]
      <4>1. ASSUME NEW i \in 0 .. (call.done + w - 1), ~(i < call.done)
            PROVE  off + i - call.done \in 0 .. (BlockBytes - 1)
        BY <1>2, <1>3, <1>4, <4>1
      <4>2. ASSUME NEW i \in 0 .. (call.done + w - 1), i < call.done
            PROVE  i \in 0 .. (call.done - 1)
        BY <1>2, <4>2
      <4> QED BY <1>1, <1>4, <2>3, <4>1, <4>2
    <3> HIDE DEF rbuf
    <3>2. call' = [call EXCEPT !.done = @ + w, !.buf = rbuf]
      BY <2>1, <2>3 DEF ReadOrWrite
    <3>3. call \in [op : {"read"}, addr : {r.addr}, size : {r.size},
                    done : {call.done}, buf : [0 .. (call.done - 1) -> Val]]
      BY <1>1, <2>3 DEF AccessCalls
    <3>4. call' = [op |-> "read", addr |-> r.addr, size |-> r.size,
                   done |-> call.done + w, buf |-> rbuf]
      BY <3>2, <3>3
    <3>5. call.done + w \in 0 .. r.size
      BY <1>1, <1>2
    <3>6. (call.done + w) - 1 = call.done + (w - 1)
      BY <1>2
    <3>7. call' \in [op : {"read"}, addr : {r.addr}, size : {r.size},
                     done : {call.done + w}, buf : [0 .. ((call.done + w) - 1) -> Val]]
      BY <3>1, <3>4, <3>6
    <3> QED BY <3>5, <3>7 DEF AccessCalls
  <2> QED BY <1>5, <2>2, <2>3
<1>12. CallOK'
  BY <1>11 DEF CallOK
<1> QED BY <1>8, <1>9, <1>10, <1>12

-----------------------------------------------------------------------------
(* The first inductive invariant: types, the policy's queues, one way per   *)
(* block.                                                                   *)

Inv == TypeOK /\ StatsOK(stats) /\ BlockInOneWay

\* At most one way hits, so find_block_index finds the one there is.
LEMMA HitUnique ==
    ASSUME Inv, NEW a \in Addr, HitWays(a) # {}
    PROVE  /\ FindBlockIndex(a) \in Ways
           /\ dt[FindBlockIndex(a)][Row(a)].valid
           /\ dt[FindBlockIndex(a)][Row(a)].tag = Tag(a)
           /\ HitWays(a) = {FindBlockIndex(a)}
<1>1. PICK way \in HitWays(a) : TRUE
  OBVIOUS
<1>2. Row(a) \in Rows
  BY LocationFacts
<1>3. \A other \in HitWays(a) : other = way
  BY <1>2 DEF Inv, BlockInOneWay, HitWays
<1>4. way \in Nat
  BY Sizes DEF HitWays, Ways
<1>5. way <= way
  BY <1>4
<1>6. FindBlockIndex(a) \in HitWays(a)
  BY <1>3, <1>5 DEF FindBlockIndex
<1>7. HitWays(a) = {FindBlockIndex(a)}
  BY <1>3, <1>6
<1> QED BY <1>6, <1>7 DEF HitWays

LEMMA KickTypes ==
    ASSUME TypeOK, StatsOK(stats), NEW way \in Ways, NEW row \in Rows
    PROVE  /\ KickedMem(way, row) \in [Addr -> Val]
           /\ KickedLine(way, row) \in Lines
           /\ KickedCnt(way, row) \in CntTypes
           /\ StatsOK(KickedStats(way, row))
<1>1. dt[way][row] \in Lines
  BY DEF TypeOK
<1>2. KickedLine(way, row) \in Lines
  BY <1>1 DEF KickedLine, Lines
<1>3. KickedMem(way, row) \in [Addr -> Val]
  <2>1. dt[way][row].data \in [0 .. (BlockBytes - 1) -> Val] /\ dt[way][row].tag \in Nat
    BY <1>1 DEF Lines
  <2>2. 0 \in 0 .. (BlockBytes - 1) /\ BlockBytes \in Nat
    BY Sizes
  <2>3. CalcBaseAddress(dt[way][row].tag, row) \in Nat
    BY <2>1, <2>2, BaseFacts
  <2>4. mem \in [Addr -> Val]
    BY DEF TypeOK
  <2>5. MemWrite(mem, CalcBaseAddress(dt[way][row].tag, row), BlockBytes,
                 dt[way][row].data) \in [Addr -> Val]
    BY <2>1, <2>2, <2>3, <2>4, MemWriteType
  <2> QED BY <2>4, <2>5 DEF KickedMem
<1>4. KickedCnt(way, row) \in CntTypes
  <2>1. cnt \in CntTypes
    BY DEF TypeOK, CntTypes
  <2>2. BlockSize \in Nat /\ BlockSize - 1 \in Nat
    BY Sizes
  <2>3. Count(cnt, [mem_writes |-> BlockSize, burst_writes |-> BlockSize - 1,
                    change_counter |-> 1]) \in CntTypes
    BY <2>1, <2>2, CountType
  <2>4. Count(cnt, [change_counter |-> 1]) \in CntTypes
    BY <2>1, CountType
  <2> QED BY <2>3, <2>4 DEF KickedCnt
<1>5. StatsOK(KickedStats(way, row))
  BY UpdateStatsOK DEF KickedStats
<1> QED BY <1>2, <1>3, <1>4, <1>5

LEMMA FilledType ==
    ASSUME NEW a \in Addr, NEW m \in [Addr -> Val]
    PROVE  FilledLine(a, m) \in Lines
<1>1. Tag(a) \in Nat
  BY LocationFacts
<1>2. MemRead(m, CalcBaseAddress(Tag(a), Row(a)), BlockBytes)
        \in [0 .. (BlockBytes - 1) -> Val]
  BY LocationFacts DEF MemRead
<1> HIDE DEF MemRead
<1> QED BY <1>1, <1>2 DEF FilledLine, Lines

\* Rewriting a line with its tag unchanged, invalidating lines, and filling a
\* line for a block no way of the row holds, keep a block in one way.
LEMMA OneWayKept ==
    ASSUME BlockInOneWay, dt \in [Ways -> [Rows -> Lines]],
           NEW way \in Ways, NEW row \in Rows, NEW new \in Lines,
           dt' = [dt EXCEPT ![way][row] = new],
           \/ ~new.valid
           \/ dt[way][row].valid /\ new.tag = dt[way][row].tag
           \/ \A w \in Ways : ~(dt[w][row].valid /\ dt[w][row].tag = new.tag)
    PROVE  BlockInOneWay'
<1>1. \A w \in Ways, r \in Rows :
         dt'[w][r] = IF w = way /\ r = row THEN new ELSE dt[w][r]
  OBVIOUS
<1> QED BY <1>1 DEF BlockInOneWay

LEMMA InitInv == Init => Inv
<1> SUFFICES ASSUME Init PROVE Inv
  OBVIOUS
<1>1. \E v : v \in Val
  <2>1. 0 \in Addr
    <3>1. MemBlocks * BlockBytes \in Nat /\ MemBlocks * BlockBytes > 0
      BY Sizes
    <3> QED BY <3>1 DEF Addr
  <2> QED BY <2>1, CacheAssumption
<1>2. (CHOOSE v \in Val : TRUE) \in Val
  BY <1>1
<1>3. dt \in [Ways -> [Rows -> Lines]]
  BY <1>2 DEF Init, Lines
<1>4. cnt \in CntTypes
  BY CacheAssumption DEF Init, CntTypes
<1>5. StatsOK(stats)
  BY Sizes DEF Init, InitStats, StatsOK, Ways
<1>6. stats \in [Rows -> [Ways -> Nat]]
  BY <1>5 DEF StatsOK
<1>7. mem \in [Addr -> Val] /\ call = Idle
  BY CacheAssumption DEF Init
<1>8. BlockInOneWay
  BY DEF Init, BlockInOneWay
<1> QED BY <1>3, <1>4, <1>5, <1>6, <1>7, <1>8 DEF Inv, TypeOK, CallOK, CntTypes

\* What Inv' comes to, in the terms the lemmas above use.
Goal == /\ dt' \in [Ways -> [Rows -> Lines]] /\ StatsOK(stats')
        /\ mem' \in [Addr -> Val] /\ CallOK' /\ cnt' \in CntTypes
        /\ BlockInOneWay'

LEMMA NextInv == Inv /\ [Next]_vars => Inv'
<1> SUFFICES ASSUME Inv, [Next]_vars PROVE Inv'
  OBVIOUS
<1>1. /\ dt \in [Ways -> [Rows -> Lines]] /\ StatsOK(stats)
      /\ mem \in [Addr -> Val] /\ CallOK /\ cnt \in CntTypes
      /\ BlockInOneWay /\ TypeOK
  BY DEF Inv, TypeOK, CntTypes
<1>2. SUFFICES Goal
  BY DEF Goal, Inv, TypeOK, CntTypes, StatsOK
<1>3. (UNCHANGED dt => BlockInOneWay') /\ (UNCHANGED call => CallOK')
  BY <1>1 DEF BlockInOneWay, CallOK
<1>4. \A r \in Requests : r.addr \in Nat /\ r.size \in Nat
  BY CacheAssumption DEF Addr
<1>5. /\ Count(cnt, [mem_writes |-> 1]) \in CntTypes
      /\ Count(cnt, [mem_reads |-> 1]) \in CntTypes
      /\ Count(cnt, [miss_write |-> 1]) \in CntTypes
      /\ Count(cnt, [change_counter |-> 1]) \in CntTypes
  BY <1>1, CountType
<1>6. ASSUME NEW r \in Requests, NEW buf \in [0 .. (r.size - 1) -> Val],
             WriteBypass(r, buf)
      PROVE  Goal
  <2>1. mem' \in [Addr -> Val]
    BY <1>1, <1>4, <1>6, MemWriteType DEF WriteBypass
  <2> QED BY <1>1, <1>3, <1>5, <1>6, <2>1 DEF WriteBypass, Goal
<1>7. ASSUME NEW r \in Requests, NEW buf \in [0 .. (r.size - 1) -> Val],
             WriteStart(r, buf)
      PROVE  Goal
  <2>1. r \in Cached /\ 0 \in 0 .. r.size
    BY <1>4, <1>7 DEF WriteStart, Cached
  <2>2. call' \in AccessCalls(r, 0)
    BY <1>7 DEF WriteStart, AccessCalls
  <2>3. CallOK'
    BY <2>1, <2>2 DEF CallOK
  <2> QED BY <1>1, <1>3, <1>7, <2>3 DEF WriteStart, Goal
<1>8. ASSUME NEW r \in Requests, ReadBypass(r)
      PROVE  Goal
  BY <1>1, <1>3, <1>5, <1>8 DEF ReadBypass, Goal
<1>9. ASSUME NEW r \in Requests, ReadStart(r)
      PROVE  Goal
  <2>1. r \in Cached /\ 0 \in 0 .. r.size
    BY <1>4, <1>9 DEF ReadStart, Cached
  <2>2. call' \in AccessCalls(r, 0)
    <3>1. [i \in {} |-> 0] \in [0 .. (0 - 1) -> Val]
      OBVIOUS
    <3> QED BY <1>9, <3>1 DEF ReadStart, AccessCalls
  <2>3. CallOK'
    BY <2>1, <2>2 DEF CallOK
  <2> QED BY <1>1, <1>3, <1>9, <2>3 DEF ReadStart, Goal
<1>10. ASSUME NEW r \in DebugRequests, ReadInternal(r)
       PROVE  Goal
  <2>1. cnt' \in CntTypes /\ UNCHANGED <<dt, stats, mem, call>>
    BY <1>1, <1>5, <1>10 DEF ReadInternal
  <2> QED BY <1>1, <1>3, <2>1 DEF Goal
<1>11. CASE AccessHit
  <2> DEFINE way == FindBlockIndex(CurAddr)
             row == Row(CurAddr)
             c == Count(cnt, ReadOrWrite([hit_read |-> 1], [hit_write |-> 1]))
  <2>1. InAccess /\ HitWays(CurAddr) # {} /\ UNCHANGED mem
    BY <1>11 DEF AccessHit
  <2>2. CurAddr \in Addr
    BY <1>1, <2>1, AccessFacts
  <2>3. way \in Ways /\ dt[way][row].valid /\ row \in Rows
    BY <2>1, <2>2, HitUnique, LocationFacts
  <2>4. c \in CntTypes
    BY <1>1, CountType DEF ReadOrWrite
  <2>5. Transfer(way, dt[way][row], stats, c)
    BY <1>11 DEF AccessHit
  <2> HIDE DEF way, c
  <2>6. dt[way][row] \in Lines
    BY <1>1, <2>3
  <2>7. /\ dt' \in [Ways -> [Rows -> Lines]] /\ StatsOK(stats')
        /\ CallOK' /\ cnt' \in CntTypes
    BY <1>1, <2>1, <2>3, <2>4, <2>5, <2>6, TransferType
  <2>8. PICK new \in Lines : /\ dt' = [dt EXCEPT ![way][row] = new]
                             /\ new.tag = dt[way][row].tag
    <3> DEFINE n == ReadOrWrite(dt[way][row], [dt[way][row] EXCEPT
                       !.dirty = TRUE, !.data = WrittenData(dt[way][row])])
    <3>1. dt' = [dt EXCEPT ![way][row] = n]
      BY <2>5 DEF Transfer, NewLine
    <3>2. n.tag = dt[way][row].tag
      BY <2>6 DEF ReadOrWrite, Lines
    <3> HIDE DEF n
    <3>3. n = dt'[way][row]
      BY <1>1, <2>3, <3>1
    <3>4. n \in Lines
      BY <2>3, <2>7, <3>3
    <3> QED BY <3>1, <3>2, <3>4
  <2>9. BlockInOneWay'
    BY <1>1, <2>3, <2>8, OneWayKept
  <2> QED BY <1>1, <2>1, <2>7, <2>9 DEF Goal
<1>12. CASE AccessMissNoAlloc
  <2>1. InAccess /\ SkipsAllocation /\ UNCHANGED <<dt, stats, mem>>
    BY <1>12 DEF AccessMissNoAlloc
  <2>2. PICK r \in Cached :
              /\ r \in [addr : Addr, size : Nat]
              /\ call.addr = r.addr /\ call.size = r.size
              /\ call.done \in 0 .. r.size
              /\ call \in AccessCalls(r, call.done)
    BY <1>1, <2>1, AccessCall DEF InAccess
  <2>3. /\ WithinBlock \in Nat /\ call.done \in Nat
        /\ call.done + WithinBlock <= call.size
    BY <1>1, <2>1, AccessFacts
  <2>4. call' = [call EXCEPT !.done = @ + WithinBlock]
    BY <1>12 DEF AccessMissNoAlloc
  <2>5. call.op = "write"
    BY <2>1 DEF SkipsAllocation
  <2>6. call' \in AccessCalls(r, call.done + WithinBlock)
    BY <2>2, <2>4, <2>5 DEF AccessCalls
  <2>7. call.done + WithinBlock \in 0 .. r.size
    BY <2>2, <2>3
  <2>8. CallOK'
    BY <2>2, <2>6, <2>7 DEF CallOK
  <2>9. cnt' \in CntTypes
    BY <1>5, <1>12 DEF AccessMissNoAlloc
  <2> QED BY <1>1, <1>3, <2>1, <2>8, <2>9 DEF Goal
<1>13. ASSUME NEW way \in Ways, AccessMissAlloc(way)
       PROVE  Goal
  <2> DEFINE row == Row(CurAddr)
             m == KickedMem(way, row)
             line == FilledLine(CurAddr, m)
             d == [mem_reads |-> BlockSize, burst_reads |-> BlockSize - 1,
                   change_counter |-> BlockSize]
             c == Count(Count(KickedCnt(way, row), d),
                        ReadOrWrite([miss_read |-> 1], [miss_write |-> 1]))
  <2>1. InAccess /\ HitWays(CurAddr) = {} /\ mem' = m
    BY <1>13 DEF AccessMissAlloc
  <2>2. CurAddr \in Addr
    BY <1>1, <2>1, AccessFacts
  <2>3. row \in Rows
    BY <2>2, LocationFacts
  <2>4. m \in [Addr -> Val] /\ KickedCnt(way, row) \in CntTypes
        /\ StatsOK(KickedStats(way, row))
    BY <1>1, <2>3, KickTypes
  <2>5. line \in Lines
    BY <2>2, <2>4, FilledType
  <2>6. Count(KickedCnt(way, row), d) \in CntTypes
    BY <2>4, CountType, Sizes
  <2>7. c \in CntTypes
    <3> HIDE DEF d
    <3> QED BY <2>6, CountType DEF ReadOrWrite
  <2>8. Transfer(way, line, KickedStats(way, row), c)
    BY <1>13 DEF AccessMissAlloc
  <2>9. line.tag = Tag(CurAddr)
    BY DEF FilledLine
  <2> HIDE DEF m, line, c
  <2>10. /\ dt' \in [Ways -> [Rows -> Lines]] /\ StatsOK(stats')
         /\ CallOK' /\ cnt' \in CntTypes
    BY <1>1, <2>1, <2>4, <2>5, <2>7, <2>8, TransferType
  <2>11. PICK new \in Lines : /\ dt' = [dt EXCEPT ![way][row] = new]
                              /\ new.tag = Tag(CurAddr)
    <3> DEFINE n == ReadOrWrite(line, [line EXCEPT
                       !.dirty = TRUE, !.data = WrittenData(line)])
    <3>1. dt' = [dt EXCEPT ![way][row] = n]
      BY <2>8 DEF Transfer, NewLine
    <3>2. n.tag = line.tag
      BY <2>5 DEF ReadOrWrite, Lines
    <3> HIDE DEF n
    <3>3. n = dt'[way][row]
      BY <1>1, <2>3, <3>1
    <3>4. n \in Lines
      BY <2>3, <2>10, <3>3
    <3> QED BY <2>9, <3>1, <3>2, <3>4
  <2>12. \A w \in Ways : ~(dt[w][row].valid /\ dt[w][row].tag = new.tag)
    BY <2>1, <2>11 DEF HitWays
  <2>13. BlockInOneWay'
    BY <1>1, <2>3, <2>11, <2>12, OneWayKept
  <2> QED BY <2>1, <2>4, <2>10, <2>13 DEF Goal
<1>14. CASE WriteFinish
  <2>1. call.op = "write" /\ call' = Idle /\ UNCHANGED <<dt, stats>>
    BY <1>14 DEF WriteFinish
  <2>2. PICK r \in Cached :
              /\ r \in [addr : Addr, size : Nat]
              /\ call.addr = r.addr /\ call.size = r.size
              /\ call.op = "write" => call.buf \in [0 .. (r.size - 1) -> Val]
    BY <1>1, <2>1, AccessCall
  <2>3. r.addr \in Nat /\ r.size \in Nat
    BY <2>2 DEF Addr
  <2>4. MemWrite(mem, call.addr, call.size, call.buf) \in [Addr -> Val]
    BY <1>1, <2>1, <2>2, <2>3, MemWriteType
  <2>5. mem' \in [Addr -> Val] /\ cnt' \in CntTypes
    BY <1>1, <1>5, <1>14, <2>4 DEF WriteFinish
  <2>6. CallOK'
    BY <2>1 DEF CallOK
  <2> QED BY <1>1, <1>3, <2>1, <2>5, <2>6 DEF Goal
<1>15. CASE ReadFinish
  BY <1>1, <1>3, <1>15 DEF ReadFinish, Goal, CallOK
<1>16. CASE FlushStart
  <2>1. 0 \in 0 .. Associativity /\ 0 \in Rows
    BY Sizes DEF Rows
  <2>2. CallOK'
    BY <1>16, <2>1 DEF FlushStart, CallOK, FlushCalls
  <2> QED BY <1>1, <1>3, <1>16, <2>2 DEF FlushStart, Goal
<1>17. CASE FlushStep
  <2> DEFINE way == call.way
             row == call.row
  <2>1. call \in FlushCalls
    <3>1. call.op = "flush"
      BY <1>17 DEF FlushStep
    <3> QED BY <1>1, <3>1 DEF CallOK, Idle, AccessCalls
  <2>2. way \in Ways /\ row \in Rows /\ way \in Nat /\ row \in Nat /\ row < SetCount
    BY <1>17, <2>1, Sizes DEF FlushStep, FlushCalls, Ways, Rows
  <2>3. CallOK'
    <3>1. CASE row + 1 < SetCount
      <4>1. call' = [op |-> "flush", way |-> way, row |-> row + 1]
        BY <1>17, <2>1, <3>1 DEF FlushStep, FlushCalls
      <4>2. way \in 0 .. Associativity /\ row + 1 \in Rows
        BY <2>2, <3>1, Sizes DEF Ways, Rows
      <4> QED BY <4>1, <4>2 DEF CallOK, FlushCalls
    <3>2. CASE ~(row + 1 < SetCount)
      <4>1. call' = [op |-> "flush", way |-> way + 1, row |-> 0]
        BY <1>17, <2>1, <3>2 DEF FlushStep, FlushCalls
      <4>2. way + 1 \in 0 .. Associativity /\ 0 \in Rows
        BY <2>2, Sizes DEF Ways, Rows
      <4> QED BY <4>1, <4>2 DEF CallOK, FlushCalls
    <3> QED BY <3>1, <3>2
  <2>4. CASE dt[way][row].valid
    <3>1. /\ dt' = [dt EXCEPT ![way][row] = KickedLine(way, row)]
          /\ stats' = KickedStats(way, row)
          /\ mem' = KickedMem(way, row)
          /\ cnt' = KickedCnt(way, row)
      BY <1>17, <2>4 DEF FlushStep
    <3>2. /\ KickedMem(way, row) \in [Addr -> Val]
          /\ KickedLine(way, row) \in Lines
          /\ KickedCnt(way, row) \in CntTypes
          /\ StatsOK(KickedStats(way, row))
      BY <1>1, <2>2, KickTypes
    <3>3. ~KickedLine(way, row).valid
      BY <1>1, <2>2 DEF KickedLine, Lines
    <3> HIDE DEF way, row
    <3>4. BlockInOneWay'
      BY <1>1, <2>2, <3>1, <3>2, <3>3, OneWayKept
    <3>5. dt' \in [Ways -> [Rows -> Lines]]
      BY <1>1, <2>2, <3>1, <3>2
    <3> QED BY <2>3, <3>1, <3>2, <3>4, <3>5 DEF Goal
  <2>5. CASE ~dt[way][row].valid
    <3>1. UNCHANGED <<dt, stats, mem, cnt>>
      BY <1>17, <2>5 DEF FlushStep
    <3> QED BY <1>1, <1>3, <2>3, <3>1 DEF Goal
  <2> QED BY <2>4, <2>5
<1>18. CASE FlushFinish
  BY <1>1, <1>3, <1>5, <1>18 DEF FlushFinish, Goal, CallOK
<1>19. CASE Restart
  <2>1. mem' \in [Addr -> Val]
    BY <1>1, <1>19, CacheAssumption DEF Restart
  <2>2. cnt' \in CntTypes
    BY <1>1, <1>19, CacheAssumption DEF Restart, CntTypes
  <2>3. dt' = dt \/ dt' = [way \in Ways |-> [row \in Rows |->
                             [dt[way][row] EXCEPT !.valid = FALSE]]]
    BY <1>19 DEF Restart, ResetLines
  <2>4. dt' \in [Ways -> [Rows -> Lines]]
    <3>1. ASSUME NEW line \in Lines PROVE [line EXCEPT !.valid = FALSE] \in Lines
      BY DEF Lines
    <3> QED BY <1>1, <2>3, <3>1
  <2>5. BlockInOneWay'
    BY <1>1, <1>3, <2>3 DEF BlockInOneWay, Lines
  <2> QED BY <1>1, <1>3, <1>19, <2>1, <2>2, <2>4, <2>5 DEF Restart, Goal
<1>20. ASSUME NEW a \in DeviceAddrs, NEW v \in Val, DeviceChange(a, v)
       PROVE  Goal
  BY <1>1, <1>3, <1>20 DEF DeviceChange, Goal
<1>21. CASE UNCHANGED vars
  BY <1>1, <1>3, <1>21 DEF vars, Goal
<1> QED
  BY <1>6, <1>7, <1>8, <1>9, <1>10, <1>11, <1>12, <1>13, <1>14, <1>15, <1>16,
     <1>17, <1>18, <1>19, <1>20, <1>21 DEF Next, Access

\* The cache keeps its types: every line, counter and call in progress stays
\* what the code declares it to be.
THEOREM TypeCorrect == Spec => []TypeOK
<1>1. Inv => TypeOK
  BY DEF Inv
<1> QED BY <1>1, InitInv, NextInv, PTL DEF Spec

\* A block is never in two ways at once, whatever accesses, flushes and
\* restarts the cache sees.
THEOREM OneWayPerBlock == Spec => []BlockInOneWay
<1>1. Inv => BlockInOneWay
  BY DEF Inv
<1> QED BY <1>1, InitInv, NextInv, PTL DEF Spec

\* "LRU lost the way from priority queue" is never thrown.
THEOREM LRUNeverLosesWay == Spec => []LRUKeepsEveryWay
<1>1. Inv => LRUKeepsEveryWay
  BY DEF Inv, StatsOK, LRUKeepsEveryWay
<1> QED BY <1>1, InitInv, NextInv, PTL DEF Spec

-----------------------------------------------------------------------------
(* What the replacement policies know of the lines.                         *)

ValidWays(D) == [row \in Rows |-> {way \in Ways : D[way][row].valid}]

\* The LRU queue holds a way once, and the invalid ways stand in front.
Once(q) == \A i, j \in Ways : q[i] = q[j] => i = j
InvalidInFront(q, V) == \A i, j \in Ways : i < j /\ q[i] \in V => q[j] \in V

LEMMA LRUUpdateOrder ==
    ASSUME NEW q \in [Ways -> Nat], NEW way \in Ways, NEW isValid \in BOOLEAN,
           \A i \in Ways : q[i] \in Ways,
           \A w \in Ways : \E i \in Ways : q[i] = w,
           Once(q), NEW V, NEW V2, InvalidInFront(q, V),
           \A w \in Ways \ {way} : w \in V2 <=> w \in V,
           way \in V2 <=> isValid
    PROVE  /\ Once(LRUUpdate(q, way, isValid))
           /\ InvalidInFront(LRUUpdate(q, way, isValid), V2)
<1> DEFINE p == CHOOSE i \in Ways : q[i] = way
           u == LRUUpdate(q, way, isValid)
           last == Associativity - 1
<1>1. p \in Ways /\ q[p] = way
  OBVIOUS
<1>2. Ways \subseteq Nat /\ Associativity \in Nat \ {0} /\ \A i \in Ways : i <= last
  BY Sizes DEF Ways
<1>3. \A i \in Ways : q[i] = way => i = p
  BY <1>1 DEF Once
<1>4. CASE isValid
  <2>1. u = [i \in Ways |->
               IF i < p THEN q[i]
               ELSE IF i < Associativity - 1 THEN q[i + 1] ELSE way]
    BY <1>4 DEF LRUUpdate
  <2> HIDE DEF p, u
  \* where the way at place i of the new queue came from
  <2> DEFINE g(i) == IF i < p THEN i ELSE i + 1
  <2>2. \A i \in Ways : i # last => /\ g(i) \in Ways /\ u[i] = q[g(i)] /\ g(i) # p
                                    /\ u[i] # way
    <3> SUFFICES ASSUME NEW i \in Ways, i # last
                 PROVE  /\ g(i) \in Ways /\ u[i] = q[g(i)] /\ g(i) # p
      BY <1>3
    <3>1. i \in Nat /\ p \in Nat /\ i < last /\ p <= last
      BY <1>1, <1>2
    <3>2. i + 1 \in Ways
      BY <1>2, <3>1 DEF Ways
    <3> QED BY <2>1, <3>1, <3>2
  <2>3. last \in Ways => u[last] = way
    BY <1>1, <1>2, <2>1
  <2>4. \A i, j \in Ways : /\ i < j => g(i) < g(j)
                           /\ g(i) = g(j) => i = j
    BY <1>1, <1>2
  <2> HIDE DEF g, last
  <2>5. Once(u)
    <3> SUFFICES ASSUME NEW i \in Ways, NEW j \in Ways, u[i] = u[j] PROVE i = j
      BY DEF Once
    <3> QED BY <2>2, <2>3, <2>4 DEF Once
  <2>6. InvalidInFront(u, V2)
    <3> SUFFICES ASSUME NEW i \in Ways, NEW j \in Ways, i < j, u[i] \in V2
                 PROVE  u[j] \in V2
      BY DEF InvalidInFront
    <3>1. CASE j = last
      BY <1>4, <2>3, <3>1
    <3>2. CASE j # last
      <4>1. i # last
        BY <1>2 DEF last
      <4>2. /\ g(i) \in Ways /\ g(j) \in Ways /\ g(i) < g(j)
            /\ u[i] = q[g(i)] /\ u[j] = q[g(j)] /\ u[i] # way /\ u[j] # way
        BY <2>2, <2>4, <3>2, <4>1
      <4>3. q[g(i)] \in V
        BY <4>2
      <4>4. q[g(j)] \in V
        BY <4>2, <4>3 DEF InvalidInFront
      <4> QED BY <4>2, <4>4
    <3> QED BY <3>1, <3>2
  <2> QED BY <2>5, <2>6 DEF u
<1>5. CASE ~isValid
  <2>1. u = [i \in Ways |->
               IF i > p THEN q[i] ELSE IF i > 0 THEN q[i - 1] ELSE way]
    BY <1>5 DEF LRUUpdate
  <2> HIDE DEF p, u
  <2> DEFINE g(i) == IF i > p THEN i ELSE i - 1
  <2>2. \A i \in Ways : i # 0 => /\ g(i) \in Ways /\ u[i] = q[g(i)] /\ g(i) # p
                                 /\ u[i] # way
    <3> SUFFICES ASSUME NEW i \in Ways, i # 0
                 PROVE  /\ g(i) \in Ways /\ u[i] = q[g(i)] /\ g(i) # p
      BY <1>3
    <3>1. i \in Nat /\ p \in Nat /\ i > 0
      BY <1>1, <1>2
    <3>2. i - 1 \in Ways
      BY <1>2, <3>1 DEF Ways
    <3> QED BY <2>1, <3>1, <3>2
  <2>3. 0 \in Ways => u[0] = way
    BY <1>1, <1>2, <2>1
  <2>4. \A i, j \in Ways : /\ i < j => g(i) < g(j)
                           /\ g(i) = g(j) => i = j
    BY <1>1, <1>2
  <2> HIDE DEF g
  <2>5. Once(u)
    <3> SUFFICES ASSUME NEW i \in Ways, NEW j \in Ways, u[i] = u[j] PROVE i = j
      BY DEF Once
    <3> QED BY <2>2, <2>3, <2>4 DEF Once
  <2>6. InvalidInFront(u, V2)
    <3> SUFFICES ASSUME NEW i \in Ways, NEW j \in Ways, i < j, u[i] \in V2
                 PROVE  u[j] \in V2
      BY DEF InvalidInFront
    <3>1. i # 0 /\ j # 0
      BY <1>2, <1>5, <2>3
    <3>2. /\ g(i) \in Ways /\ g(j) \in Ways /\ g(i) < g(j)
          /\ u[i] = q[g(i)] /\ u[j] = q[g(j)] /\ u[i] # way /\ u[j] # way
      BY <2>2, <2>4, <3>1
    <3>3. q[g(i)] \in V
      BY <3>2
    <3>4. q[g(j)] \in V
      BY <3>2, <3>3 DEF InvalidInFront
    <3> QED BY <3>2, <3>4
  <2> QED BY <2>5, <2>6 DEF u
<1> QED BY <1>4, <1>5

\* LFU: a way with no use is invalid; an invalid way has no use, unless
\* Machine::restart has cleared the valid bits behind the policy's back.
PolicyKnows(st, V) ==
    /\ ReplacementPolicy = "RP_LRU" => \A row \in Rows :
          Once(st[row]) /\ InvalidInFront(st[row], V[row])
    /\ ReplacementPolicy = "RP_LFU" => \A row \in Rows, way \in Ways :
          /\ st[row][way] = 0 => way \notin V[row]
          /\ ~AllowRestart /\ way \notin V[row] => st[row][way] = 0

LEMMA UpdateKnows ==
    ASSUME NEW st, StatsOK(st), NEW V, PolicyKnows(st, V),
           NEW way \in Ways, NEW row \in Rows, NEW isValid \in BOOLEAN,
           NEW V2 \in [Rows -> SUBSET Ways],
           \A r \in Rows, w \in Ways :
              ~(w = way /\ r = row) => (w \in V2[r] <=> w \in V[r]),
           way \in V2[row] <=> isValid
    PROVE  PolicyKnows(UpdateStats(st, way, row, isValid), V2)
<1> DEFINE st2 == UpdateStats(st, way, row, isValid)
<1>1. CASE ReplacementPolicy = "RP_LRU"
  <2> DEFINE u == LRUUpdate(st[row], way, isValid)
  <2>1. st2 = [st EXCEPT ![row] = u] /\ st \in [Rows -> [Ways -> Nat]]
    BY <1>1 DEF UpdateStats, StatsOK
  <2>2. Once(u) /\ InvalidInFront(u, V2[row])
    <3>1. /\ st[row] \in [Ways -> Nat]
          /\ \A i \in Ways : st[row][i] \in Ways
          /\ \A w \in Ways : \E i \in Ways : st[row][i] = w
          /\ Once(st[row]) /\ InvalidInFront(st[row], V[row])
      BY <1>1 DEF StatsOK, PolicyKnows
    <3>2. \A w \in Ways \ {way} : w \in V2[row] <=> w \in V[row]
      OBVIOUS
    <3> QED BY <3>1, <3>2, LRUUpdateOrder
  <2> HIDE DEF u, st2
  <2>3. ASSUME NEW r \in Rows
        PROVE  Once(st2[r]) /\ InvalidInFront(st2[r], V2[r])
    <3>1. CASE r = row
      <4>1. st2[r] = u
        BY <2>1, <3>1
      <4> QED BY <2>2, <3>1, <4>1
    <3>2. CASE r # row
      <4>1. st2[r] = st[r]
        BY <2>1, <3>2
      <4>2. \A i \in Ways : st[r][i] \in Ways
        BY <1>1 DEF StatsOK
      <4>3. \A w \in Ways : w \in V2[r] <=> w \in V[r]
        BY <3>2
      <4>4. Once(st[r]) /\ InvalidInFront(st[r], V[r])
        BY <1>1 DEF PolicyKnows
      <4> QED BY <4>1, <4>2, <4>3, <4>4 DEF InvalidInFront
    <3> QED BY <3>1, <3>2
  <2> QED BY <1>1, <2>3 DEF PolicyKnows, st2
<1>2. CASE ReplacementPolicy = "RP_LFU"
  <2>1. /\ st2 = [st EXCEPT ![row] = LFUUpdate(@, way, isValid)]
        /\ st \in [Rows -> [Ways -> Nat]]
    BY <1>2 DEF UpdateStats, StatsOK
  <2> HIDE DEF st2
  <2>2. ASSUME NEW r \in Rows, NEW w \in Ways
        PROVE  st2[r][w] = IF r = row /\ w = way
                           THEN IF isValid THEN st[r][w] + 1 ELSE 0
                           ELSE st[r][w]
    BY <2>1 DEF LFUUpdate
  <2>3. ASSUME NEW r \in Rows, NEW w \in Ways
        PROVE  /\ st2[r][w] = 0 => w \notin V2[r]
               /\ ~AllowRestart /\ w \notin V2[r] => st2[r][w] = 0
    <3>1. CASE r = row /\ w = way
      <4>1. st[r][w] \in Nat
        BY <2>1
      <4>2. CASE isValid
        <5>1. st2[r][w] = st[r][w] + 1 /\ w \in V2[r]
          BY <2>2, <3>1, <4>2
        <5> QED BY <4>1, <5>1
      <4>3. CASE ~isValid
        BY <2>2, <3>1, <4>3
      <4> QED BY <4>2, <4>3
    <3>2. CASE ~(r = row /\ w = way)
      BY <1>2, <2>2, <3>2 DEF PolicyKnows
    <3> QED BY <3>1, <3>2
  <2> QED BY <1>2, <2>3 DEF PolicyKnows, st2
<1>3. CASE ReplacementPolicy = "RP_RAND"
  BY <1>3 DEF PolicyKnows
<1> QED BY <1>1, <1>2, <1>3, PolicyAssumption

\* A line is kicked, a line is used.
LEMMA KickKnows ==
    ASSUME NEW st, StatsOK(st), NEW V, PolicyKnows(st, V),
           NEW way \in Ways, NEW row \in Rows, NEW V2 \in [Rows -> SUBSET Ways],
           \A r \in Rows, w \in Ways :
              ~(w = way /\ r = row) => (w \in V2[r] <=> w \in V[r]),
           way \notin V2[row]
    PROVE  PolicyKnows(UpdateStats(st, way, row, FALSE), V2)
  BY UpdateKnows

LEMMA UseKnows ==
    ASSUME NEW st, StatsOK(st), NEW V, PolicyKnows(st, V),
           NEW way \in Ways, NEW row \in Rows, NEW V2 \in [Rows -> SUBSET Ways],
           \A r \in Rows, w \in Ways :
              ~(w = way /\ r = row) => (w \in V2[r] <=> w \in V[r]),
           way \in V2[row]
    PROVE  PolicyKnows(UpdateStats(st, way, row, TRUE), V2)
  BY UpdateKnows

PolicyInv == Inv /\ PolicyKnows(stats, ValidWays(dt))

LEMMA InitPolicyInv == Init => PolicyInv
<1> SUFFICES ASSUME Init PROVE PolicyInv
  OBVIOUS
<1>1. Inv
  BY InitInv
<1>2. \A w \in Ways, row \in Rows : ~dt[w][row].valid
  BY DEF Init
<1>3. \A row \in Rows : ValidWays(dt)[row] = {}
  BY <1>2 DEF ValidWays
<1>4. \A row \in Rows : InvalidInFront(stats[row], ValidWays(dt)[row])
  BY <1>3 DEF InvalidInFront
<1>5. ReplacementPolicy = "RP_LRU" => \A row \in Rows : Once(stats[row])
  BY DEF Init, InitStats, Once
<1>6. ReplacementPolicy = "RP_LFU" => \A row \in Rows, w \in Ways : stats[row][w] = 0
  BY DEF Init, InitStats
<1> QED BY <1>1, <1>3, <1>4, <1>5, <1>6 DEF PolicyInv, PolicyKnows

\* The validity of the lines after Transfer.
LEMMA TransferValid ==
    ASSUME CallOK, InAccess, dt \in [Ways -> [Rows -> Lines]],
           NEW way \in Ways, NEW line \in Lines, line.valid, NEW st, NEW c,
           Transfer(way, line, st, c)
    PROVE  \A w \in Ways, r \in Rows :
              dt'[w][r].valid <=> (w = way /\ r = Row(CurAddr)) \/ dt[w][r].valid
<1> DEFINE n == NewLine(line)
           row == Row(CurAddr)
<1>1. dt' = [dt EXCEPT ![way][row] = n]
  BY DEF Transfer
<1>2. row \in Rows
  BY AccessFacts, LocationFacts
<1>3. n.valid
  <2> HIDE DEF WrittenData
  <2> QED BY DEF NewLine, ReadOrWrite, Lines
<1> HIDE DEF n, row
<1>4. \A w \in Ways, r \in Rows :
         dt'[w][r] = IF w = way /\ r = row THEN n ELSE dt[w][r]
  BY <1>1, <1>2
<1> QED BY <1>3, <1>4 DEF row

LEMMA NextPolicyInv == PolicyInv /\ [Next]_vars => PolicyInv'
<1> SUFFICES ASSUME PolicyInv, [Next]_vars PROVE PolicyInv'
  OBVIOUS
<1>0. SUFFICES PolicyKnows(stats', ValidWays(dt'))
  BY NextInv DEF PolicyInv, PolicyKnows, ValidWays
<1>1. /\ Inv /\ dt \in [Ways -> [Rows -> Lines]] /\ StatsOK(stats) /\ CallOK /\ TypeOK
      /\ PolicyKnows(stats, ValidWays(dt))
  BY DEF PolicyInv, Inv, TypeOK
<1>2. ASSUME dt' = dt, stats' = stats PROVE PolicyKnows(stats', ValidWays(dt'))
  BY <1>1, <1>2
<1>3. CASE AccessHit
  <2> DEFINE way == FindBlockIndex(CurAddr)
             row == Row(CurAddr)
             c == Count(cnt, ReadOrWrite([hit_read |-> 1], [hit_write |-> 1]))
  <2>1. /\ InAccess /\ HitWays(CurAddr) # {}
        /\ Transfer(way, dt[way][row], stats, c)
    BY <1>3 DEF AccessHit
  <2>2. CurAddr \in Addr
    BY <1>1, <2>1, AccessFacts
  <2>3. way \in Ways /\ dt[way][row].valid /\ row \in Rows /\ dt[way][row] \in Lines
    BY <1>1, <2>1, <2>2, HitUnique, LocationFacts
  <2> HIDE DEF way, c
  <2>4. \A w \in Ways, r \in Rows :
           dt'[w][r].valid <=> (w = way /\ r = Row(CurAddr)) \/ dt[w][r].valid
    BY <1>1, <2>1, <2>3, TransferValid
  <2>5. stats' = UpdateStats(stats, way, row, TRUE)
    BY <2>1 DEF Transfer
  <2> HIDE DEF row
  <2>6. \A r \in Rows, w \in Ways :
           w \in ValidWays(dt')[r] <=> (w = way /\ r = row) \/ w \in ValidWays(dt)[r]
    BY <2>4 DEF ValidWays, row
  <2>7. ValidWays(dt') \in [Rows -> SUBSET Ways]
    BY DEF ValidWays
  <2> QED BY <1>1, <2>3, <2>5, <2>6, <2>7, UseKnows
<1>4. ASSUME NEW way \in Ways, AccessMissAlloc(way)
      PROVE  PolicyKnows(stats', ValidWays(dt'))
  <2> DEFINE row == Row(CurAddr)
             line == FilledLine(CurAddr, KickedMem(way, row))
             D1 == [dt EXCEPT ![way][row] = KickedLine(way, row)]
             d == [mem_reads |-> BlockSize, burst_reads |-> BlockSize - 1,
                   change_counter |-> BlockSize]
             c == Count(Count(KickedCnt(way, row), d),
                        ReadOrWrite([miss_read |-> 1], [miss_write |-> 1]))
  <2>1. InAccess /\ Transfer(way, line, KickedStats(way, row), c)
    BY <1>4 DEF AccessMissAlloc
  <2>2. CurAddr \in Addr
    BY <1>1, <2>1, AccessFacts
  <2>3. row \in Rows
    BY <2>2, LocationFacts
  <2>4. /\ KickedMem(way, row) \in [Addr -> Val] /\ StatsOK(KickedStats(way, row))
        /\ KickedLine(way, row) \in Lines
    BY <1>1, <2>3, KickTypes
  <2>5. line \in Lines /\ line.valid
    BY <2>2, <2>4, FilledType DEF FilledLine
  <2>6. ~KickedLine(way, row).valid
    BY <1>1, <2>3 DEF KickedLine, Lines
  <2> HIDE DEF line, c, row
  <2>7. \A w \in Ways, r \in Rows :
           D1[w][r] = IF w = way /\ r = row THEN KickedLine(way, row) ELSE dt[w][r]
    BY <1>1, <2>3
  <2> HIDE DEF D1
  <2>8. PolicyKnows(KickedStats(way, row), ValidWays(D1))
    <3>1. \A r \in Rows, w \in Ways :
             w \in ValidWays(D1)[r] <=> ~(w = way /\ r = row) /\ w \in ValidWays(dt)[r]
      BY <2>6, <2>7 DEF ValidWays
    <3>2. ValidWays(D1) \in [Rows -> SUBSET Ways]
      BY DEF ValidWays
    <3> QED BY <1>1, <2>3, <3>1, <3>2, KickKnows DEF KickedStats
  <2>9. \A w \in Ways, r \in Rows :
           dt'[w][r].valid <=> (w = way /\ r = row) \/ dt[w][r].valid
    BY <1>1, <2>1, <2>5, TransferValid DEF row
  <2>10. stats' = UpdateStats(KickedStats(way, row), way, row, TRUE)
    BY <2>1 DEF Transfer, row
  <2>11. \A r \in Rows, w \in Ways :
            w \in ValidWays(dt')[r] <=> (w = way /\ r = row) \/ w \in ValidWays(D1)[r]
    BY <2>7, <2>9 DEF ValidWays
  <2>12. ValidWays(dt') \in [Rows -> SUBSET Ways]
    BY DEF ValidWays
  <2> QED BY <2>3, <2>4, <2>8, <2>10, <2>11, <2>12, UseKnows
<1>5. CASE FlushStep
  <2> DEFINE way == call.way
             row == call.row
  <2>1. call \in FlushCalls
    <3>1. call.op = "flush"
      BY <1>5 DEF FlushStep
    <3> QED BY <1>1, <3>1 DEF CallOK, Idle, AccessCalls
  <2>2. way \in Ways /\ row \in Rows
    BY <1>5, <2>1, Sizes DEF FlushStep, FlushCalls, Ways, Rows
  <2>3. CASE dt[way][row].valid
    <3>1. /\ dt' = [dt EXCEPT ![way][row] = KickedLine(way, row)]
          /\ stats' = UpdateStats(stats, way, row, FALSE)
      BY <1>5, <2>3 DEF FlushStep, KickedStats
    <3>2. ~KickedLine(way, row).valid
      BY <1>1, <2>2 DEF KickedLine, Lines
    <3> HIDE DEF way, row
    <3>3. \A w \in Ways, r \in Rows :
             dt'[w][r] = IF w = way /\ r = row THEN KickedLine(way, row) ELSE dt[w][r]
      BY <1>1, <2>2, <3>1
    <3>4. \A r \in Rows, w \in Ways :
             w \in ValidWays(dt')[r] <=> ~(w = way /\ r = row) /\ w \in ValidWays(dt)[r]
      BY <3>2, <3>3 DEF ValidWays
    <3>5. ValidWays(dt') \in [Rows -> SUBSET Ways]
      BY DEF ValidWays
    <3> QED BY <1>1, <2>2, <3>1, <3>4, <3>5, KickKnows
  <2>4. CASE ~dt[way][row].valid
    BY <1>2, <1>5, <2>4 DEF FlushStep
  <2> QED BY <2>3, <2>4
<1>6. CASE Restart
  <2>1. stats' = stats /\ AllowRestart
    BY <1>6 DEF Restart
  <2>2. CASE ~Enabled
    BY <1>2, <1>6, <2>1, <2>2 DEF Restart, ResetLines
  <2>3. CASE Enabled
    <3>1. \A w \in Ways, row \in Rows : ~dt'[w][row].valid
      BY <1>1, <1>6, <2>3 DEF Restart, ResetLines, Lines
    <3>2. \A row \in Rows : ValidWays(dt')[row] = {}
      BY <3>1 DEF ValidWays
    <3>3. \A row \in Rows : InvalidInFront(stats[row], ValidWays(dt')[row])
      BY <3>2 DEF InvalidInFront
    <3> QED BY <1>1, <2>1, <3>2, <3>3 DEF PolicyKnows
  <2> QED BY <2>2, <2>3
<1>7. ASSUME NEW r \in Requests, NEW buf, WriteBypass(r, buf) \/ WriteStart(r, buf)
      PROVE  PolicyKnows(stats', ValidWays(dt'))
  BY <1>2, <1>7 DEF WriteBypass, WriteStart
<1>8. ASSUME NEW r, ReadBypass(r) \/ ReadStart(r) \/ ReadInternal(r)
      PROVE  PolicyKnows(stats', ValidWays(dt'))
  BY <1>2, <1>8 DEF ReadBypass, ReadStart, ReadInternal
<1>9. CASE AccessMissNoAlloc \/ WriteFinish \/ ReadFinish \/ FlushStart \/ FlushFinish
  BY <1>2, <1>9 DEF AccessMissNoAlloc, WriteFinish, ReadFinish, FlushStart, FlushFinish
<1>10. ASSUME NEW a, NEW v, DeviceChange(a, v)
       PROVE  PolicyKnows(stats', ValidWays(dt'))
  BY <1>2, <1>10 DEF DeviceChange
<1>11. CASE UNCHANGED vars
  BY <1>2, <1>11 DEF vars
<1> QED
  BY <1>3, <1>4, <1>5, <1>6, <1>7, <1>8, <1>9, <1>10, <1>11 DEF Next, Access

\* A nonempty set of natural numbers has a least element.
LEMMA LeastNatural ==
    ASSUME NEW S, S \subseteq Nat, S # {}
    PROVE  \E n \in S : \A m \in S : n <= m
<1> DEFINE R == OpToRel(<, Nat)
<1>1. IsWellFoundedOn(R, Nat)
  BY NatLessThanWellFounded
<1>2. \A x, y \in Nat : <<y, x>> \in R <=> y < x
  BY DEF OpToRel
<1> HIDE DEF R
<1>3. \E x \in S : \A y \in S : ~(<<y, x>> \in R)
  BY <1>1, WFMin
<1>4. PICK n \in S : \A y \in S : ~(<<y, n>> \in R)
  BY <1>3
<1>5. ASSUME NEW m \in S PROVE n <= m
  <2>1. n \in Nat /\ m \in Nat
    OBVIOUS
  <2>2. ~(m < n)
    BY <1>2, <1>4, <2>1
  <2> QED BY <2>1, <2>2
<1> QED BY <1>5

\* The scan of CachePolicyLFU::select_way_to_evict ends at a way with the
\* fewest uses.
LEMMA LFUVictimLeast ==
    ASSUME NEW uses \in [Ways -> Nat]
    PROVE  /\ LFUVictim(uses) \in Ways
           /\ \A j \in Ways : uses[LFUVictim(uses)] <= uses[j]
<1>1. 0 \in Ways /\ Ways \subseteq Nat
  BY Sizes DEF Ways
<1>2. PICK n \in {uses[j] : j \in Ways} : \A m \in {uses[j] : j \in Ways} : n <= m
  <2> DEFINE S == {uses[j] : j \in Ways}
  <2>1. S \subseteq Nat /\ S # {}
    BY <1>1
  <2> HIDE DEF S
  <2>2. \E n \in S : \A m \in S : n <= m
    BY <2>1, LeastNatural
  <2> QED BY <2>2 DEF S
<1>3. PICK i \in {j \in Ways : uses[j] = n} :
         \A j \in {k \in Ways : uses[k] = n} : i <= j
  <2> DEFINE S == {j \in Ways : uses[j] = n}
  <2>1. S \subseteq Nat /\ S # {}
    BY <1>1, <1>2
  <2> HIDE DEF S
  <2>2. \E k \in S : \A j \in S : k <= j
    BY <2>1, LeastNatural
  <2> QED BY <2>2 DEF S
<1>4. i \in Ways /\ \A j \in Ways : uses[i] <= uses[j]
  BY <1>2, <1>3
<1>5. ASSUME NEW j \in Ways, j < i PROVE uses[i] < uses[j]
  <2>1. uses[j] # uses[i]
    BY <1>1, <1>3, <1>5
  <2>2. uses[i] \in Nat /\ uses[j] \in Nat
    BY <1>4
  <2> QED BY <1>4, <2>1, <2>2
<1> QED BY <1>4, <1>5 DEF LFUVictim

\* CachePolicyLFU::select_way_to_evict stops its scan at a way without use, on
\* the ground that "only invalid blocks have zero stat": they are the only ones.
THEOREM ZeroStatMeansInvalid == Spec => []OnlyInvalidHaveZeroStat
<1>1. PolicyInv => OnlyInvalidHaveZeroStat
  BY DEF PolicyInv, PolicyKnows, ValidWays, OnlyInvalidHaveZeroStat
<1> QED BY <1>1, InitPolicyInv, NextPolicyInv, PTL DEF Spec

\* LRU and LFU never evict a valid line while the row has an invalid one.  (LFU
\* loses that when Machine::restart clears the valid bits and keeps the counts.)
THEOREM InvalidEvictedFirst ==
    (AllowRestart => ReplacementPolicy # "RP_LFU")
        => (Spec => []InvalidWayEvictedFirst)
<1> SUFFICES ASSUME AllowRestart => ReplacementPolicy # "RP_LFU"
             PROVE  Spec => []InvalidWayEvictedFirst
  OBVIOUS
<1>1. PolicyInv => InvalidWayEvictedFirst
  <2> SUFFICES ASSUME PolicyInv, NEW row \in Rows, NEW victim \in VictimWays(stats, row),
                      dt[victim][row].valid, NEW way \in Ways,
                      ReplacementPolicy \in {"RP_LRU", "RP_LFU"}
               PROVE  dt[way][row].valid
    BY PolicyAssumption DEF InvalidWayEvictedFirst
  <2>1. StatsOK(stats) /\ PolicyKnows(stats, ValidWays(dt))
    BY DEF PolicyInv, Inv
  <2>2. CASE ReplacementPolicy = "RP_LRU"
    <3>1. victim = stats[row][0] /\ 0 \in Ways
      BY <2>2, Sizes DEF VictimWays, Ways
    <3>2. PICK i \in Ways : stats[row][i] = way
      BY <2>1, <2>2 DEF StatsOK
    <3>3. CASE i = 0
      BY <3>1, <3>2, <3>3
    <3>4. CASE i # 0
      <4>1. 0 < i
        BY <3>4, Sizes DEF Ways
      <4>2. victim \in ValidWays(dt)[row]
        BY <2>1, <2>2, <3>1 DEF ValidWays, StatsOK
      <4>3. way \in ValidWays(dt)[row]
        BY <2>1, <2>2, <3>1, <3>2, <4>1, <4>2 DEF PolicyKnows, InvalidInFront
      <4> QED BY <4>3 DEF ValidWays
    <3> QED BY <3>3, <3>4
  <2>3. CASE ReplacementPolicy = "RP_LFU"
    <3>1. victim = LFUVictim(stats[row]) /\ stats[row] \in [Ways -> Nat]
      BY <2>1, <2>3 DEF VictimWays, StatsOK
    <3>2. victim \in Ways /\ stats[row][victim] <= stats[row][way]
      BY <3>1, LFUVictimLeast
    <3>3. SUFFICES ASSUME ~dt[way][row].valid PROVE FALSE
      OBVIOUS
    <3>4. stats[row][way] = 0
      BY <2>1, <2>3, <3>3 DEF PolicyKnows, ValidWays
    <3>5. stats[row][victim] = 0
      BY <3>1, <3>2, <3>4
    <3> QED BY <2>1, <2>3, <3>2, <3>5 DEF PolicyKnows, ValidWays
  <2> QED BY <2>2, <2>3
<1> QED BY <1>1, InitPolicyInv, NextPolicyInv, PTL DEF Spec

-----------------------------------------------------------------------------
(* The change counter.                                                      *)

\* A uint32_t counter after an addition.
LEMMA CountAt ==
    ASSUME NEW c \in CntTypes, NEW d, NEW f \in Counters,
           f \in DOMAIN d => d[f] \in Nat /\ d[f] < CounterModulus
    PROVE  Count(c, d)[f] = IF f \notin DOMAIN d THEN c[f]
                            ELSE IF c[f] + d[f] < CounterModulus THEN c[f] + d[f]
                            ELSE (c[f] + d[f]) - CounterModulus
<1>1. c[f] \in Nat /\ c[f] < CounterModulus /\ CounterModulus \in Nat
  BY CacheAssumption DEF CntTypes
<1>2. Count(c, d)[f] = IF f \in DOMAIN d THEN (c[f] + d[f]) % CounterModulus ELSE c[f]
  BY DEF Count
<1> HIDE DEF Counters
<1>3. CASE f \in DOMAIN d
  <2> DEFINE x == c[f] + d[f]
             m == CounterModulus
  <2>1. x \in Nat /\ x < m + m /\ m \in Nat
    BY <1>1, <1>3
  <2>2. x % m = IF x < m THEN x ELSE x - m
    <3> HIDE DEF x, m
    <3>1. CASE x < m
      <4>1. ((0 * m) + x) % m = x
        BY <2>1, <3>1, DivModUnique
      <4>2. (0 * m) + x = x
        BY <2>1
      <4> QED BY <3>1, <4>1, <4>2
    <3>2. CASE ~(x < m)
      <4>1. x - m \in Nat /\ x - m < m
        BY <2>1, <3>2
      <4>2. ((1 * m) + (x - m)) % m = x - m
        BY <2>1, <4>1, DivModUnique
      <4>3. (1 * m) + (x - m) = x
        BY <2>1
      <4> QED BY <3>2, <4>2, <4>3
    <3> QED BY <3>1, <3>2
  <2> QED BY <1>2, <1>3, <2>2
<1>4. CASE f \notin DOMAIN d
  BY <1>2, <1>4
<1> QED BY <1>3, <1>4

\* Every step that changes what the valid lines hold moves change_counter; the
\* memory views of the user interface, which poll it, miss no change.  The
\* counter is of finite width, so one step must not turn it around; and
\* Cache::reset, which drops the lines, leaves it alone.
THEOREM ChangesAreCounted ==
    ~AllowRestart /\ CounterModulus > BlockSize + 2 => (Spec => ContentChangeCounted)
<1> SUFFICES ASSUME ~AllowRestart, CounterModulus > BlockSize + 2
             PROVE  Spec => ContentChangeCounted
  OBVIOUS
<1> DEFINE f == "change_counter"
           Step == Content' # Content => cnt'[f] # cnt[f]
<1>1. Inv /\ [Next]_vars => Step
  <2> SUFFICES ASSUME Inv, [Next]_vars, Content' # Content PROVE cnt'[f] # cnt[f]
    OBVIOUS
  <2>1. /\ dt \in [Ways -> [Rows -> Lines]] /\ StatsOK(stats) /\ CallOK /\ TypeOK
        /\ cnt \in CntTypes
    BY DEF Inv, TypeOK, CntTypes
  <2>2. /\ cnt[f] \in Nat /\ cnt[f] < CounterModulus /\ CounterModulus \in Nat
        /\ BlockSize \in Nat \ {0} /\ f \in Counters
    BY <2>1, CacheAssumption, Sizes DEF CntTypes, Counters
  <2>3. ASSUME dt' = dt PROVE FALSE
    BY <2>3 DEF Content
  <2>4. ASSUME NEW way \in Ways, NEW line \in Lines, NEW st, NEW c \in CntTypes,
               InAccess, Transfer(way, line, st, c)
        PROVE  /\ cnt'[f] \in {c[f], c[f] + 1, (c[f] + 1) - CounterModulus}
               /\ line = dt[way][Row(CurAddr)] => cnt'[f] # c[f]
    <3> DEFINE row == Row(CurAddr)
               n == NewLine(line)
    <3>1. cnt' = IF n.data # line.data THEN Count(c, [change_counter |-> 1]) ELSE c
      BY <2>4 DEF Transfer
    <3>2. Count(c, [change_counter |-> 1])[f] =
             IF c[f] + 1 < CounterModulus THEN c[f] + 1 ELSE (c[f] + 1) - CounterModulus
      BY <2>2, CountAt
    <3>3. line = dt[way][row] => n.data # line.data
      <4> SUFFICES ASSUME line = dt[way][row], n.data = line.data PROVE FALSE
        OBVIOUS
      <4>1. row \in Rows /\ dt' = [dt EXCEPT ![way][row] = n]
        BY <2>1, <2>4, AccessFacts, LocationFacts DEF Transfer
      <4>2. n.valid = line.valid /\ n.tag = line.tag
        <5> HIDE DEF WrittenData
        <5> QED BY DEF NewLine, ReadOrWrite, Lines
      <4> HIDE DEF n, row
      <4>3. \A w \in Ways, r \in Rows :
               dt'[w][r] = IF w = way /\ r = row THEN n ELSE dt[w][r]
        BY <2>1, <4>1
      <4>4. \A w \in Ways, r \in Rows :
               /\ dt'[w][r].valid = dt[w][r].valid /\ dt'[w][r].tag = dt[w][r].tag
               /\ dt'[w][r].data = dt[w][r].data
        BY <4>2, <4>3
      <4>5. Content' = Content
        BY <4>4 DEF Content
      <4> QED BY <4>5
    <3>4. c[f] \in Nat /\ c[f] < CounterModulus
      BY <2>2 DEF CntTypes
    <3> HIDE DEF n, f
    <3> QED BY <2>2, <3>1, <3>2, <3>3, <3>4
  <2>5. CASE AccessHit
    <3> DEFINE way == FindBlockIndex(CurAddr)
               c == Count(cnt, ReadOrWrite([hit_read |-> 1], [hit_write |-> 1]))
    <3>1. /\ InAccess /\ HitWays(CurAddr) # {}
          /\ Transfer(way, dt[way][Row(CurAddr)], stats, c)
      BY <2>5 DEF AccessHit
    <3>2. CurAddr \in Addr
      BY <2>1, <3>1, AccessFacts
    <3>3. way \in Ways /\ dt[way][Row(CurAddr)] \in Lines
      BY <2>1, <3>1, <3>2, HitUnique, LocationFacts
    <3>4. c \in CntTypes
      BY <2>1, CountType DEF ReadOrWrite
    <3>5. c[f] = cnt[f]
      BY <2>2 DEF ReadOrWrite, Count
    <3> HIDE DEF way, c
    <3> QED BY <2>4, <3>1, <3>3, <3>4, <3>5
  <2>6. ASSUME NEW way \in Ways, AccessMissAlloc(way)
        PROVE  cnt'[f] # cnt[f]
    <3> DEFINE row == Row(CurAddr)
               line == FilledLine(CurAddr, KickedMem(way, row))
               d == [mem_reads |-> BlockSize, burst_reads |-> BlockSize - 1,
                     change_counter |-> BlockSize]
               k == KickedCnt(way, row)
               kd == Count(k, d)
               c == Count(kd, ReadOrWrite([miss_read |-> 1], [miss_write |-> 1]))
    <3>1. InAccess /\ Transfer(way, line, KickedStats(way, row), c)
      BY <2>6 DEF AccessMissAlloc
    <3>2. CurAddr \in Addr
      BY <2>1, <3>1, AccessFacts
    <3>3. row \in Rows
      BY <3>2, LocationFacts
    <3>4. KickedMem(way, row) \in [Addr -> Val] /\ k \in CntTypes
      BY <2>1, <3>3, KickTypes
    <3>5. line \in Lines
      BY <3>2, <3>4, FilledType
    <3>6. k[f] = IF cnt[f] + 1 < CounterModulus THEN cnt[f] + 1
                 ELSE (cnt[f] + 1) - CounterModulus
      BY <2>1, <2>2, CountAt DEF KickedCnt
    <3> HIDE DEF k
    <3>7. /\ kd \in CntTypes
          /\ kd[f] = IF k[f] + BlockSize < CounterModulus THEN k[f] + BlockSize
                     ELSE (k[f] + BlockSize) - CounterModulus
      <4>1. kd \in CntTypes
        BY <2>2, <3>4, CountType
      <4>2. d[f] = BlockSize /\ f \in DOMAIN d /\ BlockSize < CounterModulus
        BY <2>2
      <4> HIDE DEF d
      <4> QED BY <2>2, <3>4, <4>1, <4>2, CountAt
    <3> HIDE DEF kd, d
    <3>8. c \in CntTypes /\ c[f] = kd[f]
      <4>1. c \in CntTypes
        BY <3>7, CountType DEF ReadOrWrite
      <4>2. c[f] = kd[f]
        BY <2>2 DEF ReadOrWrite, Count
      <4> QED BY <4>1, <4>2
    <3> HIDE DEF c, line
    <3>9. cnt'[f] \in {c[f], c[f] + 1, (c[f] + 1) - CounterModulus}
      BY <2>4, <3>1, <3>5, <3>8
    <3> HIDE DEF f
    <3> QED BY <2>2, <3>6, <3>7, <3>8, <3>9
  <2>7. CASE FlushStep
    <3> DEFINE way == call.way
               row == call.row
    <3>1. dt[way][row].valid /\ cnt' = KickedCnt(way, row)
      BY <2>3, <2>7 DEF FlushStep
    <3>2. cnt'[f] = IF cnt[f] + 1 < CounterModulus THEN cnt[f] + 1
                    ELSE (cnt[f] + 1) - CounterModulus
      BY <2>1, <2>2, <3>1, CountAt DEF KickedCnt
    <3> HIDE DEF f
    <3> QED BY <2>2, <3>2
  <2>8. ASSUME NEW r \in Requests, NEW buf, WriteBypass(r, buf) \/ WriteStart(r, buf)
        PROVE  FALSE
    BY <2>3, <2>8 DEF WriteBypass, WriteStart
  <2>9. ASSUME NEW r, ReadBypass(r) \/ ReadStart(r) \/ ReadInternal(r)
        PROVE  FALSE
    BY <2>3, <2>9 DEF ReadBypass, ReadStart, ReadInternal
  <2>10. CASE AccessMissNoAlloc \/ WriteFinish \/ ReadFinish \/ FlushStart \/ FlushFinish
    BY <2>3, <2>10
       DEF AccessMissNoAlloc, WriteFinish, ReadFinish, FlushStart, FlushFinish
  <2>11. ASSUME NEW a, NEW v, DeviceChange(a, v)
         PROVE  FALSE
    BY <2>3, <2>11 DEF DeviceChange
  <2>12. CASE UNCHANGED vars
    BY <2>3, <2>12 DEF vars
  <2>13. ~Restart
    BY DEF Restart
  <2> QED
    BY <2>5, <2>6, <2>7, <2>8, <2>9, <2>10, <2>11, <2>12, <2>13 DEF Next, Access
<1> QED BY <1>1, InitInv, NextInv, PTL DEF Spec, ContentChangeCounted

-----------------------------------------------------------------------------
(* The cache implements FlatMemory, for every organisation, replacement     *)
(* policy, write policy and set of requests.                                *)

-----------------------------------------------------------------------------
(* What lines D and backing memory M hold at an address.                    *)

LineArrays == [Ways -> [Rows -> Lines]]

Hit(D, w, a) == D[w][Row(a)].valid /\ D[w][Row(a)].tag = Tag(a)

OneWay(D) ==
    \A row \in Rows : \A w1, w2 \in Ways :
        /\ D[w1][row].valid /\ D[w2][row].valid
        /\ D[w1][row].tag = D[w2][row].tag
        => w1 = w2

Held(D, M, a) ==
    IF \E w \in Ways : Hit(D, w, a)
    THEN D[CHOOSE w \in Ways : Hit(D, w, a)][Row(a)].data[Offset(a)]
    ELSE M[a]

\* ... and what the processor sees there during the call c
Seen(D, M, c, a) ==
    IF c.op = "write" /\ a \in Span(c) THEN c.buf[a - c.addr] ELSE Held(D, M, a)

LEMMA HeldHit ==
    ASSUME NEW D, OneWay(D), NEW M, NEW a \in Addr, NEW w \in Ways, Hit(D, w, a)
    PROVE  Held(D, M, a) = D[w][Row(a)].data[Offset(a)]
<1>1. Row(a) \in Rows
  BY LocationFacts
<1> DEFINE c == CHOOSE v \in Ways : Hit(D, v, a)
<1>2. c \in Ways /\ Hit(D, c, a)
  OBVIOUS
<1> HIDE DEF c
<1>3. c = w
  BY <1>1, <1>2 DEF OneWay, Hit
<1> QED BY <1>3 DEF Held, c

LEMMA HeldMiss ==
    ASSUME NEW D, NEW M, NEW a, \A w \in Ways : ~Hit(D, w, a)
    PROVE  Held(D, M, a) = M[a]
  BY DEF Held

\* The view of the refinement mapping in these terms.
ViewIsSeen == \A a \in Addr : View(a) = Seen(dt, mem, call, a)

LEMMA ViewSeen == Inv => ViewIsSeen
<1> SUFFICES ASSUME Inv, NEW a \in Addr PROVE View(a) = Seen(dt, mem, call, a)
  BY DEF ViewIsSeen
<1>1. OneWay(dt)
  BY DEF Inv, BlockInOneWay, OneWay
<1>2. CASE HitWays(a) # {}
  <2>1. FindBlockIndex(a) \in Ways /\ Hit(dt, FindBlockIndex(a), a)
    BY <1>2, HitUnique DEF Hit
  <2>2. Held(dt, mem, a) = dt[FindBlockIndex(a)][Row(a)].data[Offset(a)]
    BY <1>1, <2>1, HeldHit
  <2> QED BY <1>2, <2>2 DEF View, Seen
<1>3. CASE HitWays(a) = {}
  <2>1. \A w \in Ways : ~Hit(dt, w, a)
    BY <1>3 DEF HitWays, Hit
  <2>2. Held(dt, mem, a) = mem[a]
    BY <2>1, HeldMiss
  <2> QED BY <1>3, <2>2 DEF View, Seen
<1> QED BY <1>2, <1>3

\* An address lies in the block at a base address exactly when it has its tag
\* and row.
LEMMA InBlock ==
    ASSUME NEW t \in Nat, NEW row \in Rows, NEW a \in Addr
    PROVE  /\ CalcBaseAddress(t, row) \in Nat
           /\ a \in CalcBaseAddress(t, row) .. (CalcBaseAddress(t, row) + BlockBytes - 1)
                <=> Tag(a) = t /\ Row(a) = row
           /\ Tag(a) = t /\ Row(a) = row => a - CalcBaseAddress(t, row) = Offset(a)
<1> DEFINE b == CalcBaseAddress(t, row)
<1>0. 0 \in 0 .. (BlockBytes - 1) /\ BlockBytes \in Nat
  BY Sizes
<1>1. b \in Nat
  BY <1>0, BaseFacts
<1>2. a \in Nat
  BY Sizes DEF Addr
<1>3. ASSUME a \in b .. (b + BlockBytes - 1)
      PROVE  Tag(a) = t /\ Row(a) = row
  <2>1. a - b \in 0 .. (BlockBytes - 1) /\ b + (a - b) = a
    BY <1>0, <1>1, <1>2, <1>3
  <2> HIDE DEF b
  <2>2. Tag(b + (a - b)) = t /\ Row(b + (a - b)) = row
    BY <2>1, BaseFacts DEF b
  <2> QED BY <2>1, <2>2
<1>4. ASSUME Tag(a) = t, Row(a) = row
      PROVE  a \in b .. (b + BlockBytes - 1) /\ a - b = Offset(a)
  <2>1. Offset(a) \in 0 .. (BlockBytes - 1) /\ a = b + Offset(a)
    BY <1>4, LocationFacts
  <2> HIDE DEF b
  <2> QED BY <1>0, <1>1, <1>2, <2>1
<1> QED BY <1>1, <1>3, <1>4

-----------------------------------------------------------------------------
(* What the steps of a call do, byte by byte.                               *)

\* The bytes of a block, by their addresses.
LEMMA SameBlockBytes ==
    ASSUME NEW a \in Addr, NEW b \in Addr, SameBlock(a, b)
    PROVE  /\ a - b = Offset(a) - Offset(b)
           /\ CalcBaseAddress(Tag(b), Row(b)) + Offset(a) = a
<1>1. /\ a = CalcBaseAddress(Tag(b), Row(b)) + Offset(a)
      /\ b = CalcBaseAddress(Tag(b), Row(b)) + Offset(b)
      /\ CalcBaseAddress(Tag(b), Row(b)) \in Nat
      /\ Offset(a) \in 0 .. (BlockBytes - 1) /\ Offset(b) \in 0 .. (BlockBytes - 1)
  BY LocationFacts DEF SameBlock
<1> QED BY <1>1

LEMMA KickedMemAt ==
    ASSUME TypeOK, NEW way \in Ways, NEW row \in Rows, NEW a \in Addr
    PROVE  KickedMem(way, row)[a] =
             IF WritesBack(way, row) /\ Tag(a) = dt[way][row].tag /\ Row(a) = row
             THEN dt[way][row].data[Offset(a)] ELSE mem[a]
<1> DEFINE t == dt[way][row].tag
           b == CalcBaseAddress(t, row)
<1>1. t \in Nat
  BY DEF TypeOK, Lines
<1>2. /\ a \in b .. (b + BlockBytes - 1) <=> Tag(a) = t /\ Row(a) = row
      /\ Tag(a) = t /\ Row(a) = row => a - b = Offset(a)
  <2> HIDE DEF t
  <2> QED BY <1>1, InBlock
<1> QED BY <1>2 DEF KickedMem, MemWrite

LEMMA FilledAt ==
    ASSUME NEW c \in Addr, NEW m, NEW a \in Addr, SameBlock(a, c)
    PROVE  FilledLine(c, m).data[Offset(a)] = m[a]
<1> DEFINE b == CalcBaseAddress(Tag(c), Row(c))
<1>1. Offset(a) \in 0 .. (BlockBytes - 1) /\ b + Offset(a) = a
  BY SameBlockBytes, LocationFacts
<1> HIDE DEF b
<1> QED BY <1>1 DEF FilledLine, MemRead, b

\* The bytes this invocation of access() transfers.
Now == CurAddr .. (CurAddr + WithinBlock - 1)

LEMMA NowFacts ==
    ASSUME CallOK, InAccess
    PROVE  /\ Now \subseteq Addr /\ Now \subseteq Span(call) /\ CurAddr \in Now
           /\ \A a \in Now : SameBlock(a, CurAddr)
           /\ \A a \in Addr : SameBlock(a, CurAddr) =>
                 /\ a \in Now <=> Offset(a) \in Offset(CurAddr)
                                     .. (Offset(CurAddr) + WithinBlock - 1)
                 /\ call.done + Offset(a) - Offset(CurAddr) = a - call.addr
<1> DEFINE off == Offset(CurAddr)
           b == CalcBaseAddress(Tag(CurAddr), Row(CurAddr))
<1>1. /\ CurAddr \in Addr /\ call.addr \in Nat /\ call.size \in Nat /\ call.done \in Nat
      /\ WithinBlock \in Nat /\ WithinBlock > 0 /\ call.done + WithinBlock <= call.size
      /\ off + WithinBlock <= BlockBytes
  BY AccessFacts
<1>2. /\ off \in Nat /\ b \in Nat /\ CurAddr = b + off /\ BlockBytes \in Nat
      /\ Tag(CurAddr) \in Nat /\ Row(CurAddr) \in Rows
      /\ \A i \in 0 .. (BlockBytes - 1) : b + i \in Addr
  BY <1>1, LocationFacts, Sizes
<1> HIDE DEF off, b
<1>3. ASSUME NEW a \in Now PROVE a \in Addr /\ SameBlock(a, CurAddr)
  <2>1. a - b \in 0 .. (BlockBytes - 1) /\ b + (a - b) = a
    BY <1>1, <1>2, <1>3 DEF Now
  <2>2. Tag(b + (a - b)) = Tag(CurAddr) /\ Row(b + (a - b)) = Row(CurAddr)
    BY <1>2, <2>1, BaseFacts DEF b
  <2>3. b + (a - b) \in Addr
    BY <1>2, <2>1
  <2> QED BY <2>1, <2>2, <2>3 DEF SameBlock
<1>4. Now \subseteq Span(call) /\ CurAddr \in Now
  BY <1>1 DEF Now, Span, CurAddr
<1>5. ASSUME NEW a \in Addr, SameBlock(a, CurAddr)
      PROVE  /\ a \in Now <=> Offset(a) \in off .. (off + WithinBlock - 1)
             /\ call.done + Offset(a) - off = a - call.addr
  <2>1. a - CurAddr = Offset(a) - off /\ Offset(a) \in Nat /\ a \in Nat
    BY <1>1, <1>5, SameBlockBytes, LocationFacts, Sizes DEF off, Addr
  <2>2. CurAddr = call.addr + call.done
    BY DEF CurAddr
  <2>3. CurAddr \in Nat
    BY <1>1, <2>2
  <2> QED BY <1>1, <1>2, <2>1, <2>2, <2>3 DEF Now
<1> QED BY <1>3, <1>4, <1>5 DEF off

LEMMA NewLineAt ==
    ASSUME CallOK, InAccess, NEW line \in Lines, NEW a \in Addr, SameBlock(a, CurAddr)
    PROVE  NewLine(line).data[Offset(a)] =
             IF call.op = "write" /\ a \in Now THEN call.buf[a - call.addr]
             ELSE line.data[Offset(a)]
<1>1. Offset(a) \in 0 .. (BlockBytes - 1)
  BY LocationFacts
<1>2. /\ a \in Now <=> Offset(a) \in Offset(CurAddr)
                                     .. (Offset(CurAddr) + WithinBlock - 1)
      /\ call.done + Offset(a) - Offset(CurAddr) = a - call.addr
  BY NowFacts
<1>3. WrittenData(line)[Offset(a)] =
         IF a \in Now THEN call.buf[a - call.addr] ELSE line.data[Offset(a)]
  BY <1>1, <1>2 DEF WrittenData
<1>4. CASE call.op = "read"
  BY <1>4 DEF NewLine, ReadOrWrite
<1>5. CASE call.op = "write"
  <2>1. NewLine(line) = [line EXCEPT !.dirty = TRUE, !.data = WrittenData(line)]
    BY <1>5 DEF NewLine, ReadOrWrite
  <2>2. NewLine(line).data = WrittenData(line)
    BY <2>1 DEF Lines
  <2> QED BY <1>3, <1>5, <2>2
<1> QED BY <1>4, <1>5 DEF InAccess

LEMMA NewLineKeeps ==
    ASSUME InAccess, NEW line \in Lines
    PROVE  /\ NewLine(line).valid = line.valid /\ NewLine(line).tag = line.tag
           /\ call.op = "write" => NewLine(line).dirty
           /\ call.op = "read" => NewLine(line) = line
<1>1. CASE call.op = "read"
  BY <1>1 DEF NewLine, ReadOrWrite
<1>2. CASE call.op = "write"
  <2>1. NewLine(line) = [line EXCEPT !.dirty = TRUE, !.data = WrittenData(line)]
    BY <1>2 DEF NewLine, ReadOrWrite
  <2> HIDE DEF WrittenData
  <2> QED BY <1>2, <2>1 DEF Lines
<1> QED BY <1>1, <1>2 DEF InAccess

-----------------------------------------------------------------------------
(* The inductive invariant.                                                 *)

HasHit(D, a) == \E w \in Ways : Hit(D, w, a)

\* The bytes the write in progress has transferred.  A write-through cache
\* brings them to memory only at the end, in WriteFinish.
InDone(c, a) == c.op = "write" /\ a \in c.addr .. (c.addr + c.done - 1)
Pending(c, a) == WritePolicy # "WP_BACK" /\ InDone(c, a)

\* Only blocks of cached accesses are in the cache.
FromCached(D) ==
    \A w \in Ways, row \in Rows : D[w][row].valid =>
        \E b \in CachedAddrs : D[w][row].tag = Tag(b) /\ row = Row(b)

\* kick() writes back no line that was dirty in an earlier life.
InvalidClean(D) ==
    WritePolicy = "WP_BACK" =>
        \A w \in Ways, row \in Rows : ~D[w][row].valid => ~D[w][row].dirty

\* A byte of a line that will not be written back is in memory too, unless the
\* end of the write in progress will bring it there.
CleanAgrees(D, M, c) ==
    \A a \in Addr, w \in Ways :
        /\ Hit(D, w, a)
        /\ ~(D[w][Row(a)].dirty /\ WritePolicy = "WP_BACK")
        /\ ~Pending(c, a)
        => D[w][Row(a)].data[Offset(a)] = M[a]

\* A transferred byte is where the processor will look for it; only a
\* write-through cache may have dropped it from the cache already.
DoneHeld(D, M, c) ==
    \A a \in Addr : InDone(c, a) /\ (HasHit(D, a) \/ WritePolicy = "WP_BACK")
                    => Held(D, M, a) = c.buf[a - c.addr]

\* All invocations of access() but the first start at a block boundary.
Aligned == InAccess /\ call.done > 0 => Offset(CurAddr) = 0

\* A read has collected what the cache and memory still hold.
ReadHeld(D, M, c) ==
    c.op = "read" => \A i \in 0 .. (c.done - 1) : c.buf[i] = Held(D, M, c.addr + i)

\* The parts that are about lines D and memory M during a call c.
Sound(D, M, c) == /\ D \in LineArrays /\ OneWay(D)
                  /\ FromCached(D) /\ InvalidClean(D) /\ CleanAgrees(D, M, c)

TInv == /\ Inv /\ Sound(dt, mem, call)
        /\ DoneHeld(dt, mem, call) /\ Aligned /\ ReadHeld(dt, mem, call)

-----------------------------------------------------------------------------
(* The three things access() and flush() do with a line: kick it, fill it,  *)
(* transfer the bytes of the call.                                          *)

\* The block of a line that is written back is the line's own: no other way
\* holds it.
LEMMA KickMem ==
    ASSUME TypeOK, Sound(dt, mem, call), NEW way \in Ways, NEW row \in Rows,
           NEW a \in Addr, ~Hit(dt, way, a) \/ Row(a) # row \/ ~WritesBack(way, row)
    PROVE  KickedMem(way, row)[a] = mem[a]
<1>1. SUFFICES ASSUME WritesBack(way, row), Tag(a) = dt[way][row].tag, Row(a) = row
               PROVE  FALSE
  BY KickedMemAt
<1>2. dt[way][row].valid
  BY <1>1 DEF Sound, InvalidClean, WritesBack
<1> QED BY <1>1, <1>2 DEF Hit

LEMMA KickKeeps ==
    ASSUME TypeOK, Sound(dt, mem, call), NEW way \in Ways, NEW row \in Rows,
           NEW D, D = [dt EXCEPT ![way][row] = KickedLine(way, row)],
           NEW M, M = KickedMem(way, row)
    PROVE  /\ Sound(D, M, call)
           /\ \A a \in Addr :
                 /\ HasHit(D, a) => HasHit(dt, a) /\ Held(D, M, a) = Held(dt, mem, a)
                 /\ ~Pending(call, a) => Held(D, M, a) = Held(dt, mem, a)
<1> DEFINE k == KickedLine(way, row)
<1>1. dt \in LineArrays /\ dt[way][row] \in Lines /\ OneWay(dt)
  BY DEF Sound, LineArrays
<1>2. k \in Lines /\ ~k.valid /\ ~k.dirty
  BY <1>1 DEF KickedLine, Lines
<1> HIDE DEF k
<1>3. \A w \in Ways, r \in Rows :
         D[w][r] = IF w = way /\ r = row THEN k ELSE dt[w][r]
  BY <1>1 DEF LineArrays, k
<1>4. D \in LineArrays
  BY <1>1, <1>2 DEF LineArrays, k
<1>5. OneWay(D) /\ FromCached(D) /\ InvalidClean(D)
  BY <1>2, <1>3 DEF Sound, OneWay, FromCached, InvalidClean
<1>6. ASSUME NEW a \in Addr, NEW w \in Ways, Hit(D, w, a)
      PROVE  Hit(dt, w, a) /\ D[w][Row(a)] = dt[w][Row(a)] /\ M[a] = mem[a]
  <2>1. Row(a) \in Rows
    BY LocationFacts
  <2>2. ~(w = way /\ Row(a) = row)
    BY <1>2, <1>3, <1>6, <2>1 DEF Hit
  <2>3. D[w][Row(a)] = dt[w][Row(a)]
    BY <1>3, <2>1, <2>2
  <2>4. Hit(dt, w, a)
    BY <1>6, <2>3 DEF Hit
  <2>5. ~Hit(dt, way, a) \/ Row(a) # row
    BY <1>1, <2>1, <2>2, <2>4 DEF Hit, OneWay
  <2> QED BY <2>3, <2>4, <2>5, KickMem
<1>7. CleanAgrees(D, M, call)
  BY <1>6 DEF Sound, CleanAgrees
<1>8. ASSUME NEW a \in Addr, HasHit(D, a)
      PROVE  HasHit(dt, a) /\ Held(D, M, a) = Held(dt, mem, a)
  <2>1. PICK w \in Ways : Hit(D, w, a)
    BY <1>8 DEF HasHit
  <2>2. Hit(dt, w, a) /\ D[w][Row(a)] = dt[w][Row(a)]
    BY <1>6, <2>1
  <2>3. Held(D, M, a) = D[w][Row(a)].data[Offset(a)]
    BY <1>5, <2>1, HeldHit
  <2>4. Held(dt, mem, a) = dt[w][Row(a)].data[Offset(a)]
    BY <1>1, <2>2, HeldHit
  <2> QED BY <2>2, <2>3, <2>4 DEF HasHit
<1>9. ASSUME NEW a \in Addr, ~HasHit(D, a), ~Pending(call, a)
      PROVE  Held(D, M, a) = Held(dt, mem, a)
  <2>1. Held(D, M, a) = M[a]
    BY <1>9, HeldMiss DEF HasHit
  <2>2. Row(a) \in Rows
    BY LocationFacts
  <2>3. CASE HasHit(dt, a)
    <3>1. PICK w \in Ways : Hit(dt, w, a)
      BY <2>3 DEF HasHit
    <3>2. w = way /\ Row(a) = row
      BY <1>3, <1>9, <2>2, <3>1 DEF HasHit, Hit
    <3>3. Held(dt, mem, a) = dt[way][row].data[Offset(a)]
      BY <1>1, <3>1, <3>2, HeldHit
    <3>4. CASE WritesBack(way, row)
      BY <2>1, <3>1, <3>2, <3>3, <3>4, KickedMemAt DEF Hit
    <3>5. CASE ~WritesBack(way, row)
      <4>1. M[a] = mem[a]
        BY <3>5, KickMem
      <4>2. dt[way][row].data[Offset(a)] = mem[a]
        BY <1>9, <3>1, <3>2, <3>5 DEF Sound, CleanAgrees, WritesBack
      <4> QED BY <2>1, <3>3, <4>1, <4>2
    <3> QED BY <3>4, <3>5
  <2>4. CASE ~HasHit(dt, a)
    <3>1. Held(dt, mem, a) = mem[a]
      BY <2>4, HeldMiss DEF HasHit
    <3>2. M[a] = mem[a]
      BY <2>4, KickMem DEF HasHit
    <3> QED BY <2>1, <3>1, <3>2
  <2> QED BY <2>3, <2>4
<1> QED BY <1>4, <1>5, <1>7, <1>8, <1>9 DEF Sound

\* Filling an invalid line with a block that no way holds shows the processor
\* what it saw before.
LEMMA FillKeeps ==
    ASSUME NEW D, NEW M \in [Addr -> Val], NEW c, Sound(D, M, c),
           NEW b \in Addr, b \in CachedAddrs, NEW way \in Ways,
           ~D[way][Row(b)].valid, ~HasHit(D, b),
           NEW D2 \in LineArrays,
           \A w \in Ways, r \in Rows :
              D2[w][r] = IF w = way /\ r = Row(b) THEN FilledLine(b, M) ELSE D[w][r]
    PROVE  /\ Sound(D2, M, c) /\ Hit(D2, way, b)
           /\ \A a \in Addr : /\ Held(D2, M, a) = Held(D, M, a)
                              /\ HasHit(D2, a) => HasHit(D, a) \/ SameBlock(a, b)
<1> DEFINE row == Row(b)
           f == FilledLine(b, M)
<1>1. D \in LineArrays /\ OneWay(D) /\ row \in Rows
  BY LocationFacts DEF Sound
<1>2. f \in Lines /\ f.valid /\ ~f.dirty /\ f.tag = Tag(b)
  BY FilledType DEF FilledLine
<1> HIDE DEF f
<1>3. \A w \in Ways, r \in Rows :
         D2[w][r] = IF w = way /\ r = row THEN f ELSE D[w][r]
  BY DEF f
<1>5. FromCached(D2) /\ InvalidClean(D2)
  BY <1>2, <1>3 DEF Sound, FromCached, InvalidClean
<1> HIDE DEF row
<1>6. \A w \in Ways : ~(D[w][row].valid /\ D[w][row].tag = Tag(b))
  BY DEF HasHit, Hit, row
<1>7. OneWay(D2)
  BY <1>1, <1>2, <1>3, <1>6 DEF OneWay
<1>8. ASSUME NEW a \in Addr, NEW w \in Ways, Hit(D2, w, a)
      PROVE  \/ w = way /\ SameBlock(a, b) /\ D2[w][Row(a)] = f
             \/ Hit(D, w, a) /\ D2[w][Row(a)] = D[w][Row(a)]
  <2>1. Row(a) \in Rows
    BY LocationFacts
  <2>2. CASE w = way /\ Row(a) = row
    BY <1>2, <1>3, <1>8, <2>1, <2>2 DEF Hit, SameBlock, row
  <2>3. CASE ~(w = way /\ Row(a) = row)
    BY <1>3, <1>8, <2>1, <2>3 DEF Hit
  <2> QED BY <2>2, <2>3
<1>9. ASSUME NEW a \in Addr, SameBlock(a, b)
      PROVE  Hit(D2, way, a) /\ f.data[Offset(a)] = M[a] /\ ~HasHit(D, a)
  <2>1. Row(a) = row /\ Tag(a) = Tag(b)
    BY <1>9 DEF SameBlock, row
  <2>2. Hit(D2, way, a)
    BY <1>1, <1>2, <1>3, <2>1 DEF Hit
  <2>3. ~HasHit(D, a)
    BY <1>6, <2>1 DEF HasHit, Hit
  <2> QED BY <1>9, <2>2, <2>3, FilledAt DEF f
<1>10. CleanAgrees(D2, M, c)
  <2> SUFFICES ASSUME NEW a \in Addr, NEW w \in Ways, Hit(D2, w, a),
                      ~(D2[w][Row(a)].dirty /\ WritePolicy = "WP_BACK"),
                      ~Pending(c, a)
               PROVE  D2[w][Row(a)].data[Offset(a)] = M[a]
    BY DEF CleanAgrees
  <2>1. CASE SameBlock(a, b) /\ D2[w][Row(a)] = f
    BY <1>9, <2>1
  <2>2. CASE Hit(D, w, a) /\ D2[w][Row(a)] = D[w][Row(a)]
    BY <2>2 DEF Sound, CleanAgrees
  <2> QED BY <1>8, <2>1, <2>2
<1>11. ASSUME NEW a \in Addr
       PROVE  /\ Held(D2, M, a) = Held(D, M, a)
              /\ HasHit(D2, a) => HasHit(D, a) \/ SameBlock(a, b)
  <2>1. HasHit(D2, a) => HasHit(D, a) \/ SameBlock(a, b)
    BY <1>8 DEF HasHit
  <2>2. CASE SameBlock(a, b)
    <3>1. D2[way][Row(a)] = f
      BY <1>1, <1>3, <2>2 DEF SameBlock, row
    <3>2. Hit(D2, way, a)
      BY <1>9, <2>2
    <3>3. Held(D2, M, a) = D2[way][Row(a)].data[Offset(a)]
      BY <1>7, <3>2, HeldHit
    <3>4. Held(D, M, a) = M[a]
      BY <1>9, <2>2, HeldMiss DEF HasHit
    <3> QED BY <1>9, <2>1, <2>2, <3>1, <3>3, <3>4
  <2>3. CASE ~SameBlock(a, b) /\ HasHit(D2, a)
    <3>1. PICK w \in Ways : Hit(D2, w, a)
      BY <2>3 DEF HasHit
    <3>2. Hit(D, w, a) /\ D2[w][Row(a)] = D[w][Row(a)]
      BY <1>8, <2>3, <3>1
    <3>3. Held(D2, M, a) = D2[w][Row(a)].data[Offset(a)]
      BY <1>7, <3>1, HeldHit
    <3>4. Held(D, M, a) = D[w][Row(a)].data[Offset(a)]
      BY <1>1, <3>2, HeldHit
    <3> QED BY <2>1, <3>2, <3>3, <3>4
  <2>4. CASE ~SameBlock(a, b) /\ ~HasHit(D2, a)
    <3>1. ASSUME NEW w \in Ways, Hit(D, w, a) PROVE FALSE
      <4>1. Row(a) \in Rows
        BY LocationFacts
      <4>2. ~(w = way /\ Row(a) = row)
        BY <3>1 DEF Hit, row
      <4>3. D2[w][Row(a)] = D[w][Row(a)]
        BY <1>3, <4>1, <4>2
      <4> QED BY <2>4, <3>1, <4>3 DEF Hit, HasHit
    <3>2. Held(D2, M, a) = M[a] /\ Held(D, M, a) = M[a]
      BY <2>4, <3>1, HeldMiss DEF HasHit
    <3> QED BY <2>1, <3>2
  <2> QED BY <2>2, <2>3, <2>4
<1>12. Hit(D2, way, b)
  BY <1>9 DEF SameBlock
<1> QED BY <1>5, <1>7, <1>10, <1>11, <1>12 DEF Sound

\* The end of access() changes, for the processor, the bytes it writes.
LEMMA TransferKeeps ==
    ASSUME CallOK, InAccess, NEW D, NEW M, Sound(D, M, call),
           NEW way \in Ways, Hit(D, way, CurAddr),
           NEW D2 \in LineArrays,
           \A w \in Ways, r \in Rows :
              D2[w][r] = IF w = way /\ r = Row(CurAddr)
                         THEN NewLine(D[way][Row(CurAddr)]) ELSE D[w][r],
           NEW c, c.op = call.op, c.addr = call.addr,
           c.done = call.done + WithinBlock
    PROVE  /\ Sound(D2, M, c)
           /\ \A a \in Addr :
                 /\ HasHit(D2, a) <=> HasHit(D, a)
                 /\ Held(D2, M, a) = IF call.op = "write" /\ a \in Now
                                     THEN call.buf[a - call.addr] ELSE Held(D, M, a)
<1> DEFINE row == Row(CurAddr)
           l == D[way][row]
           n == NewLine(l)
<1>0. /\ CurAddr \in Addr /\ call.addr \in Nat /\ call.done \in Nat
      /\ WithinBlock \in Nat
  BY AccessFacts
<1>1. D \in LineArrays /\ OneWay(D) /\ row \in Rows
  BY <1>0, LocationFacts DEF Sound
<1>2. l \in Lines /\ l.valid /\ l.tag = Tag(CurAddr)
  BY <1>1 DEF LineArrays, Hit
<1> HIDE DEF l
<1>3. /\ n.valid = l.valid /\ n.tag = l.tag /\ (call.op = "write" => n.dirty)
      /\ call.op = "read" => n = l
  BY <1>2, NewLineKeeps
<1> HIDE DEF n
<1>4. \A w \in Ways, r \in Rows :
         D2[w][r] = IF w = way /\ r = row THEN n ELSE D[w][r]
  BY DEF l, n
<1>5. \A w \in Ways, r \in Rows :
         D2[w][r].valid = D[w][r].valid /\ D2[w][r].tag = D[w][r].tag
  BY <1>3, <1>4 DEF l
<1>6. OneWay(D2) /\ FromCached(D2)
  BY <1>1, <1>5 DEF Sound, OneWay, FromCached
<1>7. InvalidClean(D2)
  <2>1. n.valid
    BY <1>2, <1>3
  <2> QED BY <1>4, <2>1 DEF Sound, InvalidClean
<1>8. ASSUME NEW a \in Addr, NEW w \in Ways
      PROVE  Hit(D2, w, a) <=> Hit(D, w, a)
  <2>1. Row(a) \in Rows
    BY LocationFacts
  <2> QED BY <1>5, <2>1 DEF Hit
<1>9. ASSUME NEW a \in Addr, NEW w \in Ways, Hit(D, w, a)
      PROVE  IF SameBlock(a, CurAddr)
             THEN w = way /\ D2[w][Row(a)] = n /\ D[w][Row(a)] = l
             ELSE D2[w][Row(a)] = D[w][Row(a)]
  <2>1. Row(a) \in Rows
    BY LocationFacts
  <2>2. CASE SameBlock(a, CurAddr)
    <3>1. Row(a) = row /\ D[w][row].valid /\ D[w][row].tag = Tag(CurAddr)
      BY <1>9, <2>2 DEF SameBlock, Hit
    <3>2. w = way
      BY <1>1, <1>2, <3>1 DEF OneWay, l
    <3> QED BY <1>4, <2>1, <2>2, <3>1, <3>2 DEF l
  <2>3. CASE ~SameBlock(a, CurAddr)
    <3>1. ~(w = way /\ Row(a) = row)
      BY <1>2, <1>9, <2>3 DEF Hit, SameBlock, l
    <3> QED BY <1>4, <2>1, <2>3, <3>1
  <2> QED BY <2>2, <2>3
<1>10. ASSUME NEW a \in Addr, SameBlock(a, CurAddr)
       PROVE  n.data[Offset(a)] = IF call.op = "write" /\ a \in Now
                                  THEN call.buf[a - call.addr] ELSE l.data[Offset(a)]
  BY <1>2, <1>10, NewLineAt DEF n
<1>11. \A a \in Now : SameBlock(a, CurAddr)
  BY NowFacts
<1>12. \A a : InDone(c, a) <=> InDone(call, a) \/ (call.op = "write" /\ a \in Now)
  <2>1. ASSUME NEW a
        PROVE  a \in call.addr .. (call.addr + (call.done + WithinBlock) - 1)
                 <=> \/ a \in call.addr .. (call.addr + call.done - 1)
                     \/ a \in (call.addr + call.done)
                                .. (call.addr + call.done + WithinBlock - 1)
    BY <1>0
  <2> QED BY <2>1 DEF InDone, Now, CurAddr
<1>13. CleanAgrees(D2, M, c)
  <2> SUFFICES ASSUME NEW a \in Addr, NEW w \in Ways, Hit(D2, w, a),
                      ~(D2[w][Row(a)].dirty /\ WritePolicy = "WP_BACK"),
                      ~Pending(c, a)
               PROVE  D2[w][Row(a)].data[Offset(a)] = M[a]
    BY DEF CleanAgrees
  <2>1. Hit(D, w, a) /\ ~Pending(call, a)
    BY <1>8, <1>12 DEF Pending
  <2>2. CASE ~SameBlock(a, CurAddr)
    <3>1. D2[w][Row(a)] = D[w][Row(a)]
      BY <1>9, <2>1, <2>2
    <3> QED BY <2>1, <3>1 DEF Sound, CleanAgrees
  <2>3. CASE SameBlock(a, CurAddr)
    <3>1. D2[w][Row(a)] = n /\ D[w][Row(a)] = l
      BY <1>9, <2>1, <2>3
    <3>2. CASE call.op = "write"
      <4>1. WritePolicy # "WP_BACK"
        BY <1>3, <3>1, <3>2
      <4>2. a \notin Now
        BY <1>12, <3>2, <4>1 DEF Pending
      <4>3. n.data[Offset(a)] = l.data[Offset(a)]
        BY <1>10, <2>3, <4>2
      <4> QED BY <2>1, <3>1, <4>1, <4>3 DEF Sound, CleanAgrees
    <3>3. CASE call.op = "read"
      BY <1>3, <2>1, <3>1, <3>3 DEF Sound, CleanAgrees
    <3> QED BY <3>2, <3>3 DEF InAccess
  <2> QED BY <2>2, <2>3
<1>14. ASSUME NEW a \in Addr
       PROVE  /\ HasHit(D2, a) <=> HasHit(D, a)
              /\ Held(D2, M, a) = IF call.op = "write" /\ a \in Now
                                  THEN call.buf[a - call.addr] ELSE Held(D, M, a)
  <2>1. HasHit(D2, a) <=> HasHit(D, a)
    BY <1>8 DEF HasHit
  <2>2. CASE ~HasHit(D, a)
    <3>1. Held(D2, M, a) = M[a] /\ Held(D, M, a) = M[a]
      BY <2>1, <2>2, HeldMiss DEF HasHit
    <3>2. ~SameBlock(a, CurAddr)
      BY <2>2 DEF SameBlock, HasHit, Hit
    <3>3. a \notin Now
      BY <1>11, <3>2
    <3> QED BY <2>1, <3>1, <3>3
  <2>3. CASE HasHit(D, a)
    <3>1. PICK w \in Ways : Hit(D, w, a)
      BY <2>3 DEF HasHit
    <3>2. Held(D, M, a) = D[w][Row(a)].data[Offset(a)]
      BY <1>1, <3>1, HeldHit
    <3>3. Hit(D2, w, a)
      BY <1>8, <3>1
    <3>4. Held(D2, M, a) = D2[w][Row(a)].data[Offset(a)]
      BY <1>6, <3>3, HeldHit
    <3>5. CASE SameBlock(a, CurAddr)
      BY <1>9, <1>10, <2>1, <3>1, <3>2, <3>4, <3>5
    <3>6. CASE ~SameBlock(a, CurAddr)
      BY <1>9, <1>11, <2>1, <3>1, <3>2, <3>4, <3>6
    <3> QED BY <3>5, <3>6
  <2> QED BY <2>2, <2>3
<1> QED BY <1>6, <1>7, <1>13, <1>14 DEF Sound

\* The bytes already transferred are not in the block access() is at.
LEMMA DoneElsewhere ==
    ASSUME CallOK, InAccess, Aligned, NEW a \in Addr, InDone(call, a)
    PROVE  ~SameBlock(a, CurAddr)
<1>1. CurAddr \in Addr /\ call.addr \in Nat /\ call.done \in Nat
  BY AccessFacts
<1>2. /\ Offset(CurAddr) \in 0 .. (BlockBytes - 1) /\ Offset(a) \in 0 .. (BlockBytes - 1)
      /\ BlockBytes \in Nat /\ a \in Nat
  BY <1>1, LocationFacts, Sizes DEF Addr
<1>3. a \in call.addr .. (call.addr + call.done - 1) /\ CurAddr = call.addr + call.done
  BY DEF InDone, CurAddr
<1>4. a < CurAddr /\ call.done > 0
  BY <1>1, <1>2, <1>3
<1>5. Offset(CurAddr) = 0
  BY <1>4 DEF Aligned
<1>6. SUFFICES ASSUME SameBlock(a, CurAddr) PROVE FALSE
  OBVIOUS
<1>7. a - CurAddr = Offset(a) - Offset(CurAddr)
  BY <1>1, <1>6, SameBlockBytes
<1>8. CurAddr \in Nat
  BY <1>1, <1>3
<1> QED BY <1>2, <1>4, <1>5, <1>7, <1>8

-----------------------------------------------------------------------------
(* One invocation of access(), whichever way it takes.                      *)

Effect ==
    /\ Sound(dt', mem', call')
    /\ \A a \in Addr :
          /\ call.op = "write" /\ a \in Now /\ (HasHit(dt', a) \/ WritePolicy = "WP_BACK")
                => Held(dt', mem', a) = call.buf[a - call.addr]
          /\ ~(call.op = "write" /\ a \in Now) /\ (~Pending(call, a) \/ HasHit(dt', a))
                => Held(dt', mem', a) = Held(dt, mem, a)
          /\ HasHit(dt', a) => HasHit(dt, a) \/ SameBlock(a, CurAddr)
    /\ call'.op = call.op /\ call'.addr = call.addr /\ call'.size = call.size
    /\ call'.done = call.done + WithinBlock
    /\ call.op = "write" => call'.buf = call.buf
    /\ call.op = "read" => \A i \in 0 .. (call.done + WithinBlock - 1) :
          call'.buf[i] = IF i < call.done THEN call.buf[i]
                         ELSE Held(dt', mem', call.addr + i)

\* What Transfer leaves in the call.
LEMMA TransferCall ==
    ASSUME CallOK, InAccess, NEW way \in Ways, NEW line \in Lines, NEW st, NEW c,
           Transfer(way, line, st, c)
    PROVE  /\ call'.op = call.op /\ call'.addr = call.addr /\ call'.size = call.size
           /\ call'.done = call.done + WithinBlock
           /\ call.op = "write" => call'.buf = call.buf
           /\ call.op = "read" => \A i \in 0 .. (call.done + WithinBlock - 1) :
                 call'.buf[i] = IF i < call.done THEN call.buf[i]
                                ELSE line.data[Offset(call.addr + i)]
<1> DEFINE off == Offset(CurAddr)
           rbuf == [i \in 0 .. (call.done + WithinBlock - 1) |->
                        IF i < call.done THEN call.buf[i]
                        ELSE line.data[off + i - call.done]]
<1>1. PICK r \in Cached : call \in AccessCalls(r, call.done)
  BY AccessCall DEF InAccess
<1>2. call' = [call EXCEPT !.done = @ + WithinBlock, !.buf = ReadOrWrite(rbuf, @)]
  BY DEF Transfer
<1>3. ASSUME NEW i \in 0 .. (call.done + WithinBlock - 1), ~(i < call.done)
      PROVE  off + i - call.done = Offset(call.addr + i)
  <2>1. /\ call.addr \in Nat /\ call.done \in Nat /\ WithinBlock \in Nat
        /\ CurAddr \in Addr
    BY AccessFacts
  <2>2. call.addr + i \in Now
    BY <1>3, <2>1 DEF Now, CurAddr
  <2>3. call.addr + i \in Addr /\ SameBlock(call.addr + i, CurAddr)
    BY <2>2, NowFacts
  <2>4. (call.addr + i) - CurAddr = Offset(call.addr + i) - off
    BY <2>1, <2>3, SameBlockBytes
  <2>5. off \in Nat /\ Offset(call.addr + i) \in Nat
    <3> DEFINE a == call.addr + i
    <3>1. a \in Addr
      BY <2>3
    <3> HIDE DEF a
    <3>2. Offset(a) \in 0 .. (BlockBytes - 1) /\ off \in 0 .. (BlockBytes - 1)
      BY <2>1, <3>1, LocationFacts
    <3>3. Offset(a) \in Nat /\ off \in Nat
      <4> HIDE DEF off
      <4> QED BY <3>2, Sizes
    <3> QED BY <3>3 DEF a
  <2>6. CurAddr = call.addr + call.done
    BY DEF CurAddr
  <2> HIDE DEF off
  <2> QED BY <1>3, <2>1, <2>4, <2>5, <2>6
<1>4. CASE call.op = "write"
  <2> HIDE DEF rbuf
  <2>1. call' = [call EXCEPT !.done = @ + WithinBlock]
    BY <1>1, <1>2, <1>4 DEF ReadOrWrite, AccessCalls
  <2> QED BY <1>1, <1>4, <2>1 DEF AccessCalls
<1>5. CASE call.op = "read"
  <2>1. \A i \in 0 .. (call.done + WithinBlock - 1) :
           rbuf[i] = IF i < call.done THEN call.buf[i]
                     ELSE line.data[Offset(call.addr + i)]
    BY <1>3
  <2> HIDE DEF rbuf
  <2>2. call' = [call EXCEPT !.done = @ + WithinBlock, !.buf = rbuf]
    BY <1>2, <1>5 DEF ReadOrWrite
  <2>3. /\ call'.op = call.op /\ call'.addr = call.addr /\ call'.size = call.size
        /\ call'.done = call.done + WithinBlock /\ call'.buf = rbuf
    BY <1>1, <1>5, <2>2 DEF AccessCalls
  <2> QED BY <1>5, <2>1, <2>3
<1> QED BY <1>4, <1>5 DEF InAccess

\* From the lines D and memory M that Transfer starts from to Effect.
LEMMA TransferEffect ==
    ASSUME TInv, InAccess, NEW D, Sound(D, mem', call),
           NEW way \in Ways, Hit(D, way, CurAddr), NEW st, NEW c,
           Transfer(way, D[way][Row(CurAddr)], st, c),
           dt' \in LineArrays,
           \A w \in Ways, r \in Rows :
              ~(w = way /\ r = Row(CurAddr)) => D[w][r] = dt[w][r],
           \A a \in Addr :
              /\ ~Pending(call, a) \/ HasHit(D, a)
                    => Held(D, mem', a) = Held(dt, mem, a)
              /\ HasHit(D, a) => HasHit(dt, a) \/ SameBlock(a, CurAddr)
    PROVE  Effect
<1> DEFINE row == Row(CurAddr)
           l == D[way][row]
<1>0. CallOK /\ dt \in LineArrays
  BY DEF TInv, Inv, TypeOK, Sound
<1>1. /\ CurAddr \in Addr /\ call.addr \in Nat /\ call.done \in Nat
      /\ WithinBlock \in Nat
  BY <1>0, AccessFacts
<1>2. row \in Rows /\ l \in Lines /\ OneWay(D)
  BY <1>1, LocationFacts DEF Sound, LineArrays
<1>3. /\ call'.op = call.op /\ call'.addr = call.addr /\ call'.size = call.size
      /\ call'.done = call.done + WithinBlock
      /\ call.op = "write" => call'.buf = call.buf
      /\ call.op = "read" => \A i \in 0 .. (call.done + WithinBlock - 1) :
            call'.buf[i] = IF i < call.done THEN call.buf[i]
                           ELSE l.data[Offset(call.addr + i)]
  BY <1>0, <1>2, TransferCall
<1>4. dt' = [dt EXCEPT ![way][row] = NewLine(l)]
  BY DEF Transfer
<1>5. \A w \in Ways, r \in Rows :
         dt'[w][r] = IF w = way /\ r = row THEN NewLine(l) ELSE D[w][r]
  <2> HIDE DEF l, row
  <2> QED BY <1>0, <1>2, <1>4 DEF LineArrays, row
<1>6. /\ Sound(dt', mem', call')
      /\ \A a \in Addr :
            /\ HasHit(dt', a) <=> HasHit(D, a)
            /\ Held(dt', mem', a) = IF call.op = "write" /\ a \in Now
                                    THEN call.buf[a - call.addr] ELSE Held(D, mem', a)
  <2>1. \A w \in Ways, r \in Rows :
           dt'[w][r] = IF w = way /\ r = Row(CurAddr)
                       THEN NewLine(D[way][Row(CurAddr)]) ELSE D[w][r]
    BY <1>5
  <2> QED BY <1>0, <1>3, <2>1, TransferKeeps
<1>7. ASSUME call.op = "read", NEW i \in 0 .. (call.done + WithinBlock - 1)
      PROVE  call'.buf[i] = IF i < call.done THEN call.buf[i]
                            ELSE Held(dt', mem', call.addr + i)
  <2>1. CASE i < call.done
    BY <1>3, <1>7, <2>1
  <2>2. CASE ~(i < call.done)
    <3>1. call.addr + i \in Now
      BY <1>1, <2>2 DEF Now, CurAddr
    <3>2. call.addr + i \in Addr /\ SameBlock(call.addr + i, CurAddr)
      BY <1>0, <3>1, NowFacts
    <3>3. Hit(D, way, call.addr + i) /\ Row(call.addr + i) = row
      BY <3>2 DEF Hit, SameBlock
    <3>4. Held(D, mem', call.addr + i) = l.data[Offset(call.addr + i)]
      BY <1>2, <3>2, <3>3, HeldHit
    <3>5. Held(dt', mem', call.addr + i) = Held(D, mem', call.addr + i)
      BY <1>6, <1>7, <3>2
    <3> QED BY <1>3, <1>7, <2>2, <3>4, <3>5
  <2> QED BY <2>1, <2>2
<1>8. ASSUME NEW a \in Addr
      PROVE  /\ call.op = "write" /\ a \in Now => Held(dt', mem', a) = call.buf[a - call.addr]
             /\ ~(call.op = "write" /\ a \in Now) /\ (~Pending(call, a) \/ HasHit(dt', a))
                   => Held(dt', mem', a) = Held(dt, mem, a)
             /\ HasHit(dt', a) => HasHit(dt, a) \/ SameBlock(a, CurAddr)
  BY <1>6
<1> QED BY <1>3, <1>6, <1>7, <1>8 DEF Effect

LEMMA HitEffect == TInv /\ AccessHit => Effect
<1> SUFFICES ASSUME TInv, AccessHit PROVE Effect
  OBVIOUS
<1> DEFINE way == FindBlockIndex(CurAddr)
           c == Count(cnt, ReadOrWrite([hit_read |-> 1], [hit_write |-> 1]))
<1>1. /\ InAccess /\ HitWays(CurAddr) # {} /\ mem' = mem
      /\ Transfer(way, dt[way][Row(CurAddr)], stats, c)
  BY DEF AccessHit
<1>2. Inv /\ CallOK /\ Sound(dt, mem, call)
  BY DEF TInv, Inv, TypeOK
<1>3. CurAddr \in Addr
  BY <1>1, <1>2, AccessFacts
<1>4. way \in Ways /\ Hit(dt, way, CurAddr)
  BY <1>1, <1>2, <1>3, HitUnique DEF Hit
<1>5. dt' \in LineArrays
  <2>1. dt[way][Row(CurAddr)] \in Lines
    BY <1>2, <1>3, <1>4, LocationFacts DEF Sound, LineArrays
  <2>2. c \in CntTypes
    <3>1. cnt \in CntTypes
      BY <1>2 DEF Inv, TypeOK, CntTypes
    <3> QED BY <3>1, CountType DEF ReadOrWrite
  <2> HIDE DEF way, c
  <2> QED BY <1>1, <1>2, <1>4, <2>1, <2>2, TransferType DEF LineArrays, Inv, TypeOK
<1> HIDE DEF way, c
<1>6. Sound(dt, mem', call)
  BY <1>1, <1>2
<1>7. \A a \in Addr : Held(dt, mem', a) = Held(dt, mem, a)
  BY <1>1
<1> QED BY <1>1, <1>4, <1>5, <1>6, <1>7, TransferEffect

LEMMA NoAllocEffect == TInv /\ AccessMissNoAlloc => Effect
<1> SUFFICES ASSUME TInv, AccessMissNoAlloc PROVE Effect
  OBVIOUS
<1>1. /\ InAccess /\ HitWays(CurAddr) = {} /\ UNCHANGED <<dt, mem>>
      /\ call' = [call EXCEPT !.done = @ + WithinBlock]
      /\ call.op = "write" /\ WritePolicy = "WP_THROUGH_NOALLOC"
  BY DEF AccessMissNoAlloc, SkipsAllocation
<1>2. CallOK /\ Sound(dt, mem, call)
  BY DEF TInv, Inv, TypeOK
<1>3. PICK r \in Cached : call \in AccessCalls(r, call.done)
  BY <1>1, <1>2, AccessCall
<1>4. /\ call'.op = call.op /\ call'.addr = call.addr /\ call'.size = call.size
      /\ call'.done = call.done + WithinBlock /\ call'.buf = call.buf
  BY <1>1, <1>3 DEF AccessCalls
<1>5. /\ CurAddr \in Addr /\ call.addr \in Nat /\ call.done \in Nat
      /\ WithinBlock \in Nat
  BY <1>1, <1>2, AccessFacts
<1>6. \A a \in Now : ~HasHit(dt, a)
  <2>1. \A a \in Now : SameBlock(a, CurAddr)
    BY <1>1, <1>2, NowFacts
  <2> QED BY <1>1, <2>1 DEF HasHit, Hit, HitWays, SameBlock
<1>7. Sound(dt, mem, call')
  <2>1. \A a \in Addr : InDone(call, a) => InDone(call', a)
    BY <1>4, <1>5 DEF InDone, Addr
  <2>2. CleanAgrees(dt, mem, call')
    BY <1>2, <2>1 DEF Sound, CleanAgrees, Pending
  <2> QED BY <1>2, <2>2 DEF Sound
<1>8. dt' = dt /\ mem' = mem
  BY <1>1
<1> QED BY <1>1, <1>4, <1>6, <1>7, <1>8 DEF Effect

LEMMA AllocEffect ==
    ASSUME TInv, NEW way \in Ways, AccessMissAlloc(way)
    PROVE  Effect
<1> DEFINE row == Row(CurAddr)
           M == KickedMem(way, row)
           D1 == [dt EXCEPT ![way][row] = KickedLine(way, row)]
           f == FilledLine(CurAddr, M)
           D2 == [dt EXCEPT ![way][row] = f]
           d == [mem_reads |-> BlockSize, burst_reads |-> BlockSize - 1,
                 change_counter |-> BlockSize]
           c == Count(Count(KickedCnt(way, row), d),
                      ReadOrWrite([miss_read |-> 1], [miss_write |-> 1]))
<1>1. /\ InAccess /\ HitWays(CurAddr) = {} /\ mem' = M
      /\ Transfer(way, f, KickedStats(way, row), c)
  BY DEF AccessMissAlloc
<1>2. /\ TypeOK /\ CallOK /\ StatsOK(stats) /\ Sound(dt, mem, call)
      /\ dt \in LineArrays /\ Aligned
  BY DEF TInv, Inv, TypeOK, Sound
<1>3. PICK r \in Cached : /\ r \in [addr : Addr, size : Nat]
                          /\ call.addr = r.addr /\ call.size = r.size
                          /\ call.done \in 0 .. r.size
  BY <1>1, <1>2, AccessCall DEF InAccess
<1>4. CurAddr \in Addr /\ CurAddr \in CachedAddrs
  <2>1. CurAddr \in Addr
    BY <1>1, <1>2, AccessFacts
  <2>2. CurAddr \in Span(r)
    BY <1>1, <1>3 DEF InAccess, CurAddr, Span, Addr
  <2> QED BY <2>1, <2>2 DEF CachedAddrs
<1>5. row \in Rows
  BY <1>4, LocationFacts
<1>6. M \in [Addr -> Val] /\ KickedCnt(way, row) \in CntTypes
      /\ StatsOK(KickedStats(way, row)) /\ KickedLine(way, row) \in Lines
  BY <1>2, <1>5, KickTypes
<1>7. f \in Lines
  BY <1>4, <1>6, FilledType
<1>8. c \in CntTypes
  <2>1. Count(KickedCnt(way, row), d) \in CntTypes
    BY <1>6, CountType, Sizes
  <2> HIDE DEF d
  <2> QED BY <2>1, CountType DEF ReadOrWrite
<1>9. ~KickedLine(way, row).valid
  BY <1>2, <1>5 DEF KickedLine, LineArrays, Lines
<1> HIDE DEF row, M, f, c
<1>10. dt' \in LineArrays
  BY <1>1, <1>2, <1>6, <1>7, <1>8, TransferType DEF LineArrays
<1>11. /\ Sound(D1, M, call)
       /\ \A a \in Addr :
             /\ HasHit(D1, a) => HasHit(dt, a) /\ Held(D1, M, a) = Held(dt, mem, a)
             /\ ~Pending(call, a) => Held(D1, M, a) = Held(dt, mem, a)
  BY <1>2, <1>5, KickKeeps DEF M
<1>12. ~D1[way][row].valid
  BY <1>2, <1>5, <1>9 DEF LineArrays
<1>13. ~HasHit(D1, CurAddr)
  BY <1>1, <1>4, <1>11 DEF HasHit, Hit, HitWays
<1>14. /\ D2 \in LineArrays /\ D2[way][row] = f
       /\ \A w \in Ways, q \in Rows :
             /\ D2[w][q] = IF w = way /\ q = row THEN f ELSE D1[w][q]
             /\ ~(w = way /\ q = row) => D2[w][q] = dt[w][q]
  BY <1>2, <1>5, <1>6, <1>7 DEF LineArrays
<1> HIDE DEF D1, D2
<1>15. /\ Sound(D2, M, call) /\ Hit(D2, way, CurAddr)
       /\ \A a \in Addr : /\ Held(D2, M, a) = Held(D1, M, a)
                          /\ HasHit(D2, a) => HasHit(D1, a) \/ SameBlock(a, CurAddr)
  BY <1>4, <1>6, <1>11, <1>12, <1>13, <1>14, FillKeeps DEF row, f
<1>16. ASSUME NEW a \in Addr
       PROVE  /\ ~Pending(call, a) \/ HasHit(D2, a)
                    => Held(D2, M, a) = Held(dt, mem, a)
              /\ HasHit(D2, a) => HasHit(dt, a) \/ SameBlock(a, CurAddr)
  <2>1. CASE Pending(call, a)
    <3>1. ~SameBlock(a, CurAddr)
      BY <1>1, <1>2, <2>1, DoneElsewhere DEF Pending
    <3> QED BY <1>11, <1>15, <2>1, <3>1
  <2>2. CASE ~Pending(call, a)
    BY <1>11, <1>15, <2>2
  <2> QED BY <2>1, <2>2
<1>17. Sound(D2, mem', call)
  BY <1>1, <1>15
<1>18. Transfer(way, D2[way][Row(CurAddr)], KickedStats(way, row), c)
  BY <1>1, <1>14 DEF row
<1>19. \A w \in Ways, q \in Rows :
          ~(w = way /\ q = Row(CurAddr)) => D2[w][q] = dt[w][q]
  BY <1>14 DEF row
<1>20. \A a \in Addr :
          /\ ~Pending(call, a) \/ HasHit(D2, a)
                => Held(D2, mem', a) = Held(dt, mem, a)
          /\ HasHit(D2, a) => HasHit(dt, a) \/ SameBlock(a, CurAddr)
  BY <1>1, <1>16
<1> QED BY <1>1, <1>10, <1>15, <1>17, <1>18, <1>19, <1>20, TransferEffect

-----------------------------------------------------------------------------
(* Every action keeps the invariant; what it does to the memory seen.       *)

TNext == /\ Sound(dt', mem', call') /\ DoneHeld(dt', mem', call')
         /\ Aligned' /\ ReadHeld(dt', mem', call')

SameSeen == \A a \in Addr : Seen(dt', mem', call', a) = Seen(dt, mem, call, a)

LEMMA NextBlock ==
    ASSUME NEW a \in Addr
    PROVE  Offset(a + (BlockBytes - Offset(a))) = 0
<1> DEFINE k == (Tag(a) * SetCount) + Row(a)
<1>1. /\ Row(a) \in Rows /\ Tag(a) \in Nat /\ Offset(a) \in 0 .. (BlockBytes - 1)
      /\ a = CalcBaseAddress(Tag(a), Row(a)) + Offset(a)
  BY LocationFacts
<1>2. Row(a) \in Nat /\ SetCount \in Nat /\ BlockBytes \in Nat \ {0}
  BY <1>1, Sizes DEF Rows
<1>3. k \in Nat
  BY <1>1, <1>2
<1>4. CalcBaseAddress(Tag(a), Row(a)) = k * BlockBytes
  <2> HIDE DEF k
  <2>1. CalcBaseAddress(Tag(a), Row(a)) = k * BlockSize * BLOCK_ITEM_SIZE
    BY DEF CalcBaseAddress, k
  <2> QED BY <1>3, <2>1, Sizes DEF BlockBytes
<1> HIDE DEF k
<1>5. (k + 1) * BlockBytes = (k * BlockBytes) + BlockBytes /\ k * BlockBytes \in Nat
  BY <1>2, <1>3
<1>6. a + (BlockBytes - Offset(a)) = ((k + 1) * BlockBytes) + 0
  BY <1>1, <1>2, <1>4, <1>5
<1>7. 0 \in 0 .. (BlockBytes - 1) /\ k + 1 \in Nat
  BY <1>2, <1>3
<1> QED BY <1>6, <1>7, LocationOfBlock

LEMMA AccessKeeps ==
    ASSUME TInv, InAccess, Effect
    PROVE  TNext /\ SameSeen
<1>1. CallOK /\ Aligned /\ DoneHeld(dt, mem, call) /\ ReadHeld(dt, mem, call)
  BY DEF TInv, Inv, TypeOK
<1>2. /\ CurAddr \in Addr /\ call.addr \in Nat /\ call.size \in Nat /\ call.done \in Nat
      /\ WithinBlock \in Nat /\ call.done + WithinBlock <= call.size
      /\ Offset(CurAddr) + WithinBlock <= BlockBytes
  BY <1>1, AccessFacts
<1>3. /\ call'.op = call.op /\ call'.addr = call.addr /\ call'.size = call.size
      /\ call'.done = call.done + WithinBlock
  BY DEF Effect
<1>4. DoneHeld(dt', mem', call')
  <2> SUFFICES ASSUME NEW a \in Addr, InDone(call', a),
                      HasHit(dt', a) \/ WritePolicy = "WP_BACK"
               PROVE  Held(dt', mem', a) = call'.buf[a - call'.addr]
    BY DEF DoneHeld
  <2>1. call.op = "write" /\ call'.buf = call.buf
    BY <1>3 DEF InDone, Effect
  <2>2. a \in Now \/ InDone(call, a)
    BY <1>2, <1>3, <2>1 DEF InDone, Now, CurAddr, Addr
  <2>3. CASE a \in Now
    BY <1>3, <2>1, <2>3 DEF Effect
  <2>4. CASE InDone(call, a)
    <3>1. ~SameBlock(a, CurAddr) /\ a \notin Now
      BY <1>1, <2>4, DoneElsewhere, NowFacts
    <3>2. HasHit(dt, a) \/ WritePolicy = "WP_BACK"
      BY <3>1 DEF Effect
    <3>3. Held(dt, mem, a) = call.buf[a - call.addr]
      BY <1>1, <2>4, <3>2 DEF DoneHeld
    <3>4. Held(dt', mem', a) = Held(dt, mem, a)
      BY <3>1 DEF Effect, Pending
    <3> QED BY <1>3, <2>1, <3>3, <3>4
  <2> QED BY <2>2, <2>3, <2>4
<1>5. Aligned'
  <2> SUFFICES ASSUME call.done + WithinBlock < call.size
               PROVE  Offset(call.addr + (call.done + WithinBlock)) = 0
    BY <1>3 DEF Aligned, InAccess, CurAddr
  <2>1. Offset(CurAddr) \in Nat /\ BlockBytes \in Nat
    BY <1>2, LocationFacts, Sizes
  <2>2. WithinBlock = BlockBytes - Offset(CurAddr)
    BY <1>2, <2>1 DEF WithinBlock, CurSize, Overflow
  <2>3. CurAddr + WithinBlock = call.addr + (call.done + WithinBlock)
    <3> HIDE DEF WithinBlock
    <3> QED BY <1>2 DEF CurAddr
  <2>4. Offset(CurAddr + (BlockBytes - Offset(CurAddr))) = 0
    BY <1>2, NextBlock
  <2> HIDE DEF WithinBlock
  <2> QED BY <2>2, <2>3, <2>4
<1>6. ReadHeld(dt', mem', call')
  <2> SUFFICES ASSUME call.op = "read", NEW i \in 0 .. (call.done + WithinBlock - 1)
               PROVE  call'.buf[i] = Held(dt', mem', call.addr + i)
    <3>1. (call.done + WithinBlock) - 1 = call.done + (WithinBlock - 1)
      BY <1>2
    <3> QED BY <1>3, <3>1 DEF ReadHeld
  <2>1. CASE i < call.done
    <3>1. call'.buf[i] = call.buf[i]
      BY <2>1 DEF Effect
    <3>2. call.buf[i] = Held(dt, mem, call.addr + i)
      BY <1>1, <1>2, <2>1 DEF ReadHeld
    <3>3. call.addr + i \in Addr
      <4>1. PICK r \in Cached : /\ Span(r) \subseteq Addr
                                /\ call.addr = r.addr /\ call.size = r.size
        BY <1>1, AccessCall DEF InAccess
      <4>2. call.addr + i \in Span(r)
        BY <1>2, <2>1, <4>1 DEF Span
      <4> QED BY <4>1, <4>2
    <3>4. Held(dt', mem', call.addr + i) = Held(dt, mem, call.addr + i)
      BY <3>3 DEF Effect, Pending, InDone
    <3> QED BY <3>1, <3>2, <3>4
  <2>2. CASE ~(i < call.done)
    BY <2>2 DEF Effect
  <2> QED BY <2>1, <2>2
<1>7. SameSeen
  <2> SUFFICES ASSUME NEW a \in Addr
               PROVE  Seen(dt', mem', call', a) = Seen(dt, mem, call, a)
    BY DEF SameSeen
  <2>1. Span(call') = Span(call)
    BY <1>3 DEF Span
  <2>2. CASE call.op = "write" /\ a \in Span(call)
    BY <1>3, <2>1, <2>2 DEF Seen, Effect
  <2>3. CASE ~(call.op = "write" /\ a \in Span(call))
    <3>1. ~(call.op = "write" /\ a \in Now)
      BY <1>1, <2>3, NowFacts
    <3>2. ~InDone(call, a)
      BY <1>2, <2>3 DEF InDone, Span
    <3>3. Held(dt', mem', a) = Held(dt, mem, a)
      BY <3>1, <3>2 DEF Effect, Pending
    <3> QED BY <1>3, <2>1, <2>3, <3>3 DEF Seen
  <2> QED BY <2>2, <2>3
<1> QED BY <1>4, <1>5, <1>6, <1>7 DEF TNext, Effect

\* No block of a bypassing access or of a device register is in the cache.
LEMMA NoHitOutside ==
    ASSUME NEW D, FromCached(D), NEW S, SeparatedFrom(S), NEW a \in Addr, a \in S
    PROVE  ~HasHit(D, a)
<1>1. Row(a) \in Rows
  BY LocationFacts
<1>2. SUFFICES ASSUME NEW w \in Ways, Hit(D, w, a) PROVE FALSE
  BY DEF HasHit
<1>3. PICK b \in CachedAddrs : Tag(a) = Tag(b) /\ Row(a) = Row(b)
  BY <1>1, <1>2 DEF FromCached, Hit
<1> QED BY <1>3 DEF SeparatedFrom, SameBlock

\* A change of memory around the cache.
LEMMA OutsideChange ==
    ASSUME TInv, call.op # "write", dt' = dt, call' = call,
           NEW S, SeparatedFrom(S), \A a \in Addr \ S : mem'[a] = mem[a]
    PROVE  /\ call.op # "read" => TNext
           /\ \A a \in Addr : Seen(dt', mem', call', a) =
                                 IF a \in S THEN mem'[a] ELSE Seen(dt, mem, call, a)
<1>1. Sound(dt, mem, call)
  BY DEF TInv
<1>2. \A a \in Addr : HasHit(dt, a) => mem'[a] = mem[a]
  BY <1>1, NoHitOutside DEF Sound
<1>3. CleanAgrees(dt, mem', call)
  BY <1>1, <1>2 DEF Sound, CleanAgrees, HasHit
<1>4. ASSUME NEW a \in Addr
      PROVE  Held(dt, mem', a) = IF a \in S THEN mem'[a] ELSE Held(dt, mem, a)
  <2>1. CASE HasHit(dt, a)
    <3>1. a \notin S
      BY <1>1, <2>1, NoHitOutside DEF Sound
    <3> QED BY <2>1, <3>1 DEF Held, HasHit
  <2>2. CASE ~HasHit(dt, a)
    BY <2>2 DEF Held, HasHit
  <2> QED BY <2>1, <2>2
<1>5. call.op # "read" => TNext
  BY <1>1, <1>3 DEF TNext, Sound, DoneHeld, ReadHeld, InDone, Aligned, InAccess
<1> QED BY <1>4, <1>5 DEF Seen

\* The start of a call, the end of a read, a turn of flush() that finds an
\* invalid line: neither lines nor memory change.
LEMMA CallChange ==
    ASSUME TInv, call.op # "write", dt' = dt, mem' = mem,
           call'.op \in {"read", "write"} => call'.done = 0 /\ call'.addr \in Nat
    PROVE  TNext /\ (call'.op # "write" => SameSeen)
<1>1. Sound(dt, mem, call)
  BY DEF TInv
<1>2. CleanAgrees(dt, mem, call')
  BY <1>1 DEF Sound, CleanAgrees, Pending, InDone
<1>3. ~(call'.op = "write" /\ \E a \in Addr : a \in call'.addr .. (call'.addr + 0 - 1))
  OBVIOUS
<1>4. DoneHeld(dt, mem, call') /\ ReadHeld(dt, mem, call') /\ Aligned'
  <2>1. \A a \in Addr : ~InDone(call', a)
    BY <1>3 DEF InDone
  <2>2. Aligned'
    BY DEF Aligned, InAccess
  <2>3. DoneHeld(dt, mem, call')
    BY <2>1 DEF DoneHeld
  <2>4. ReadHeld(dt, mem, call')
    BY DEF ReadHeld
  <2> QED BY <2>2, <2>3, <2>4
<1>5. call'.op # "write" => SameSeen
  BY DEF SameSeen, Seen
<1> QED BY <1>1, <1>2, <1>4, <1>5 DEF TNext, Sound

LEMMA WriteFinishKeeps == TInv /\ WriteFinish => TNext /\ SameSeen
<1> SUFFICES ASSUME TInv, WriteFinish PROVE TNext /\ SameSeen
  OBVIOUS
<1>1. /\ call.op = "write" /\ call.done = call.size /\ call' = Idle /\ dt' = dt
      /\ mem' = IF WritePolicy # "WP_BACK"
                THEN MemWrite(mem, call.addr, call.size, call.buf) ELSE mem
  BY DEF WriteFinish
<1>2. Sound(dt, mem, call) /\ DoneHeld(dt, mem, call) /\ OneWay(dt)
  BY DEF TInv, Sound
<1>3. \A a : InDone(call, a) <=> a \in Span(call)
  BY <1>1 DEF InDone, Span
<1>4. \A a \in Addr : mem'[a] = IF WritePolicy # "WP_BACK" /\ a \in Span(call)
                                THEN call.buf[a - call.addr] ELSE mem[a]
  BY <1>1 DEF MemWrite, Span
<1>5. CleanAgrees(dt, mem', Idle)
  <2> SUFFICES ASSUME NEW a \in Addr, NEW w \in Ways, Hit(dt, w, a),
                      ~(dt[w][Row(a)].dirty /\ WritePolicy = "WP_BACK")
               PROVE  dt[w][Row(a)].data[Offset(a)] = mem'[a]
    BY DEF CleanAgrees
  <2>1. CASE Pending(call, a)
    <3>1. Held(dt, mem, a) = call.buf[a - call.addr]
      BY <1>2, <2>1 DEF DoneHeld, HasHit, Pending
    <3>2. Held(dt, mem, a) = dt[w][Row(a)].data[Offset(a)]
      BY <1>2, HeldHit
    <3> QED BY <1>3, <1>4, <2>1, <3>1, <3>2 DEF Pending
  <2>2. CASE ~Pending(call, a)
    <3>1. dt[w][Row(a)].data[Offset(a)] = mem[a]
      BY <1>2, <2>2 DEF Sound, CleanAgrees
    <3> QED BY <1>3, <1>4, <2>2, <3>1 DEF Pending
  <2> QED BY <2>1, <2>2
<1>6. TNext
  <2>1. Idle.op = "none"
    BY DEF Idle
  <2> QED BY <1>1, <1>2, <1>5, <2>1
          DEF TNext, Sound, DoneHeld, ReadHeld, InDone, Aligned, InAccess
<1>7. ASSUME NEW a \in Addr
      PROVE  Seen(dt', mem', call', a) = Seen(dt, mem, call, a)
  <2>1. Seen(dt', mem', call', a) = Held(dt, mem', a)
    BY <1>1 DEF Seen, Idle
  <2>2. CASE HasHit(dt, a)
    <3>1. Held(dt, mem', a) = Held(dt, mem, a)
      BY <2>2 DEF Held, HasHit
    <3> QED BY <1>1, <1>2, <1>3, <2>1, <2>2, <3>1 DEF Seen, DoneHeld
  <2>3. CASE ~HasHit(dt, a)
    <3>1. Held(dt, mem', a) = mem'[a] /\ Held(dt, mem, a) = mem[a]
      BY <2>3, HeldMiss DEF HasHit
    <3>2. CASE a \in Span(call) /\ WritePolicy = "WP_BACK"
      BY <1>1, <1>2, <1>3, <1>4, <2>1, <3>1, <3>2 DEF Seen, DoneHeld
    <3>3. CASE ~(a \in Span(call) /\ WritePolicy = "WP_BACK")
      BY <1>1, <1>4, <2>1, <3>1, <3>3 DEF Seen
    <3> QED BY <3>2, <3>3
  <2> QED BY <2>2, <2>3
<1> QED BY <1>6, <1>7 DEF SameSeen

LEMMA FlushStepKeeps == TInv /\ FlushStep => TNext /\ SameSeen
<1> SUFFICES ASSUME TInv, FlushStep PROVE TNext /\ SameSeen
  OBVIOUS
<1> DEFINE way == call.way
           row == call.row
<1>1. TypeOK /\ CallOK /\ Sound(dt, mem, call) /\ call.op = "flush"
  BY DEF TInv, Inv, TypeOK, FlushStep
<1>2. call \in FlushCalls
  BY <1>1 DEF CallOK, Idle, AccessCalls
<1>3. way \in Ways /\ row \in Rows /\ call'.op = "flush"
  <2>1. way \in Ways /\ row \in Rows
    BY <1>2, Sizes DEF FlushStep, FlushCalls, Ways, Rows
  <2>2. call'.op = "flush"
    BY <1>2 DEF FlushStep, FlushCalls
  <2> QED BY <2>1, <2>2
<1>4. CASE ~dt[way][row].valid
  <2>1. dt' = dt /\ mem' = mem
    BY <1>4 DEF FlushStep
  <2> QED BY <1>1, <1>3, <2>1, CallChange
<1>5. CASE dt[way][row].valid
  <2>1. /\ dt' = [dt EXCEPT ![way][row] = KickedLine(way, row)]
        /\ mem' = KickedMem(way, row)
    BY <1>5 DEF FlushStep
  <2> HIDE DEF way, row
  <2>2. \A c, a : c.op = "flush" => ~Pending(c, a)
    BY DEF Pending, InDone
  <2>3. /\ Sound(dt', mem', call)
        /\ \A a \in Addr : ~Pending(call, a) => Held(dt', mem', a) = Held(dt, mem, a)
    BY <1>1, <1>3, <2>1, KickKeeps
  <2>4. Sound(dt', mem', call')
    BY <1>1, <1>3, <2>2, <2>3 DEF Sound, CleanAgrees
  <2>5. TNext
    BY <1>3, <2>4 DEF TNext, DoneHeld, ReadHeld, InDone, Aligned, InAccess
  <2>6. SameSeen
    BY <1>1, <1>3, <2>2, <2>3 DEF SameSeen, Seen
  <2> QED BY <2>5, <2>6
<1> QED BY <1>4, <1>5

\* Machine::restart: the cache forgets its lines, the image is loaded again.
LEMMA RestartKeeps ==
    ASSUME TInv, Restart, WritePolicy # "WP_BACK"
    PROVE  /\ TNext
           /\ \A a \in Addr : Seen(dt', mem', call', a) =
                 IF ProgramLoaded THEN Image[a] ELSE Seen(dt, mem, call, a)
<1>1. call = Idle /\ call' = call /\ Sound(dt, mem, call)
  BY DEF Restart, TInv
<1>2. mem' = IF ProgramLoaded THEN Image ELSE mem
  BY DEF Restart
<1>3. Idle.op = "none"
  BY DEF Idle
<1>4. dt' \in LineArrays /\ \A w \in Ways, row \in Rows : ~dt'[w][row].valid
  <2>1. CASE Enabled
    <3>1. dt' = [way \in Ways |-> [row \in Rows |->
                    [dt[way][row] EXCEPT !.valid = FALSE]]]
      BY <2>1 DEF Restart, ResetLines
    <3>2. \A line \in Lines : /\ [line EXCEPT !.valid = FALSE] \in Lines
                              /\ ~[line EXCEPT !.valid = FALSE].valid
      BY DEF Lines
    <3> QED BY <1>1, <3>1, <3>2 DEF Sound, LineArrays
  <2>2. CASE ~Enabled
    <3>1. dt' = dt
      BY <2>2 DEF Restart, ResetLines
    <3>2. CachedAddrs = {}
      BY <2>2 DEF CachedAddrs, Cached, Bypasses
    <3> QED BY <1>1, <3>1, <3>2 DEF Sound, FromCached
  <2> QED BY <2>1, <2>2
<1>5. Sound(dt', mem', call')
  <2>1. \A a \in Addr, w \in Ways : ~Hit(dt', w, a)
    BY <1>4, LocationFacts DEF Hit
  <2> QED BY <1>4, <2>1
          DEF Sound, OneWay, FromCached, InvalidClean, CleanAgrees
<1>6. TNext
  BY <1>1, <1>3, <1>5 DEF TNext, DoneHeld, ReadHeld, InDone, Aligned, InAccess
<1>7. ASSUME NEW a \in Addr
      PROVE  Seen(dt', mem', call', a) =
                IF ProgramLoaded THEN Image[a] ELSE Seen(dt, mem, call, a)
  <2>1. \A w \in Ways : ~Hit(dt', w, a)
    BY <1>4, LocationFacts DEF Hit
  <2>2. Seen(dt', mem', call', a) = mem'[a]
    BY <1>1, <1>3, <2>1, HeldMiss DEF Seen
  <2>3. Seen(dt, mem, call, a) = Held(dt, mem, a)
    BY <1>1, <1>3 DEF Seen
  <2>4. Held(dt, mem, a) = mem[a]
    <3>1. CASE HasHit(dt, a)
      <4>1. PICK w \in Ways : Hit(dt, w, a)
        BY <3>1 DEF HasHit
      <4>2. Held(dt, mem, a) = dt[w][Row(a)].data[Offset(a)]
        BY <1>1, <4>1, HeldHit DEF Sound
      <4>3. ~Pending(call, a)
        BY <1>1, <1>3 DEF Pending, InDone
      <4> QED BY <1>1, <4>1, <4>2, <4>3 DEF Sound, CleanAgrees
    <3>2. CASE ~HasHit(dt, a)
      BY <3>2, HeldMiss DEF HasHit
    <3> QED BY <3>1, <3>2
  <2> QED BY <1>2, <2>2, <2>3, <2>4
<1> QED BY <1>6, <1>7

-----------------------------------------------------------------------------
(* The refinement.                                                          *)

LEMMA InitTInv == Init => TInv
<1> SUFFICES ASSUME Init PROVE TInv
  OBVIOUS
<1>1. Inv /\ call = Idle /\ Idle.op = "none"
  BY InitInv DEF Init, Idle
<1>2. dt \in LineArrays /\ OneWay(dt)
  BY <1>1 DEF Inv, TypeOK, BlockInOneWay, LineArrays, OneWay
<1>3. \A w \in Ways, row \in Rows : ~dt[w][row].valid /\ ~dt[w][row].dirty
  BY DEF Init
<1>4. \A a \in Addr, w \in Ways : ~Hit(dt, w, a)
  BY <1>3, LocationFacts DEF Hit
<1>5. Sound(dt, mem, call)
  BY <1>2, <1>3, <1>4 DEF Sound, FromCached, InvalidClean, CleanAgrees
<1> QED BY <1>1, <1>5 DEF TInv, DoneHeld, ReadHeld, InDone, Aligned, InAccess

\* The memory of the refinement mapping, now and after a step.
LEMMA StoreSeen ==
    Inv /\ Inv' => \A a \in Addr : /\ View(a) = Seen(dt, mem, call, a)
                                   /\ View(a)' = Seen(dt', mem', call', a)
<1>1. Inv => ViewIsSeen
  BY ViewSeen
<1>2. Inv' => ViewIsSeen'
  BY <1>1, PTL
<1> QED BY <1>1, <1>2 DEF ViewIsSeen

LEMMA FlatQuiet ==
    ASSUME Inv, Inv', SameSeen PROVE UNCHANGED [a \in Addr |-> View(a)]
<1>1. \A a \in Addr : View(a)' = View(a)
  BY StoreSeen DEF SameSeen
<1> QED BY <1>1

LEMMA FlatWrite ==
    ASSUME Inv, Inv', NEW r, NEW buf, io' = Event("write", r.addr, buf),
           \A a \in Addr : Seen(dt', mem', call', a) =
              IF a \in Span(r) THEN buf[a - r.addr] ELSE Seen(dt, mem, call, a)
    PROVE  Flat!Write(r, buf)
<1>1. \A a \in Addr : View(a)' = IF a \in r.addr .. (r.addr + r.size - 1)
                                 THEN buf[a - r.addr] ELSE View(a)
  BY StoreSeen DEF Span
<1> QED BY <1>1 DEF Flat!Write, Flat!Event, Event

LEMMA FlatRead ==
    ASSUME Inv, Inv', SameSeen, NEW r, Span(r) \subseteq Addr, r.addr \in Nat, r.size \in Nat,
           NEW data, io' = Event("read", r.addr, data),
           data = [i \in 0 .. (r.size - 1) |-> data[i]],
           \A i \in 0 .. (r.size - 1) : data[i] = Seen(dt, mem, call, r.addr + i)
    PROVE  Flat!Read(r)
<1>1. UNCHANGED [a \in Addr |-> View(a)]
  BY FlatQuiet
<1>2. \A i \in 0 .. (r.size - 1) : r.addr + i \in Addr
  <2>1. \A i \in 0 .. (r.size - 1) : r.addr + i \in Span(r)
    BY DEF Span
  <2> QED BY <2>1
<1>3. \A i \in 0 .. (r.size - 1) : data[i] = [a \in Addr |-> View(a)][r.addr + i]
  BY <1>2, StoreSeen
<1>4. data = [i \in 0 .. (r.size - 1) |-> [a \in Addr |-> View(a)][r.addr + i]]
  BY <1>3
<1> QED BY <1>1, <1>4 DEF Flat!Read, Flat!Event, Event

Refines == TNext /\ [Flat!Next]_<<[a \in Addr |-> View(a)], io>>

LEMMA StepRefines ==
    ASSUME EnvironmentAssumption, TInv, Inv', [Next]_vars
    PROVE  Refines
<1>1. Inv /\ TypeOK /\ CallOK /\ Sound(dt, mem, call) /\ Idle.op = "none"
  BY DEF TInv, Inv, TypeOK, Idle
<1>2. \A r \in Requests \cup DebugRequests :
         /\ r \in [addr : Addr, size : Nat] /\ r.addr \in Addr /\ r.addr \in Nat
         /\ r.size \in Nat /\ Span(r) \subseteq Addr
         /\ Bypasses(r) => SeparatedFrom(Span(r))
  BY CacheAssumption DEF EnvironmentAssumption, Span, Addr
<1>3. ASSUME TNext, SameSeen, UNCHANGED io \/ io' = NoEvent PROVE Refines
  <2>1. UNCHANGED [a \in Addr |-> View(a)]
    BY <1>1, <1>3, FlatQuiet
  <2>2. io' = NoEvent => Flat!Quiet
    BY <2>1 DEF Flat!Quiet, Flat!NoEvent, Flat!Event, NoEvent, Event
  <2> QED BY <1>3, <2>1, <2>2 DEF Refines, Flat!Next
<1>4. ASSUME NEW r \in Requests, NEW buf \in [0 .. (r.size - 1) -> Val],
             WriteBypass(r, buf)
      PROVE  Refines
  <2>1. /\ call = Idle /\ dt' = dt /\ call' = call /\ io' = Event("write", r.addr, buf)
        /\ mem' = MemWrite(mem, r.addr, r.size, buf) /\ SeparatedFrom(Span(r))
    BY <1>2, <1>4 DEF WriteBypass
  <2>2. \A a \in Addr : mem'[a] = IF a \in Span(r) THEN buf[a - r.addr] ELSE mem[a]
    BY <2>1 DEF MemWrite, Span
  <2>3. TNext /\ \A a \in Addr : Seen(dt', mem', call', a) =
                     IF a \in Span(r) THEN mem'[a] ELSE Seen(dt, mem, call, a)
    BY <1>1, <2>1, <2>2, OutsideChange
  <2>4. Flat!Write(r, buf)
    BY <1>1, <2>1, <2>2, <2>3, FlatWrite
  <2> QED BY <2>3, <2>4 DEF Refines, Flat!Next
<1>5. ASSUME NEW r \in Requests, NEW buf \in [0 .. (r.size - 1) -> Val],
             WriteStart(r, buf)
      PROVE  Refines
  <2>1. /\ call = Idle /\ dt' = dt /\ mem' = mem /\ io' = Event("write", r.addr, buf)
        /\ call'.op = "write" /\ call'.addr = r.addr /\ call'.size = r.size
        /\ call'.done = 0 /\ call'.buf = buf
    BY <1>5 DEF WriteStart
  <2>2. TNext
    BY <1>1, <1>2, <2>1, CallChange
  <2>3. \A a \in Addr : Seen(dt', mem', call', a) =
           IF a \in Span(r) THEN buf[a - r.addr] ELSE Seen(dt, mem, call, a)
    BY <1>1, <2>1 DEF Seen, Span
  <2>4. Flat!Write(r, buf)
    BY <1>1, <2>1, <2>3, FlatWrite
  <2> QED BY <2>2, <2>4 DEF Refines, Flat!Next
<1>6. ASSUME NEW r \in Requests \cup DebugRequests, UNCHANGED <<dt, mem, call>>,
             call = Idle, Bypasses(r),
             io' = Event("read", r.addr, MemRead(mem, r.addr, r.size))
      PROVE  Refines
  <2> DEFINE data == MemRead(mem, r.addr, r.size)
  <2>1. TNext /\ SameSeen
    <3>1. dt' = dt /\ mem' = mem /\ call' = call
      BY <1>6
    <3> QED BY <1>1, <1>6, <3>1, CallChange
  <2>2. /\ data = [i \in 0 .. (r.size - 1) |-> data[i]]
        /\ \A i \in 0 .. (r.size - 1) : data[i] = mem[r.addr + i]
    BY DEF MemRead
  <2> HIDE DEF data
  <2>3. ASSUME NEW i \in 0 .. (r.size - 1)
        PROVE  data[i] = Seen(dt, mem, call, r.addr + i)
    <3>1. r.addr + i \in Span(r) /\ r.addr + i \in Addr
      BY <1>2 DEF Span
    <3>2. ~HasHit(dt, r.addr + i)
      BY <1>1, <1>2, <1>6, <3>1, NoHitOutside DEF Sound
    <3>3. Held(dt, mem, r.addr + i) = mem[r.addr + i]
      BY <3>2, HeldMiss DEF HasHit
    <3> QED BY <1>1, <1>6, <2>2, <3>3 DEF Seen
  <2>4. Flat!Read(r)
    <3>1. io' = Event("read", r.addr, data)
      BY <1>6 DEF data
    <3> QED BY <1>1, <1>2, <2>1, <2>2, <2>3, <3>1, FlatRead
  <2> QED BY <2>1, <2>4 DEF Refines, Flat!Next
<1>7. ASSUME NEW r \in Requests, ReadBypass(r)
      PROVE  Refines
  BY <1>6, <1>7 DEF ReadBypass
<1>8. ASSUME NEW r \in Requests, ReadStart(r)
      PROVE  Refines
  <2>1. /\ call = Idle /\ dt' = dt /\ mem' = mem /\ io' = NoEvent
        /\ call'.op = "read" /\ call'.addr = r.addr /\ call'.done = 0
    BY <1>8 DEF ReadStart
  <2> QED BY <1>1, <1>2, <1>3, <2>1, CallChange
<1>9. ASSUME NEW r \in DebugRequests, ReadInternal(r)
      PROVE  Refines
  <2>1. call = Idle /\ UNCHANGED <<dt, mem, call>>
    BY <1>9 DEF ReadInternal
  <2>2. CASE Bypasses(r)
    BY <1>6, <1>9, <2>1, <2>2 DEF ReadInternal
  <2>3. CASE ~Bypasses(r)
    <3>1. Overflow(r.addr, r.size) = 0 /\ r.addr \in Addr /\ r.size \in Nat /\ r.addr \in Nat
      BY <1>2, <2>3 DEF EnvironmentAssumption
    <3> DEFINE off == Offset(r.addr)
    <3>2. ASSUME NEW i \in 0 .. (r.size - 1)
          PROVE  /\ off + i < BlockBytes /\ r.addr + i \in Addr
                 /\ SameBlock(r.addr + i, r.addr) /\ Offset(r.addr + i) = off + i
      <4>1. off \in Nat /\ BlockBytes \in Nat
        BY <3>1, LocationFacts, Sizes
      <4>2. off + i \in 0 .. (BlockBytes - 1)
        BY <3>1, <3>2, <4>1 DEF Overflow
      <4>3. r.addr = CalcBaseAddress(Tag(r.addr), Row(r.addr)) + off
            /\ CalcBaseAddress(Tag(r.addr), Row(r.addr)) \in Nat
            /\ Row(r.addr) \in Rows /\ Tag(r.addr) \in Nat
            /\ \A j \in 0 .. (BlockBytes - 1) :
                  CalcBaseAddress(Tag(r.addr), Row(r.addr)) + j \in Addr
        BY <3>1, LocationFacts
      <4> DEFINE b == CalcBaseAddress(Tag(r.addr), Row(r.addr))
      <4>4. Tag(b + (off + i)) = Tag(r.addr) /\ Row(b + (off + i)) = Row(r.addr)
            /\ Offset(b + (off + i)) = off + i
        BY <4>2, <4>3, BaseFacts
      <4>5. b + (off + i) \in Addr
        BY <4>2, <4>3
      <4> HIDE DEF b, off
      <4>6. r.addr + i = b + (off + i)
        BY <4>1, <4>3 DEF b
      <4> QED BY <4>1, <4>2, <4>4, <4>5, <4>6 DEF SameBlock
    <3>3. TNext /\ SameSeen
      <4>1. dt' = dt /\ mem' = mem /\ call' = call
        BY <2>1
      <4> QED BY <1>1, <2>1, <4>1, CallChange
    <3>4. ASSUME NEW data, io' = Event("read", r.addr, data),
                 data = [i \in 0 .. (r.size - 1) |-> data[i]],
                 \A i \in 0 .. (r.size - 1) : data[i] = Held(dt, mem, r.addr + i)
          PROVE  Refines
      <4>1. \A i \in 0 .. (r.size - 1) : data[i] = Seen(dt, mem, call, r.addr + i)
        BY <1>1, <2>1, <3>4 DEF Seen
      <4>2. Flat!Read(r)
        BY <1>1, <1>2, <3>3, <3>4, <4>1, FlatRead
      <4> QED BY <3>3, <4>2 DEF Refines, Flat!Next
    <3>5. CASE HitWays(r.addr) = {}
      <4> DEFINE data == MemRead(mem, r.addr, r.size)
      <4>1. io' = Event("read", r.addr, data)
        BY <1>9, <2>3, <3>5 DEF ReadInternal
      <4>2. /\ data = [i \in 0 .. (r.size - 1) |-> data[i]]
            /\ \A i \in 0 .. (r.size - 1) : data[i] = mem[r.addr + i]
        BY DEF MemRead
      <4> HIDE DEF data
      <4>3. \A i \in 0 .. (r.size - 1) : Held(dt, mem, r.addr + i) = mem[r.addr + i]
        <5> TAKE i \in 0 .. (r.size - 1)
        <5>1. \A w \in Ways : ~Hit(dt, w, r.addr + i)
          BY <3>2, <3>5 DEF SameBlock, Hit, HitWays
        <5> QED BY <5>1, HeldMiss
      <4> QED BY <3>4, <4>1, <4>2, <4>3
    <3>6. CASE HitWays(r.addr) # {}
      <4> DEFINE w == FindBlockIndex(r.addr)
                 line == dt[w][Row(r.addr)]
      <4>1. PICK beyond \in [0 .. (Overflow(r.addr, r.size) - 1) -> Val] :
               io' = Event("read", r.addr,
                       [i \in 0 .. (r.size - 1) |->
                          IF off + i < BlockBytes THEN line.data[off + i]
                          ELSE beyond[off + i - BlockBytes]])
        BY <1>9, <2>3, <3>6 DEF ReadInternal
      <4> DEFINE data == [i \in 0 .. (r.size - 1) |->
                            IF off + i < BlockBytes THEN line.data[off + i]
                            ELSE beyond[off + i - BlockBytes]]
      <4>2. w \in Ways /\ Hit(dt, w, r.addr)
        BY <1>1, <3>1, <3>6, HitUnique DEF Hit
      <4>3. OneWay(dt)
        BY <1>1 DEF Sound
      <4> HIDE DEF w
      <4>4. ASSUME NEW i \in 0 .. (r.size - 1)
            PROVE  data[i] = Held(dt, mem, r.addr + i)
        <5>1. /\ r.addr + i \in Addr /\ Hit(dt, w, r.addr + i)
              /\ Row(r.addr + i) = Row(r.addr) /\ Offset(r.addr + i) = off + i
          BY <3>2, <4>2 DEF SameBlock, Hit
        <5>2. Held(dt, mem, r.addr + i) = line.data[off + i]
          BY <4>2, <4>3, <5>1, HeldHit
        <5> QED BY <3>2, <5>2
      <4>5. data = [i \in 0 .. (r.size - 1) |-> data[i]]
        OBVIOUS
      <4>6. io' = Event("read", r.addr, data)
        BY <4>1
      <4> HIDE DEF data
      <4> QED BY <3>4, <4>4, <4>5, <4>6
    <3> QED BY <3>5, <3>6
  <2> QED BY <2>2, <2>3
<1>10. CASE Access
  <2>1. InAccess /\ UNCHANGED io /\ Effect
    BY <1>10, HitEffect, NoAllocEffect, AllocEffect
       DEF Access, AccessHit, AccessMissNoAlloc, AccessMissAlloc
  <2> QED BY <1>3, <2>1, AccessKeeps
<1>11. CASE WriteFinish
  BY <1>3, <1>11, WriteFinishKeeps DEF WriteFinish
<1>12. CASE ReadFinish
  <2>1. /\ call.op = "read" /\ call.done = call.size /\ call' = Idle
        /\ dt' = dt /\ mem' = mem /\ io' = Event("read", call.addr, call.buf)
    BY <1>12 DEF ReadFinish
  <2>2. TNext /\ SameSeen
    BY <1>1, <2>1, CallChange
  <2>3. PICK r \in Cached : /\ call.addr = r.addr /\ call.size = r.size
                            /\ call.buf \in [0 .. (call.done - 1) -> Val]
    BY <1>1, <2>1, AccessCall
  <2>4. r \in Requests
    BY DEF Cached
  <2>5. /\ call.buf = [i \in 0 .. (r.size - 1) |-> call.buf[i]]
        /\ \A i \in 0 .. (r.size - 1) : call.buf[i] = Held(dt, mem, r.addr + i)
    BY <2>1, <2>3 DEF TInv, ReadHeld
  <2>6. \A i \in 0 .. (r.size - 1) : call.buf[i] = Seen(dt, mem, call, r.addr + i)
    BY <2>1, <2>5 DEF Seen
  <2>7. io' = Event("read", r.addr, call.buf)
    BY <2>1, <2>3
  <2>8. Flat!Read(r)
    BY <1>1, <1>2, <2>2, <2>4, <2>5, <2>6, <2>7, FlatRead
  <2> QED BY <2>2, <2>4, <2>8 DEF Refines, Flat!Next
<1>13. CASE FlushStart
  <2>1. /\ call.op # "write" /\ dt' = dt /\ mem' = mem /\ io' = NoEvent
        /\ call'.op = "flush"
    BY <1>1, <1>13 DEF FlushStart
  <2> QED BY <1>3, <2>1, CallChange
<1>14. CASE FlushStep
  BY <1>3, <1>14, FlushStepKeeps DEF FlushStep
<1>15. CASE FlushFinish
  <2>1. /\ call.op # "write" /\ dt' = dt /\ mem' = mem /\ UNCHANGED io
        /\ call'.op = "none"
    BY <1>1, <1>15 DEF FlushFinish
  <2> QED BY <1>3, <2>1, CallChange
<1>16. CASE Restart
  <2>1. TNext /\ \A a \in Addr : Seen(dt', mem', call', a) =
                     IF ProgramLoaded THEN Image[a] ELSE Seen(dt, mem, call, a)
    BY <1>16, RestartKeeps DEF EnvironmentAssumption, Restart
  <2>2. \A a \in Addr : View(a)' = IF ProgramLoaded THEN Image[a] ELSE View(a)
    BY <1>1, <2>1, StoreSeen
  <2>3. [a \in Addr |-> View(a)]' =
           IF ProgramLoaded THEN Image ELSE [a \in Addr |-> View(a)]
    BY <2>2, CacheAssumption
  <2>4. io' = Event("restart", 0, [i \in {} |-> 0])
    BY <1>16 DEF Restart
  <2>5. Flat!Restart
    BY <2>3, <2>4 DEF Flat!Restart, Flat!Event, Event
  <2> QED BY <2>1, <2>5 DEF Refines, Flat!Next
<1>17. ASSUME NEW a \in DeviceAddrs, NEW v \in Val, DeviceChange(a, v)
       PROVE  Refines
  <2>1. /\ call = Idle /\ dt' = dt /\ call' = call /\ mem' = [mem EXCEPT ![a] = v]
        /\ io' = Event("device", a, [i \in {0} |-> v])
    BY <1>17 DEF DeviceChange
  <2>2. SeparatedFrom(DeviceAddrs) /\ a \in Addr /\ mem \in [Addr -> Val]
    BY <1>1, CacheAssumption DEF EnvironmentAssumption, TypeOK
  <2>3. SeparatedFrom({a})
    BY <2>2 DEF SeparatedFrom
  <2>4. \A b \in Addr : mem'[b] = IF b = a THEN v ELSE mem[b]
    BY <2>1, <2>2
  <2>5. TNext /\ \A b \in Addr : Seen(dt', mem', call', b) =
                     IF b \in {a} THEN mem'[b] ELSE Seen(dt, mem, call, b)
    <3>1. call.op \notin {"read", "write"} /\ dt' = dt /\ call' = call
      BY <1>1, <2>1
    <3>2. \A b \in Addr \ {a} : mem'[b] = mem[b]
      BY <2>4
    <3> QED BY <2>3, <3>1, <3>2, OutsideChange
  <2>6. \A b \in Addr : View(b)' = IF b = a THEN v ELSE View(b)
    BY <1>1, <2>4, <2>5, StoreSeen
  <2>7. [b \in Addr |-> View(b)]' = [[b \in Addr |-> View(b)] EXCEPT ![a] = v]
    BY <2>2, <2>6
  <2>8. Flat!DeviceChange(a, v)
    BY <2>1, <2>7 DEF Flat!DeviceChange, Flat!Event, Event
  <2> QED BY <2>5, <2>8 DEF Refines, Flat!Next
<1>18. CASE UNCHANGED vars
  <2>1. /\ dt' = dt /\ mem' = mem /\ call' = call /\ io' = io
    BY <1>18 DEF vars
  <2>2. SameSeen /\ TNext
    BY <2>1 DEF SameSeen, TNext, TInv, Aligned, InAccess, CurAddr
  <2> QED BY <1>3, <2>1, <2>2
<1> QED
  BY <1>4, <1>5, <1>7, <1>8, <1>9, <1>10, <1>11, <1>12, <1>13, <1>14, <1>15,
     <1>16, <1>17, <1>18 DEF Next

LEMMA NextTInv ==
    ASSUME EnvironmentAssumption
    PROVE  TInv /\ [Next]_vars => TInv' /\ [Flat!Next]_<<[a \in Addr |-> View(a)], io>>
<1> SUFFICES ASSUME TInv, [Next]_vars
             PROVE  TInv' /\ [Flat!Next]_<<[a \in Addr |-> View(a)], io>>
  OBVIOUS
<1>1. Inv'
  BY NextInv DEF TInv
<1>2. Refines
  BY <1>1, StepRefines
<1>3. TInv'
  BY <1>1, <1>2 DEF Refines, TNext, TInv
<1> QED BY <1>2, <1>3 DEF Refines

\* The cache is transparent: with any organisation, replacement policy and
\* write policy, whatever accesses, flushes, device changes and restarts the
\* environment makes, the core and the user interface see one flat memory.
THEOREM CacheTransparent == EnvironmentAssumption => (Spec => Transparent)
<1> SUFFICES ASSUME EnvironmentAssumption PROVE Spec => Transparent
  OBVIOUS
<1>1. Init => TInv /\ Flat!Init
  <2> SUFFICES ASSUME Init PROVE Flat!Init
    BY InitTInv
  <2>1. Inv /\ ViewIsSeen
    BY InitInv, ViewSeen
  <2>2. \A a \in Addr, w \in Ways : ~Hit(dt, w, a)
    BY LocationFacts DEF Init, Hit
  <2>3. ASSUME NEW a \in Addr PROVE View(a) = Image[a]
    <3>1. Held(dt, mem, a) = mem[a]
      BY <2>2, <2>3, HeldMiss
    <3> QED BY <2>1, <3>1 DEF ViewIsSeen, Seen, Init, Idle
  <2>4. [a \in Addr |-> View(a)] = Image
    BY <2>3, CacheAssumption
  <2> QED BY <2>4 DEF Init, Flat!Init, Flat!NoEvent, Flat!Event, NoEvent, Event
<1>2. TInv /\ [Next]_vars => TInv' /\ [Flat!Next]_<<[a \in Addr |-> View(a)], io>>
  BY NextTInv
<1> QED BY <1>1, <1>2, PTL DEF Spec, Transparent, Flat!Spec

\* Between calls a valid line holds what memory holds, unless it is a dirty
\* line of a write-back cache: kick() loses nothing when it writes back only
\* dirty lines, and a write-through cache needs no write-back at all.
THEOREM CleanLinesAgreeWithMemory ==
    EnvironmentAssumption => (Spec => []CleanLinesAgree)
<1> SUFFICES ASSUME EnvironmentAssumption PROVE Spec => []CleanLinesAgree
  OBVIOUS
<1>1. TInv => CleanLinesAgree
  <2> SUFFICES ASSUME TInv, call.op \notin {"read", "write"},
                      NEW way \in Ways, NEW row \in Rows,
                      dt[way][row].valid, ~WritesBack(way, row),
                      NEW i \in 0 .. (BlockBytes - 1)
               PROVE  dt[way][row].data[i] =
                         mem[CalcBaseAddress(dt[way][row].tag, row) + i]
    BY DEF CleanLinesAgree, LineAgrees
  <2> DEFINE a == CalcBaseAddress(dt[way][row].tag, row) + i
  <2>1. Sound(dt, mem, call)
    BY DEF TInv
  <2>2. PICK b \in CachedAddrs : dt[way][row].tag = Tag(b) /\ row = Row(b)
    BY <2>1 DEF Sound, FromCached
  <2>3. b \in Addr
    BY CacheAssumption DEF CachedAddrs, Cached, Span
  <2>4. a \in Addr /\ dt[way][row].tag \in Nat
    BY <2>2, <2>3, LocationFacts
  <2>5. Tag(a) = dt[way][row].tag /\ Row(a) = row /\ Offset(a) = i
    BY <2>4, BaseFacts
  <2> HIDE DEF a
  <2>6. Hit(dt, way, a) /\ ~Pending(call, a)
    BY <2>5 DEF Hit, Pending, InDone
  <2>7. dt[way][row].data[i] = mem[a]
    BY <2>1, <2>4, <2>5, <2>6 DEF Sound, CleanAgrees, WritesBack
  <2> QED BY <2>7 DEF a
<1>2. TInv /\ [Next]_vars => TInv'
  BY NextTInv
<1> QED BY <1>1, <1>2, InitTInv, PTL DEF Spec

-----------------------------------------------------------------------------
(* The statistics, for as long as none of the 32-bit counters turns around. *)

\* What StatisticsAddUp needs to be kept by every step.
StatInv ==
    /\ cnt["mem_reads"] = BlockSize * Allocations
    /\ cnt["burst_reads"] = (BlockSize - 1) * Allocations
    /\ cnt["burst_writes"] <= cnt["mem_writes"]
    /\ WritePolicy = "WP_BACK" =>
          /\ cnt["burst_writes"] * BlockSize = cnt["mem_writes"] * (BlockSize - 1)
          /\ cnt["mem_writes"] + BlockSize * Cardinality(DirtyLines)
                <= BlockSize * (cnt["hit_write"] + cnt["miss_write"])

LEMMA CountsAreNumbers ==
    ASSUME cnt \in CntTypes, NEW f \in Counters
    PROVE  cnt[f] \in Nat
<1>1. CounterModulus \in Nat
  BY CacheAssumption
<1> HIDE DEF Counters
<1> QED BY <1>1 DEF CntTypes

LEMMA SmallerProduct ==
    ASSUME NEW a \in Nat, NEW b \in Nat, a <= b, NEW x \in Int, NEW y \in Nat, x <= y
    PROVE  a * x <= b * y
<1>1. a * x <= a * y
  OBVIOUS
<1>2. a * y <= b * y
  OBVIOUS
<1>3. a * x \in Int /\ a * y \in Int /\ b * y \in Int
  OBVIOUS
<1> QED BY <1>1, <1>2, <1>3

\* Cycles are only saved on words that were counted.
LEMMA StallsNotNegative ==
    ASSUME cnt \in CntTypes, StatInv
    PROVE  StallCount >= 0
<1> DEFINE mr == cnt["mem_reads"]
           mw == cnt["mem_writes"]
           br == cnt["burst_reads"]
           bw == cnt["burst_writes"]
           misses == cnt["miss_read"] + cnt["miss_write"]
           A == Allocations
<1>1. /\ mr \in Nat /\ mw \in Nat /\ br \in Nat /\ bw \in Nat
      /\ cnt["miss_read"] \in Nat /\ cnt["miss_write"] \in Nat
  BY CountsAreNumbers DEF Counters
<1>2. misses \in Nat /\ A \in Nat /\ BlockSize \in Nat /\ BlockSize - 1 \in Nat
  BY <1>1, Sizes DEF Allocations
<1>3. /\ AccessPenR - 1 \in Nat /\ AccessPenW - 1 \in Nat /\ AccessPenB \in Nat
      /\ AccessPenR \in Nat /\ AccessPenW \in Nat
  BY CacheAssumption
<1>4. br <= mr /\ bw <= mw
  <2>1. mr = BlockSize * A /\ br = (BlockSize - 1) * A /\ bw <= mw
    BY DEF StatInv
  <2> HIDE DEF mr, mw, br, bw, A
  <2>2. (BlockSize - 1) * A <= BlockSize * A
    <3>1. BlockSize * A = ((BlockSize - 1) * A) + A
      BY <1>2
    <3>2. (BlockSize - 1) * A \in Nat
      BY <1>2
    <3> QED BY <1>2, <3>1, <3>2
  <2> QED BY <2>1, <2>2
<1> HIDE DEF A
<1>5. /\ AccessPenB = 0 =>
            StallCount = mr * (AccessPenR - 1) + mw * (AccessPenW - 1) + misses * BlockSize - 0
      /\ AccessPenB # 0 =>
            StallCount = mr * (AccessPenR - 1) + mw * (AccessPenW - 1) + misses * BlockSize
               - (br * (AccessPenR - AccessPenB) + bw * (AccessPenW - AccessPenB))
  BY Zenon DEF StallCount
<1> HIDE DEF mr, mw, br, bw, misses
<1>6. /\ misses * BlockSize \in Nat /\ mr * (AccessPenR - 1) \in Nat
      /\ mw * (AccessPenW - 1) \in Nat
      /\ br * (AccessPenR - AccessPenB) \in Int /\ bw * (AccessPenW - AccessPenB) \in Int
  BY <1>1, <1>2, <1>3
<1>7. CASE AccessPenB = 0
  BY <1>5, <1>6, <1>7
<1>8. CASE AccessPenB # 0
  <2>1. /\ AccessPenR - AccessPenB \in Int /\ AccessPenR - AccessPenB <= AccessPenR - 1
        /\ AccessPenW - AccessPenB \in Int /\ AccessPenW - AccessPenB <= AccessPenW - 1
    BY <1>3, <1>8
  <2>2. br * (AccessPenR - AccessPenB) <= mr * (AccessPenR - 1)
    BY <1>1, <1>3, <1>4, <2>1, SmallerProduct
  <2>3. bw * (AccessPenW - AccessPenB) <= mw * (AccessPenW - 1)
    BY <1>1, <1>3, <1>4, <2>1, SmallerProduct
  <2> QED BY <1>5, <1>6, <1>8, <2>2, <2>3
<1> QED BY <1>7, <1>8

LEMMA DirtyFinite ==
    ASSUME NEW D \in SUBSET (Ways \X Rows)
    PROVE  IsFiniteSet(D) /\ Cardinality(D) \in Nat
<1>1. IsFiniteSet(Ways) /\ IsFiniteSet(Rows)
  BY Sizes, FS_Interval DEF Ways, Rows
<1>2. IsFiniteSet(Ways \X Rows)
  BY <1>1, FS_Product
<1>3. IsFiniteSet(D)
  BY <1>2, FS_Subset
<1> QED BY <1>3, FS_CardinalityType

\* A step that fetches n blocks for as many allocating misses, writes back k dirty ones
\* and writes t words through keeps the sums.
LEMMA StatStep ==
    ASSUME cnt \in CntTypes, StatInv,
           NEW n \in {0, 1}, NEW k \in {0, 1}, NEW t \in Nat,
           NEW mr \in Nat, NEW mw \in Nat, NEW hw \in Nat,
           cnt'["mem_reads"]    = cnt["mem_reads"] + (IF n = 1 THEN BlockSize ELSE 0),
           cnt'["burst_reads"]  = cnt["burst_reads"] + (IF n = 1 THEN BlockSize - 1 ELSE 0),
           cnt'["mem_writes"]   = cnt["mem_writes"] + (IF k = 1 THEN BlockSize ELSE 0) + t,
           cnt'["burst_writes"] = cnt["burst_writes"] + (IF k = 1 THEN BlockSize - 1 ELSE 0),
           cnt'["miss_read"]    = cnt["miss_read"] + mr,
           cnt'["miss_write"]   = cnt["miss_write"] + mw,
           cnt'["hit_write"]    = cnt["hit_write"] + hw,
           n = mr + (IF WritePolicy = "WP_THROUGH_NOALLOC" THEN 0 ELSE mw),
           WritePolicy = "WP_BACK" =>
              /\ t = 0
              /\ k + Cardinality(DirtyLines') <= Cardinality(DirtyLines) + hw + mw
    PROVE  StatInv'
<1> DEFINE A == Allocations
           B == BlockSize
           d == Cardinality(DirtyLines)
           e == Cardinality(DirtyLines')
           w == cnt["hit_write"] + cnt["miss_write"]
<1>1. /\ \A f \in {"mem_reads", "burst_reads", "mem_writes", "burst_writes",
                   "miss_read", "miss_write", "hit_write"} : cnt[f] \in Nat
      /\ B \in Nat /\ B - 1 \in Nat
  BY CountsAreNumbers, Sizes DEF Counters
<1>2. A \in Nat /\ Allocations' = A + n
  BY <1>1 DEF Allocations
<1>3. d \in Nat /\ e \in Nat /\ w \in Nat
  <2>1. DirtyLines \in SUBSET (Ways \X Rows) /\ DirtyLines' \in SUBSET (Ways \X Rows)
    BY DEF DirtyLines
  <2>2. d \in Nat /\ e \in Nat
    BY <2>1, DirtyFinite
  <2> QED BY <1>1, <2>2
<1>4. /\ cnt["mem_reads"] = B * A /\ cnt["burst_reads"] = (B - 1) * A
      /\ cnt["burst_writes"] <= cnt["mem_writes"]
      /\ WritePolicy = "WP_BACK" =>
            /\ cnt["burst_writes"] * B = cnt["mem_writes"] * (B - 1)
            /\ cnt["mem_writes"] + (B * d) <= B * w
  BY DEF StatInv
<1> HIDE DEF A, B, d, e
<1>5. cnt'["mem_reads"] = B * (A + n) /\ cnt'["burst_reads"] = (B - 1) * (A + n)
  <2>1. B * (A + 1) = (B * A) + B /\ (B - 1) * (A + 1) = ((B - 1) * A) + (B - 1)
    BY <1>1, <1>2
  <2>2. A + 0 = A /\ (B * A) + 0 = B * A /\ ((B - 1) * A) + 0 = (B - 1) * A
    BY <1>1, <1>2
  <2>3. CASE n = 0
    BY <1>4, <2>2, <2>3 DEF B
  <2>4. CASE n = 1
    BY <1>4, <2>1, <2>4 DEF B
  <2> QED BY <2>3, <2>4
<1>6. cnt'["burst_writes"] <= cnt'["mem_writes"]
  BY <1>1, <1>4 DEF B
<1>7. ASSUME WritePolicy = "WP_BACK"
      PROVE  /\ cnt'["burst_writes"] * B = cnt'["mem_writes"] * (B - 1)
             /\ cnt'["mem_writes"] + (B * e) <= B * (w + hw + mw)
  <2> DEFINE bw == cnt["burst_writes"]
             ww == cnt["mem_writes"]
  <2>1. bw \in Nat /\ ww \in Nat /\ bw * B = ww * (B - 1) /\ ww + (B * d) <= B * w
    BY <1>1, <1>4, <1>7
  <2>2. /\ cnt'["burst_writes"] = bw + (IF k = 1 THEN B - 1 ELSE 0)
        /\ cnt'["mem_writes"] = ww + (IF k = 1 THEN B ELSE 0)
    BY <1>1, <1>7 DEF B
  <2>3. k + e <= d + hw + mw
    BY <1>7 DEF d, e
  <2> HIDE DEF bw, ww, w
  <2>4. cnt'["burst_writes"] * B = cnt'["mem_writes"] * (B - 1)
    <3>1. (bw + (B - 1)) * B = (bw * B) + ((B - 1) * B)
      BY <1>1, <2>1
    <3>2. (ww + B) * (B - 1) = (ww * (B - 1)) + (B * (B - 1))
      BY <1>1, <2>1
    <3>3. (B - 1) * B = B * (B - 1) /\ bw + 0 = bw /\ ww + 0 = ww
      BY <1>1, <2>1
    <3>4. CASE k = 0
      BY <2>1, <2>2, <3>3, <3>4
    <3>5. CASE k = 1
      BY <2>1, <2>2, <3>1, <3>2, <3>3, <3>5
    <3> QED BY <3>4, <3>5
  <2>5. B * (k + e) <= B * (d + hw + mw)
    BY <1>1, <1>3, <2>3
  <2>6. /\ B * (k + e) = (B * k) + (B * e)
        /\ B * (d + hw + mw) = (B * d) + (B * (hw + mw))
        /\ B * (w + hw + mw) = (B * w) + (B * (hw + mw))
    BY <1>1, <1>3
  <2>7. (IF k = 1 THEN B ELSE 0) = B * k
    BY <1>1
  <2>8. /\ B * k \in Nat /\ B * e \in Nat /\ B * d \in Nat /\ B * w \in Nat
        /\ B * (hw + mw) \in Nat
    BY <1>1, <1>3
  <2> HIDE DEF w
  <2>9. cnt'["mem_writes"] + (B * e) <= B * (w + hw + mw)
    BY <2>1, <2>2, <2>5, <2>6, <2>7, <2>8
  <2> QED BY <2>4, <2>9
<1>8. w + hw + mw = cnt'["hit_write"] + cnt'["miss_write"]
  BY <1>1
<1> QED BY <1>2, <1>5, <1>6, <1>7, <1>8 DEF StatInv, B, e

\* A step that moves no counter but change_counter and makes no line dirty.
LEMMA QuietStep ==
    ASSUME cnt \in CntTypes, StatInv, \A f \in Statistics : cnt'[f] = cnt[f],
           DirtyLines' \subseteq DirtyLines
    PROVE  StatInv'
<1>1. /\ cnt'["mem_reads"] = cnt["mem_reads"] /\ cnt'["burst_reads"] = cnt["burst_reads"]
      /\ cnt'["mem_writes"] = cnt["mem_writes"] /\ cnt'["burst_writes"] = cnt["burst_writes"]
      /\ cnt'["miss_read"] = cnt["miss_read"] /\ cnt'["miss_write"] = cnt["miss_write"]
      /\ cnt'["hit_write"] = cnt["hit_write"]
  BY DEF Statistics, Counters
<1>2. \A f \in Counters : cnt[f] \in Nat
  BY CountsAreNumbers
<1>3. Cardinality(DirtyLines') <= Cardinality(DirtyLines)
  <2>1. DirtyLines \in SUBSET (Ways \X Rows)
    BY DEF DirtyLines
  <2> QED BY <2>1, DirtyFinite, FS_Subset
<1>4. Cardinality(DirtyLines) \in Nat /\ Cardinality(DirtyLines') \in Nat
  <2>1. DirtyLines \in SUBSET (Ways \X Rows) /\ DirtyLines' \in SUBSET (Ways \X Rows)
    BY DEF DirtyLines
  <2> QED BY <2>1, DirtyFinite
<1>5. /\ cnt["mem_reads"] \in Nat /\ cnt["burst_reads"] \in Nat /\ cnt["mem_writes"] \in Nat
      /\ cnt["burst_writes"] \in Nat /\ cnt["miss_read"] \in Nat
      /\ cnt["miss_write"] \in Nat /\ cnt["hit_write"] \in Nat
  BY <1>2 DEF Counters
<1>6. /\ 0 + Cardinality(DirtyLines') <= Cardinality(DirtyLines) + 0 + 0
      /\ cnt["mem_reads"] + 0 = cnt["mem_reads"] /\ cnt["burst_reads"] + 0 = cnt["burst_reads"]
      /\ cnt["mem_writes"] + 0 + 0 = cnt["mem_writes"]
      /\ cnt["burst_writes"] + 0 = cnt["burst_writes"]
      /\ cnt["miss_read"] + 0 = cnt["miss_read"] /\ cnt["miss_write"] + 0 = cnt["miss_write"]
      /\ cnt["hit_write"] + 0 = cnt["hit_write"]
  BY <1>3, <1>4, <1>5
<1>7. 0 = 0 + (IF WritePolicy = "WP_THROUGH_NOALLOC" THEN 0 ELSE 0)
  OBVIOUS
<1> QED BY <1>1, <1>6, <1>7, StatStep

\* What a counter is after an addition that did not turn it around.
LEMMA Counted ==
    ASSUME NEW c \in CntTypes, NEW d, NEW f \in Counters, f \in DOMAIN d,
           d[f] \in Nat, d[f] < CounterModulus, Count(c, d)[f] >= c[f]
    PROVE  Count(c, d)[f] = c[f] + d[f]
<1>1. c[f] \in Nat /\ c[f] < CounterModulus /\ CounterModulus \in Nat
  BY CacheAssumption DEF CntTypes
<1>2. Count(c, d)[f] = IF c[f] + d[f] < CounterModulus THEN c[f] + d[f]
                       ELSE (c[f] + d[f]) - CounterModulus
  BY CountAt
<1> HIDE DEF Counters
<1> QED BY <1>1, <1>2

LEMMA NotCounted ==
    ASSUME NEW c, NEW d, NEW f \in Counters, f \notin DOMAIN d
    PROVE  Count(c, d)[f] = c[f]
BY DEF Count

\* The dirty lines after one line was replaced.
LEMMA DirtyAfter ==
    ASSUME dt \in [Ways -> [Rows -> Lines]], NEW way \in Ways, NEW row \in Rows,
           NEW line, dt' = [dt EXCEPT ![way][row] = line]
    PROVE  LET d == Cardinality(DirtyLines)
               e == Cardinality(DirtyLines')
           IN  /\ d \in Nat /\ e \in Nat
               /\ e <= d + 1
               /\ dt[way][row].dirty => e <= d
               /\ ~line.dirty => DirtyLines' \subseteq DirtyLines /\ e <= d
               /\ ~line.dirty /\ dt[way][row].dirty => 1 + e <= d
<1> DEFINE p == <<way, row>>
           D == DirtyLines
           E == DirtyLines'
<1>1. \A w \in Ways, r \in Rows :
         dt'[w][r] = IF w = way /\ r = row THEN line ELSE dt[w][r]
  OBVIOUS
<1>2. D \in SUBSET (Ways \X Rows) /\ E \in SUBSET (Ways \X Rows)
  BY DEF DirtyLines
<1>3. p \in D <=> dt[way][row].dirty
  BY DEF DirtyLines
<1>4. p \in E <=> line.dirty
  BY <1>1 DEF DirtyLines
<1>5. \A q \in Ways \X Rows : q # p => (q \in E <=> q \in D)
  BY <1>1 DEF DirtyLines
<1> HIDE DEF D, E, p
<1>6. E \subseteq D \cup {p}
  BY <1>2, <1>5
<1>7. ~line.dirty => E \subseteq D \ {p}
  BY <1>2, <1>4, <1>5
<1>8. IsFiniteSet(D) /\ Cardinality(D) \in Nat /\ Cardinality(E) \in Nat
  BY <1>2, DirtyFinite
<1>9. /\ Cardinality(D \cup {p}) = IF p \in D THEN Cardinality(D) ELSE Cardinality(D) + 1
      /\ Cardinality(D \ {p}) = IF p \in D THEN Cardinality(D) - 1 ELSE Cardinality(D)
      /\ IsFiniteSet(D \cup {p}) /\ IsFiniteSet(D \ {p})
  BY <1>8, FS_AddElement, FS_RemoveElement
<1>10. Cardinality(E) <= Cardinality(D \cup {p})
  BY <1>6, <1>9, FS_Subset
<1>11. ~line.dirty => Cardinality(E) <= Cardinality(D \ {p})
  BY <1>7, <1>9, FS_Subset
<1>12. /\ Cardinality(E) <= Cardinality(D) + 1
       /\ p \in D => Cardinality(E) <= Cardinality(D)
       /\ ~line.dirty => E \subseteq D /\ Cardinality(E) <= Cardinality(D)
       /\ ~line.dirty /\ p \in D => 1 + Cardinality(E) <= Cardinality(D)
  BY <1>7, <1>8, <1>9, <1>10, <1>11
<1> QED BY <1>3, <1>8, <1>12 DEF D, E

Rises == \A f \in Statistics : cnt'[f] >= cnt[f]

LEMMA TransferCounts ==
    ASSUME NEW way, NEW line, NEW st, NEW c, Transfer(way, line, st, c)
    PROVE  \A f \in Statistics : cnt'[f] = c[f]
<1> SUFFICES ASSUME NEW f \in Statistics PROVE cnt'[f] = c[f]
  OBVIOUS
<1>1. f \in Counters /\ f # "change_counter"
  BY DEF Statistics
<1>2. cnt' = Count(c, [change_counter |-> 1]) \/ cnt' = c
  BY DEF Transfer
<1>3. f \notin DOMAIN [change_counter |-> 1]
  BY <1>1
<1> QED BY <1>1, <1>2, <1>3, NotCounted

LEMMA NewLineDirty ==
    ASSUME NEW line \in Lines
    PROVE  NewLine(line).dirty = (IF call.op = "read" THEN line.dirty ELSE TRUE)
<1> HIDE DEF WrittenData
<1> QED BY DEF NewLine, ReadOrWrite, Lines

LEMMA HitCounts ==
    ASSUME Inv, StatInv, StatisticsUse, AccessHit, Rises
    PROVE  StatInv'
<1> DEFINE way == FindBlockIndex(CurAddr)
           row == Row(CurAddr)
           line == dt[way][row]
           d == ReadOrWrite([hit_read |-> 1], [hit_write |-> 1])
           hw == IF call.op = "read" THEN 0 ELSE 1
<1>1. /\ dt \in [Ways -> [Rows -> Lines]] /\ CallOK /\ TypeOK /\ cnt \in CntTypes
  BY DEF Inv, TypeOK, CntTypes
<1>2. InAccess /\ HitWays(CurAddr) # {} /\ Transfer(way, line, stats, Count(cnt, d))
  BY DEF AccessHit
<1>3. CurAddr \in Addr
  BY <1>1, <1>2, AccessFacts
<1>4. way \in Ways /\ row \in Rows /\ line \in Lines
  BY <1>1, <1>2, <1>3, HitUnique, LocationFacts DEF Inv
<1>5. \A f \in Statistics : cnt'[f] = Count(cnt, d)[f]
  BY <1>2, TransferCounts
<1>6. dt' = [dt EXCEPT ![way][row] = NewLine(line)]
  BY <1>2 DEF Transfer
<1>7. NewLine(line).dirty = (IF call.op = "read" THEN line.dirty ELSE TRUE)
  BY <1>4, NewLineDirty
<1>8. \A f \in Statistics \ {"hit_read", "hit_write"} : cnt'[f] = cnt[f]
  BY <1>5, NotCounted DEF Statistics, ReadOrWrite
<1>9. cnt'["hit_write"] = cnt["hit_write"] + hw
  <2>1. "hit_write" \in Statistics /\ "hit_write" \in Counters
    BY DEF Statistics, Counters
  <2>2. cnt["hit_write"] \in Nat
    BY <1>1, <2>1, CountsAreNumbers
  <2>3. CASE call.op = "read"
    <3>1. cnt'["hit_write"] = cnt["hit_write"]
      BY <1>5, <2>1, <2>3, NotCounted DEF ReadOrWrite
    <3> QED BY <2>2, <2>3, <3>1
  <2>4. CASE call.op # "read"
    <3>1. /\ d = [hit_write |-> 1]
          /\ "hit_write" \in DOMAIN [hit_write |-> 1] /\ [hit_write |-> 1]["hit_write"] = 1
      BY <2>4 DEF ReadOrWrite
    <3>2. 1 \in Nat /\ 1 < CounterModulus
      BY Sizes, CacheAssumption DEF StatisticsUse
    <3>3. Count(cnt, d)["hit_write"] >= cnt["hit_write"]
      BY <1>5, <2>1 DEF Rises
    <3> HIDE DEF d
    <3>4. Count(cnt, d)["hit_write"] = cnt["hit_write"] + 1
      BY <1>1, <2>1, <3>1, <3>2, <3>3, Counted
    <3> QED BY <1>5, <2>1, <2>4, <3>4
  <2> QED BY <2>3, <2>4
<1> HIDE DEF way, row, line
<1>10. 0 + Cardinality(DirtyLines') <= Cardinality(DirtyLines) + hw + 0
  <2>1. LET x == Cardinality(DirtyLines)
            e == Cardinality(DirtyLines')
        IN  /\ x \in Nat /\ e \in Nat /\ e <= x + 1
            /\ dt[way][row].dirty => e <= x
            /\ ~NewLine(line).dirty => e <= x
    BY <1>1, <1>4, <1>6, DirtyAfter
  <2>2. call.op = "read" => dt[way][row].dirty \/ ~NewLine(line).dirty
    BY <1>7 DEF line
  <2>3. CASE call.op = "read"
    BY <2>1, <2>2, <2>3
  <2>4. CASE call.op # "read"
    BY <2>1, <2>4
  <2> QED BY <2>3, <2>4
<1>11. /\ cnt'["mem_reads"] = cnt["mem_reads"] /\ cnt'["burst_reads"] = cnt["burst_reads"]
       /\ cnt'["mem_writes"] = cnt["mem_writes"] /\ cnt'["burst_writes"] = cnt["burst_writes"]
       /\ cnt'["miss_read"] = cnt["miss_read"] /\ cnt'["miss_write"] = cnt["miss_write"]
  BY <1>8 DEF Statistics, Counters
<1>12. /\ cnt["mem_reads"] \in Nat /\ cnt["burst_reads"] \in Nat /\ cnt["mem_writes"] \in Nat
       /\ cnt["burst_writes"] \in Nat /\ cnt["miss_read"] \in Nat /\ cnt["miss_write"] \in Nat
  BY <1>1, CountsAreNumbers DEF Counters
<1>13. /\ cnt["mem_reads"] + 0 = cnt["mem_reads"] /\ cnt["burst_reads"] + 0 = cnt["burst_reads"]
       /\ cnt["mem_writes"] + 0 + 0 = cnt["mem_writes"]
       /\ cnt["burst_writes"] + 0 = cnt["burst_writes"]
       /\ cnt["miss_read"] + 0 = cnt["miss_read"] /\ cnt["miss_write"] + 0 = cnt["miss_write"]
       /\ 0 = 0 + (IF WritePolicy = "WP_THROUGH_NOALLOC" THEN 0 ELSE 0) /\ hw \in Nat
  BY <1>12
<1> HIDE DEF hw
<1> QED BY <1>1, <1>9, <1>10, <1>11, <1>13, StatStep

\* A kicked line: its block is written back if it was dirty, and then it is clean.
LEMMA KickCounts ==
    ASSUME TypeOK, StatisticsUse, NEW way \in Ways, NEW row \in Rows,
           \A f \in Statistics : KickedCnt(way, row)[f] >= cnt[f]
    PROVE  /\ \A f \in Statistics \ {"mem_writes", "burst_writes"} :
                 KickedCnt(way, row)[f] = cnt[f]
           /\ KickedCnt(way, row)["mem_writes"] =
                 cnt["mem_writes"] + (IF WritesBack(way, row) THEN BlockSize ELSE 0)
           /\ KickedCnt(way, row)["burst_writes"] =
                 cnt["burst_writes"] + (IF WritesBack(way, row) THEN BlockSize - 1 ELSE 0)
<1>1. cnt \in CntTypes
  BY DEF TypeOK, CntTypes
<1>2. /\ "mem_writes" \in Counters /\ "burst_writes" \in Counters
      /\ "mem_writes" \in Statistics /\ "burst_writes" \in Statistics
  BY DEF Counters, Statistics
<1>3. cnt["mem_writes"] \in Nat /\ cnt["burst_writes"] \in Nat
  BY <1>1, <1>2, CountsAreNumbers
<1>4. /\ BlockSize \in Nat /\ BlockSize - 1 \in Nat /\ BlockSize < CounterModulus
      /\ BlockSize - 1 < CounterModulus /\ CounterModulus \in Nat
  BY Sizes, CacheAssumption DEF StatisticsUse
<1>5. CASE WritesBack(way, row)
  <2> DEFINE d == [mem_writes |-> BlockSize, burst_writes |-> BlockSize - 1,
                   change_counter |-> 1]
  <2>1. KickedCnt(way, row) = Count(cnt, d)
    BY <1>5 DEF KickedCnt
  <2>2. /\ "mem_writes" \in DOMAIN d /\ "burst_writes" \in DOMAIN d
        /\ d["mem_writes"] = BlockSize /\ d["burst_writes"] = BlockSize - 1
        /\ \A f \in Statistics \ {"mem_writes", "burst_writes"} : f \in Counters /\ f \notin DOMAIN d
    BY DEF Statistics, Counters
  <2> HIDE DEF d
  <2>3. Count(cnt, d)["mem_writes"] = cnt["mem_writes"] + BlockSize
    BY <1>1, <1>2, <1>4, <2>1, <2>2, Counted
  <2>4. Count(cnt, d)["burst_writes"] = cnt["burst_writes"] + (BlockSize - 1)
    BY <1>1, <1>2, <1>4, <2>1, <2>2, Counted
  <2> QED BY <1>5, <2>1, <2>2, <2>3, <2>4, NotCounted
<1>6. CASE ~WritesBack(way, row)
  <2>1. KickedCnt(way, row) = Count(cnt, [change_counter |-> 1])
    BY <1>6 DEF KickedCnt
  <2>2. \A f \in Statistics : f \in Counters /\ f \notin DOMAIN [change_counter |-> 1]
    BY DEF Statistics
  <2>3. \A f \in Statistics : KickedCnt(way, row)[f] = cnt[f]
    BY <2>1, <2>2, NotCounted
  <2> QED BY <1>2, <1>3, <1>6, <2>3
<1> QED BY <1>5, <1>6

LEMMA AllocCounts ==
    ASSUME Inv, StatInv, StatisticsUse, NEW way \in Ways, AccessMissAlloc(way), Rises
    PROVE  StatInv'
<1> DEFINE row == Row(CurAddr)
           line == FilledLine(CurAddr, KickedMem(way, row))
           d == [mem_reads |-> BlockSize, burst_reads |-> BlockSize - 1,
                 change_counter |-> BlockSize]
           m == ReadOrWrite([miss_read |-> 1], [miss_write |-> 1])
           k == KickedCnt(way, row)
           kd == Count(k, d)
           mr == IF call.op = "read" THEN 1 ELSE 0
           mw == IF call.op = "read" THEN 0 ELSE 1
           back == IF WritesBack(way, row) THEN 1 ELSE 0
<1>1. /\ dt \in [Ways -> [Rows -> Lines]] /\ StatsOK(stats) /\ CallOK /\ TypeOK
      /\ cnt \in CntTypes
  BY DEF Inv, TypeOK, CntTypes
<1>2. InAccess /\ ~SkipsAllocation /\ Transfer(way, line, KickedStats(way, row), Count(kd, m))
  BY DEF AccessMissAlloc
<1>3. CurAddr \in Addr
  BY <1>1, <1>2, AccessFacts
<1>4. row \in Rows
  BY <1>3, LocationFacts
<1>5. KickedMem(way, row) \in [Addr -> Val] /\ k \in CntTypes
  BY <1>1, <1>4, KickTypes
<1>6. line \in Lines /\ ~line.dirty
  BY <1>3, <1>5, FilledType DEF FilledLine
<1>7. \A f \in Statistics : cnt'[f] = Count(kd, m)[f] /\ f \in Counters
  BY <1>2, TransferCounts DEF Statistics
<1>8. BlockSize \in Nat /\ BlockSize - 1 \in Nat /\ BlockSize < CounterModulus
      /\ BlockSize - 1 < CounterModulus /\ CounterModulus \in Nat /\ 1 < CounterModulus
  BY Sizes, CacheAssumption DEF StatisticsUse
<1>9. call.op \in {"read", "write"}
  BY <1>2 DEF InAccess
<1>10. m = IF call.op = "read" THEN [miss_read |-> 1] ELSE [miss_write |-> 1]
  BY DEF ReadOrWrite
<1>11. dt' = [dt EXCEPT ![way][row] = NewLine(line)]
  BY <1>2 DEF Transfer
<1>12. call.op = "read" => ~NewLine(line).dirty
  <2> HIDE DEF line
  <2> QED BY <1>6, NewLineDirty
<1>13. /\ "mem_reads" \in DOMAIN d /\ "burst_reads" \in DOMAIN d
       /\ d["mem_reads"] = BlockSize /\ d["burst_reads"] = BlockSize - 1
       /\ DOMAIN d = {"mem_reads", "burst_reads", "change_counter"}
       /\ \A f \in DOMAIN d : d[f] \in Nat
  BY <1>8
<1>14. /\ call.op = "read" => DOMAIN m = {"miss_read"} /\ m["miss_read"] = 1
       /\ call.op # "read" => DOMAIN m = {"miss_write"} /\ m["miss_write"] = 1
  BY <1>10
<1> HIDE DEF row, line, k, d, m
<1>15. kd \in CntTypes
  BY <1>5, <1>13, CountType
<1>16. \A f \in Statistics \ {"miss_read", "miss_write"} : Count(kd, m)[f] = kd[f]
  BY <1>7, <1>14, NotCounted
<1>17. \A f \in Statistics \ {"mem_reads", "burst_reads"} : kd[f] = k[f]
  BY <1>7, <1>13, NotCounted DEF Statistics
<1>18. \A f \in Statistics \ {"mem_writes", "burst_writes"} : k[f] = cnt[f]
  <2> SUFFICES ASSUME NEW f \in Statistics \ {"mem_writes", "burst_writes"}
               PROVE  k[f] = cnt[f]
    OBVIOUS
  <2>1. f \in Counters /\ f # "change_counter"
    BY DEF Statistics
  <2>2. k = Count(cnt, [mem_writes |-> BlockSize, burst_writes |-> BlockSize - 1,
                        change_counter |-> 1])
        \/ k = Count(cnt, [change_counter |-> 1])
    BY DEF KickedCnt, k
  <2>3. /\ f \notin DOMAIN [mem_writes |-> BlockSize, burst_writes |-> BlockSize - 1,
                            change_counter |-> 1]
        /\ f \notin DOMAIN [change_counter |-> 1]
    BY <2>1
  <2> QED BY <2>1, <2>2, <2>3, NotCounted
<1>19. \A f \in Statistics : k[f] >= cnt[f]
  <2> SUFFICES ASSUME NEW f \in Statistics PROVE k[f] >= cnt[f]
    OBVIOUS
  <2>1. CASE f \in {"mem_writes", "burst_writes"}
    BY <1>7, <1>16, <1>17, <2>1 DEF Rises
  <2>2. CASE f \notin {"mem_writes", "burst_writes"}
    BY <1>1, <1>7, <1>18, <2>2, CountsAreNumbers
  <2> QED BY <2>1, <2>2
<1>20. /\ k["mem_writes"] = cnt["mem_writes"] + (IF back = 1 THEN BlockSize ELSE 0)
       /\ k["burst_writes"] = cnt["burst_writes"] + (IF back = 1 THEN BlockSize - 1 ELSE 0)
  BY <1>1, <1>4, <1>19, KickCounts DEF k
<1>21. /\ {"mem_reads", "burst_reads", "mem_writes", "burst_writes", "miss_read",
           "miss_write", "hit_write"} \subseteq Statistics
  BY DEF Statistics, Counters
<1>22. /\ cnt'["mem_reads"] = cnt["mem_reads"] + BlockSize
       /\ cnt'["burst_reads"] = cnt["burst_reads"] + (BlockSize - 1)
  <2>1. /\ cnt'["mem_reads"] = kd["mem_reads"] /\ cnt'["burst_reads"] = kd["burst_reads"]
        /\ k["mem_reads"] = cnt["mem_reads"] /\ k["burst_reads"] = cnt["burst_reads"]
    BY <1>7, <1>16, <1>18, <1>21
  <2>2. kd["mem_reads"] >= k["mem_reads"] /\ kd["burst_reads"] >= k["burst_reads"]
    BY <1>21, <2>1 DEF Rises
  <2>3. "mem_reads" \in Counters /\ "burst_reads" \in Counters
    BY <1>7, <1>21
  <2>4. kd["mem_reads"] = k["mem_reads"] + BlockSize
    BY <1>5, <1>8, <1>13, <2>2, <2>3, Counted
  <2>5. kd["burst_reads"] = k["burst_reads"] + (BlockSize - 1)
    BY <1>5, <1>8, <1>13, <2>2, <2>3, Counted
  <2> QED BY <2>1, <2>4, <2>5
<1>23. /\ cnt'["mem_writes"] = k["mem_writes"] /\ cnt'["burst_writes"] = k["burst_writes"]
       /\ cnt'["hit_write"] = cnt["hit_write"]
  BY <1>7, <1>16, <1>17, <1>18, <1>21
<1>24. /\ kd["miss_read"] = cnt["miss_read"] /\ kd["miss_write"] = cnt["miss_write"]
       /\ cnt["miss_read"] \in Nat /\ cnt["miss_write"] \in Nat
       /\ cnt["mem_writes"] \in Nat /\ cnt["hit_write"] \in Nat
  BY <1>1, <1>7, <1>17, <1>18, <1>21, CountsAreNumbers
<1>25. cnt'["miss_read"] = cnt["miss_read"] + mr /\ cnt'["miss_write"] = cnt["miss_write"] + mw
  <2>1. CASE call.op = "read"
    <3>1. Count(kd, m)["miss_read"] >= kd["miss_read"]
      BY <1>7, <1>21, <1>24 DEF Rises
    <3>2. Count(kd, m)["miss_read"] = kd["miss_read"] + 1
      BY <1>7, <1>8, <1>14, <1>15, <1>21, <2>1, <3>1, Counted
    <3>3. Count(kd, m)["miss_write"] = kd["miss_write"]
      BY <1>7, <1>14, <1>21, <2>1, NotCounted
    <3> QED BY <1>7, <1>21, <1>24, <2>1, <3>2, <3>3
  <2>2. CASE call.op # "read"
    <3>1. Count(kd, m)["miss_write"] >= kd["miss_write"]
      BY <1>7, <1>21, <1>24 DEF Rises
    <3>2. Count(kd, m)["miss_write"] = kd["miss_write"] + 1
      BY <1>7, <1>8, <1>14, <1>15, <1>21, <2>2, <3>1, Counted
    <3>3. Count(kd, m)["miss_read"] = kd["miss_read"]
      BY <1>7, <1>14, <1>21, <2>2, NotCounted
    <3> QED BY <1>7, <1>21, <1>24, <2>2, <3>2, <3>3
  <2> QED BY <2>1, <2>2
<1>26. 1 = mr + (IF WritePolicy = "WP_THROUGH_NOALLOC" THEN 0 ELSE mw)
  BY <1>2, <1>9 DEF SkipsAllocation
<1>27. ASSUME WritePolicy = "WP_BACK"
       PROVE  back + Cardinality(DirtyLines') <= Cardinality(DirtyLines) + 0 + mw
  <2>1. LET x == Cardinality(DirtyLines)
            e == Cardinality(DirtyLines')
        IN  /\ x \in Nat /\ e \in Nat /\ e <= x + 1
            /\ dt[way][row].dirty => e <= x
            /\ ~NewLine(line).dirty => e <= x
            /\ ~NewLine(line).dirty /\ dt[way][row].dirty => 1 + e <= x
    BY <1>1, <1>4, <1>11, DirtyAfter
  <2>2. back = IF dt[way][row].dirty THEN 1 ELSE 0
    BY <1>27 DEF WritesBack
  <2>3. CASE call.op = "read"
    BY <1>12, <2>1, <2>2, <2>3
  <2>4. CASE call.op # "read"
    BY <2>1, <2>2, <2>4
  <2> QED BY <2>3, <2>4
<1>28. /\ cnt'["mem_reads"] = cnt["mem_reads"] + (IF 1 = 1 THEN BlockSize ELSE 0)
       /\ cnt'["burst_reads"] = cnt["burst_reads"] + (IF 1 = 1 THEN BlockSize - 1 ELSE 0)
       /\ cnt'["mem_writes"] = cnt["mem_writes"] + (IF back = 1 THEN BlockSize ELSE 0) + 0
       /\ cnt'["burst_writes"] = cnt["burst_writes"] + (IF back = 1 THEN BlockSize - 1 ELSE 0)
       /\ cnt'["hit_write"] = cnt["hit_write"] + 0
  BY <1>8, <1>20, <1>22, <1>23, <1>24
<1>29. back \in {0, 1} /\ mr \in Nat /\ mw \in Nat
  OBVIOUS
<1> HIDE DEF back, mr, mw
<1> QED BY <1>1, <1>25, <1>26, <1>27, <1>28, <1>29, StatStep

\* flush() kicks one line.
LEMMA FlushCounts ==
    ASSUME Inv, StatInv, StatisticsUse, FlushStep, Rises
    PROVE  StatInv'
<1> DEFINE way == call.way
           row == call.row
           back == IF WritesBack(way, row) THEN 1 ELSE 0
<1>1. /\ dt \in [Ways -> [Rows -> Lines]] /\ CallOK /\ TypeOK /\ cnt \in CntTypes
  BY DEF Inv, TypeOK, CntTypes
<1>2. CASE ~dt[way][row].valid
  <2>1. cnt' = cnt /\ dt' = dt
    BY <1>2 DEF FlushStep
  <2>2. DirtyLines' \subseteq DirtyLines /\ \A f \in Statistics : cnt'[f] = cnt[f]
    BY <2>1 DEF DirtyLines
  <2> QED BY <1>1, <2>2, QuietStep
<1>3. CASE dt[way][row].valid
  <2>1. /\ dt' = [dt EXCEPT ![way][row] = KickedLine(way, row)]
        /\ cnt' = KickedCnt(way, row)
    BY <1>3 DEF FlushStep
  <2>2. way \in Ways /\ row \in Rows
    <3>1. call \in FlushCalls
      BY <1>1 DEF FlushStep, CallOK, AccessCalls, Idle
    <3> QED BY <3>1, Sizes DEF FlushStep, FlushCalls, Ways, Rows
  <2>3. ~KickedLine(way, row).dirty
    <3>1. dt[way][row] \in Lines
      BY <1>1, <2>2
    <3> QED BY <3>1 DEF KickedLine, Lines
  <2> HIDE DEF way, row
  <2>4. /\ \A f \in Statistics \ {"mem_writes", "burst_writes"} : cnt'[f] = cnt[f]
        /\ cnt'["mem_writes"] = cnt["mem_writes"] + (IF WritesBack(way, row) THEN BlockSize ELSE 0)
        /\ cnt'["burst_writes"] =
              cnt["burst_writes"] + (IF WritesBack(way, row) THEN BlockSize - 1 ELSE 0)
    BY <1>1, <2>1, <2>2, KickCounts DEF Rises
  <2>5. /\ cnt'["mem_reads"] = cnt["mem_reads"] /\ cnt'["burst_reads"] = cnt["burst_reads"]
        /\ cnt'["miss_read"] = cnt["miss_read"] /\ cnt'["miss_write"] = cnt["miss_write"]
        /\ cnt'["hit_write"] = cnt["hit_write"]
    BY <2>4 DEF Statistics, Counters
  <2>6. /\ cnt["mem_reads"] \in Nat /\ cnt["burst_reads"] \in Nat /\ cnt["mem_writes"] \in Nat
        /\ cnt["miss_read"] \in Nat /\ cnt["miss_write"] \in Nat /\ cnt["hit_write"] \in Nat
        /\ BlockSize \in Nat
    BY <1>1, CountsAreNumbers, Sizes DEF Counters
  <2>7. /\ cnt'["mem_reads"] = cnt["mem_reads"] + 0 /\ cnt'["burst_reads"] = cnt["burst_reads"] + 0
        /\ cnt'["mem_writes"] = cnt["mem_writes"] + (IF back = 1 THEN BlockSize ELSE 0) + 0
        /\ cnt'["burst_writes"] = cnt["burst_writes"] + (IF back = 1 THEN BlockSize - 1 ELSE 0)
        /\ cnt'["miss_read"] = cnt["miss_read"] + 0 /\ cnt'["miss_write"] = cnt["miss_write"] + 0
        /\ cnt'["hit_write"] = cnt["hit_write"] + 0
        /\ 0 = 0 + (IF WritePolicy = "WP_THROUGH_NOALLOC" THEN 0 ELSE 0)
    BY <2>4, <2>5, <2>6
  <2>8. ASSUME WritePolicy = "WP_BACK"
        PROVE  back + Cardinality(DirtyLines') <= Cardinality(DirtyLines) + 0 + 0
    <3>1. LET x == Cardinality(DirtyLines)
              e == Cardinality(DirtyLines')
          IN  /\ x \in Nat /\ e \in Nat /\ e <= x
              /\ dt[way][row].dirty => 1 + e <= x
      BY <1>1, <2>1, <2>2, <2>3, DirtyAfter
    <3>2. back = IF dt[way][row].dirty THEN 1 ELSE 0
      BY <2>8 DEF WritesBack
    <3> QED BY <3>1, <3>2
  <2>9. back \in {0, 1}
    OBVIOUS
  <2> HIDE DEF back
  <2> QED BY <1>1, <2>7, <2>8, <2>9, StatStep
<1> QED BY <1>2, <1>3

\* Every step keeps the sums; no access goes around the cache.
LEMMA NextStat ==
    ASSUME StatisticsUse, Inv, StatInv, [Next]_vars, Rises
    PROVE  StatInv'
<1>1. cnt \in CntTypes /\ dt \in [Ways -> [Rows -> Lines]] /\ CallOK
  BY DEF Inv, TypeOK, CntTypes
<1>2. ASSUME UNCHANGED <<dt, cnt>>
      PROVE  StatInv'
  <2>1. DirtyLines' \subseteq DirtyLines /\ \A f \in Statistics : cnt'[f] = cnt[f]
    BY <1>2 DEF DirtyLines
  <2> QED BY <1>1, <2>1, QuietStep
<1>3. ASSUME NEW r \in Requests, NEW buf, WriteBypass(r, buf) \/ WriteStart(r, buf)
      PROVE  StatInv'
  BY <1>2, <1>3 DEF WriteBypass, WriteStart, StatisticsUse
<1>4. ASSUME NEW r \in Requests, ReadBypass(r) \/ ReadStart(r)
      PROVE  StatInv'
  BY <1>2, <1>4 DEF ReadBypass, ReadStart, StatisticsUse
<1>5. ASSUME NEW r \in DebugRequests, ReadInternal(r)
      PROVE  StatInv'
  BY <1>2, <1>5 DEF ReadInternal, StatisticsUse
<1>6. CASE AccessMissNoAlloc
  <2> DEFINE m == [miss_write |-> 1]
  <2>1. /\ cnt' = Count(cnt, m) /\ dt' = dt
        /\ WritePolicy = "WP_THROUGH_NOALLOC"
    BY <1>6 DEF AccessMissNoAlloc, SkipsAllocation
  <2>2. \A f \in Statistics : f \in Counters
    BY DEF Statistics
  <2>3. DOMAIN m = {"miss_write"} /\ m["miss_write"] = 1
    OBVIOUS
  <2> HIDE DEF m
  <2>4. \A f \in Statistics \ {"miss_write"} : cnt'[f] = cnt[f]
    BY <2>1, <2>2, <2>3, NotCounted
  <2>5. "miss_write" \in Statistics
    BY DEF Statistics, Counters
  <2>6. 1 \in Nat /\ 1 < CounterModulus
    BY Sizes, CacheAssumption DEF StatisticsUse
  <2>7. cnt'["miss_write"] = cnt["miss_write"] + 1
    BY <1>1, <2>1, <2>2, <2>3, <2>5, <2>6, Counted DEF Rises
  <2>8. /\ cnt'["mem_reads"] = cnt["mem_reads"] /\ cnt'["burst_reads"] = cnt["burst_reads"]
        /\ cnt'["mem_writes"] = cnt["mem_writes"] /\ cnt'["burst_writes"] = cnt["burst_writes"]
        /\ cnt'["miss_read"] = cnt["miss_read"] /\ cnt'["hit_write"] = cnt["hit_write"]
    BY <2>4 DEF Statistics, Counters
  <2>9. /\ cnt["mem_reads"] \in Nat /\ cnt["burst_reads"] \in Nat /\ cnt["mem_writes"] \in Nat
        /\ cnt["burst_writes"] \in Nat /\ cnt["miss_read"] \in Nat /\ cnt["hit_write"] \in Nat
    BY <1>1, CountsAreNumbers DEF Counters
  <2>10. /\ cnt["mem_reads"] + 0 = cnt["mem_reads"] /\ cnt["burst_reads"] + 0 = cnt["burst_reads"]
         /\ cnt["mem_writes"] + 0 + 0 = cnt["mem_writes"]
         /\ cnt["burst_writes"] + 0 = cnt["burst_writes"]
         /\ cnt["miss_read"] + 0 = cnt["miss_read"] /\ cnt["hit_write"] + 0 = cnt["hit_write"]
         /\ 0 = 0 + (IF WritePolicy = "WP_THROUGH_NOALLOC" THEN 0 ELSE 1)
    BY <2>1, <2>9
  <2> QED BY <1>1, <2>1, <2>7, <2>8, <2>10, StatStep
<1>7. ASSUME WriteFinish, WritePolicy # "WP_BACK"
      PROVE  StatInv'
  <2> DEFINE m == [mem_writes |-> 1]
  <2>1. cnt' = Count(cnt, m) /\ dt' = dt
    BY <1>7 DEF WriteFinish
  <2>2. \A f \in Statistics : f \in Counters
    BY DEF Statistics
  <2>3. DOMAIN m = {"mem_writes"} /\ m["mem_writes"] = 1
    OBVIOUS
  <2> HIDE DEF m
  <2>4. \A f \in Statistics \ {"mem_writes"} : cnt'[f] = cnt[f]
    BY <2>1, <2>2, <2>3, NotCounted
  <2>5. "mem_writes" \in Statistics
    BY DEF Statistics, Counters
  <2>6. 1 \in Nat /\ 1 < CounterModulus
    BY Sizes, CacheAssumption DEF StatisticsUse
  <2>7. cnt'["mem_writes"] = cnt["mem_writes"] + 1
    BY <1>1, <2>1, <2>2, <2>3, <2>5, <2>6, Counted DEF Rises
  <2>8. /\ cnt'["mem_reads"] = cnt["mem_reads"] /\ cnt'["burst_reads"] = cnt["burst_reads"]
        /\ cnt'["burst_writes"] = cnt["burst_writes"]
        /\ cnt'["miss_read"] = cnt["miss_read"] /\ cnt'["miss_write"] = cnt["miss_write"]
        /\ cnt'["hit_write"] = cnt["hit_write"]
    BY <2>4 DEF Statistics, Counters
  <2>9. /\ cnt["mem_reads"] \in Nat /\ cnt["burst_reads"] \in Nat /\ cnt["mem_writes"] \in Nat
        /\ cnt["burst_writes"] \in Nat /\ cnt["miss_read"] \in Nat
        /\ cnt["miss_write"] \in Nat /\ cnt["hit_write"] \in Nat
    BY <1>1, CountsAreNumbers DEF Counters
  <2>10. /\ cnt["mem_reads"] + 0 = cnt["mem_reads"] /\ cnt["burst_reads"] + 0 = cnt["burst_reads"]
         /\ cnt["mem_writes"] + 0 + 1 = cnt["mem_writes"] + 1
         /\ cnt["burst_writes"] + 0 = cnt["burst_writes"]
         /\ cnt["miss_read"] + 0 = cnt["miss_read"] /\ cnt["miss_write"] + 0 = cnt["miss_write"]
         /\ cnt["hit_write"] + 0 = cnt["hit_write"]
         /\ 0 = 0 + (IF WritePolicy = "WP_THROUGH_NOALLOC" THEN 0 ELSE 0)
    BY <2>9
  <2> QED BY <1>1, <1>7, <2>7, <2>8, <2>10, StatStep
<1>8. CASE WriteFinish /\ WritePolicy = "WP_BACK"
  BY <1>2, <1>8 DEF WriteFinish
<1>9. CASE ReadFinish \/ FlushStart
  BY <1>2, <1>9 DEF ReadFinish, FlushStart
<1>10. CASE FlushFinish
  <2>1. cnt' = Count(cnt, [change_counter |-> 1]) /\ dt' = dt
    BY <1>10 DEF FlushFinish
  <2>2. \A f \in Statistics : f \in Counters /\ f \notin DOMAIN [change_counter |-> 1]
    BY DEF Statistics
  <2>3. \A f \in Statistics : cnt'[f] = cnt[f]
    BY <2>1, <2>2, NotCounted
  <2>4. DirtyLines' \subseteq DirtyLines
    BY <2>1 DEF DirtyLines
  <2> QED BY <1>1, <2>3, <2>4, QuietStep
<1>11. ASSUME NEW a, NEW v, DeviceChange(a, v)
       PROVE  StatInv'
  BY <1>2, <1>11 DEF DeviceChange
<1>12. CASE UNCHANGED vars
  BY <1>2, <1>12 DEF vars
<1>13. ~Restart
  BY DEF Restart, StatisticsUse
<1> QED
  BY <1>3, <1>4, <1>5, <1>6, <1>7, <1>8, <1>9, <1>10, <1>11, <1>12, <1>13,
     HitCounts, AllocCounts, FlushCounts DEF Next, Access

LEMMA InitStat == Init => StatInv
<1> SUFFICES ASSUME Init PROVE StatInv
  OBVIOUS
<1>1. /\ cnt["mem_reads"] = 0 /\ cnt["burst_reads"] = 0 /\ cnt["mem_writes"] = 0
      /\ cnt["burst_writes"] = 0 /\ cnt["miss_read"] = 0 /\ cnt["miss_write"] = 0
      /\ cnt["hit_write"] = 0
  BY DEF Init, Counters
<1>2. Allocations = 0
  BY <1>1 DEF Allocations
<1>3. DirtyLines = {}
  BY DEF Init, DirtyLines
<1>4. Cardinality(DirtyLines) = 0
  BY <1>3, FS_EmptySet
<1>5. BlockSize \in Nat /\ BlockSize - 1 \in Nat
  BY Sizes
<1>6. /\ BlockSize * 0 = 0 /\ (BlockSize - 1) * 0 = 0 /\ 0 * BlockSize = 0
      /\ 0 * (BlockSize - 1) = 0 /\ BlockSize * (0 + 0) = 0
  BY <1>5
<1> QED BY <1>1, <1>2, <1>4, <1>6 DEF StatInv

\* The statistics shown tell what happened, whatever is read, written and flushed: each
\* allocation fetched one block, a line is written back at most once for each time it got
\* dirty, and get_stall_count, an unsigned difference, is none below zero.
THEOREM StatisticsTell == StatisticsUse => (Spec /\ CountersRise => []StatisticsAddUp)
<1> SUFFICES ASSUME StatisticsUse PROVE Spec /\ CountersRise => []StatisticsAddUp
  OBVIOUS
<1>1. Inv /\ StatInv /\ [Next]_vars /\ [Rises]_vars => StatInv'
  <2> SUFFICES ASSUME Inv, StatInv, [Next]_vars, [Rises]_vars PROVE StatInv'
    OBVIOUS
  <2>1. CASE Rises
    BY <2>1, NextStat
  <2>2. CASE UNCHANGED vars
    <3>1. cnt \in CntTypes
      BY DEF Inv, TypeOK, CntTypes
    <3>2. DirtyLines' \subseteq DirtyLines /\ \A f \in Statistics : cnt'[f] = cnt[f]
      BY <2>2 DEF DirtyLines, vars
    <3> QED BY <3>1, <3>2, QuietStep
  <2> QED BY <2>1, <2>2
<1>2. Inv /\ StatInv => StatisticsAddUp
  <2> SUFFICES ASSUME Inv, StatInv PROVE StatisticsAddUp
    OBVIOUS
  <2>1. cnt \in CntTypes
    BY DEF Inv, TypeOK, CntTypes
  <2> QED BY <2>1, StallsNotNegative DEF StatInv, StatisticsAddUp
<1> QED BY <1>1, <1>2, InitInv, NextInv, InitStat, PTL DEF Spec, CountersRise, Rises
=============================================================================
