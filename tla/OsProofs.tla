------------------------------- MODULE OsProofs ------------------------------
(***************************************************************************)
(* What the operating system emulation hands out has one owner, and the    *)
(* registers report what the host did for a call, for every program, width *)
(* of a word, set of lengths and paths, and number of descriptors.         *)
(***************************************************************************)
EXTENDS OsSyscall, FiniteSetTheorems, SequenceTheorems, WellFoundedInduction, TLAPS

-----------------------------------------------------------------------------
(* Words wrap at WordSize.                                                  *)

LEMMA WordSizeType == WordSize \in Nat /\ WordSize > 16384 /\ WordSize % 32768 = 0
BY OsAssumption DEF TARGET_SYSCALL_MMAP2_UNIT

LEMMA WordSplit ==
    ASSUME NEW n \in Int
    PROVE  /\ Word(n) \in 0 .. WordSize - 1
           /\ \E q \in Int : n = q * WordSize + Word(n)
<1>1. WordSize \in Nat /\ WordSize > 0
  BY WordSizeType
<1>2. n % WordSize \in 0 .. WordSize - 1 /\ n \div WordSize \in Int
      /\ n = WordSize * (n \div WordSize) + (n % WordSize)
  BY <1>1
<1> QED
  BY <1>1, <1>2 DEF Word

LEMMA WordUnique ==
    ASSUME NEW q \in Int, NEW r \in 0 .. WordSize - 1
    PROVE  Word(q * WordSize + r) = r
<1> DEFINE n == q * WordSize + r
           s == Word(n)
<1>1. WordSize \in Nat /\ WordSize > 0 /\ n \in Int
  <2>1. WordSize \in Nat /\ WordSize > 0
    BY WordSizeType
  <2>2. q * WordSize \in Int
    BY <2>1
  <2> QED
    BY <2>1, <2>2
<1>2. s \in 0 .. WordSize - 1 /\ \E p \in Int : n = p * WordSize + s
  BY <1>1, WordSplit
<1>3. PICK p \in Int : n = p * WordSize + s
  BY <1>2
<1> HIDE DEF s
<1>4. (q - p) * WordSize = s - r
  <2>1. q * WordSize + r = p * WordSize + s
    BY <1>3
  <2>2. (q - p) * WordSize = q * WordSize - p * WordSize
    BY <1>1, <1>3
  <2>3. q * WordSize \in Int /\ p * WordSize \in Int
    BY <1>1, <1>3
  <2> QED
    BY <1>1, <1>2, <2>1, <2>2, <2>3
<1>5. q - p \in Int /\ -WordSize < s - r /\ s - r < WordSize
  BY <1>1, <1>2, <1>3
<1>6. q - p = 0
  <2>1. CASE q - p >= 1
    <3>1. (q - p) * WordSize >= WordSize
      BY <1>1, <1>5, <2>1
    <3> QED
      BY <1>1, <1>4, <1>5, <3>1
  <2>2. CASE q - p =< -1
    <3>1. (q - p) * WordSize =< -WordSize
      BY <1>1, <1>5, <2>2
    <3> QED
      BY <1>1, <1>4, <1>5, <3>1
  <2> QED
    BY <1>5, <2>1, <2>2
<1>7. s = r
  BY <1>1, <1>2, <1>4, <1>6
<1> QED
  BY <1>7 DEF s

LEMMA WordShift ==
    ASSUME NEW n \in Int, NEW q \in Int
    PROVE  Word(n + q * WordSize) = Word(n)
<1>1. WordSize \in Nat
  BY WordSizeType
<1>2. PICK p \in Int : n = p * WordSize + Word(n)
  BY WordSplit
<1>3. Word(n) \in 0 .. WordSize - 1 /\ Word(n) \in Int
  BY <1>1, WordSplit
<1>4. n + q * WordSize = (p + q) * WordSize + Word(n)
  <2>1. (p + q) * WordSize = p * WordSize + q * WordSize
    BY <1>1, <1>2
  <2>2. p * WordSize \in Int /\ q * WordSize \in Int
    BY <1>1, <1>2
  <2> QED
    BY <1>2, <1>3, <2>1, <2>2
<1>5. p + q \in Int
  BY <1>2
<1> QED
  BY <1>3, <1>4, <1>5, WordUnique

LEMMA WordOfWord ==
    ASSUME NEW m \in Int, NEW n \in Int
    PROVE  /\ Word(Word(m) + n) = Word(m + n)
           /\ Word(m + Word(n)) = Word(m + n)
           /\ Word(Word(m) - n) = Word(m - n)
           /\ Word(m - Word(n)) = Word(m - n)
<1>1. WordSize \in Nat
  BY WordSizeType
<1>2. PICK p \in Int : m = p * WordSize + Word(m)
  BY WordSplit
<1>3. PICK q \in Int : n = q * WordSize + Word(n)
  BY WordSplit
<1>4. Word(m) \in Int /\ Word(n) \in Int
  BY <1>1, WordSplit
<1>5. p * WordSize \in Int /\ q * WordSize \in Int /\ (-p) * WordSize = -(p * WordSize) /\ -p \in Int
  BY <1>1, <1>2, <1>3
<1>6. /\ Word(m) + n = (m + n) + (-p) * WordSize
      /\ Word(m) - n = (m - n) + (-p) * WordSize
  BY <1>2, <1>4, <1>5
<1>7. (-q) * WordSize = -(q * WordSize) /\ -q \in Int
  BY <1>1, <1>3
<1>8. /\ m + Word(n) = (m + n) + (-q) * WordSize
      /\ m - Word(n) = (m - n) + q * WordSize
  BY <1>3, <1>4, <1>5, <1>7
<1>9. m + n \in Int /\ m - n \in Int
  OBVIOUS
<1> QED
  BY <1>3, <1>5, <1>6, <1>7, <1>8, <1>9, WordShift

LEMMA WordSmall ==
    ASSUME NEW n \in 0 .. WordSize - 1
    PROVE  Word(n) = n
<1>1. 0 * WordSize + n = n
  BY WordSizeType
<1> QED
  BY <1>1, WordUnique

-----------------------------------------------------------------------------
(* Areas.                                                                   *)

Allocators == {"sbrk", "mmap2"}

LEMMA Units == Unit["sbrk"] = 16 /\ Unit["mmap2"] = 4096
BY DEF Unit, TARGET_SYSCALL_MMAP2_UNIT

LEMMA RoundsUp ==
    ASSUME NEW by \in Allocators, NEW n \in Nat
    PROVE  /\ RoundUp(n, Unit[by]) \in Nat /\ RoundUp(n, Unit[by]) >= n
           /\ RoundUp(n, Unit[by]) % Unit[by] = 0
           /\ n % Unit[by] = 0 => RoundUp(n, Unit[by]) = n
<1>1. CASE by = "sbrk"
  <2>1. /\ ((n + 15) \div 16) * 16 \in Nat /\ ((n + 15) \div 16) * 16 >= n
        /\ (((n + 15) \div 16) * 16) % 16 = 0
        /\ n % 16 = 0 => ((n + 15) \div 16) * 16 = n
    OBVIOUS
  <2>2. RoundUp(n, 16) = ((n + 15) \div 16) * 16
    BY DEF RoundUp
  <2> QED
    BY <1>1, <2>1, <2>2, Units
<1>2. CASE by = "mmap2"
  <2>1. /\ ((n + 4095) \div 4096) * 4096 \in Nat /\ ((n + 4095) \div 4096) * 4096 >= n
        /\ (((n + 4095) \div 4096) * 4096) % 4096 = 0
        /\ n % 4096 = 0 => ((n + 4095) \div 4096) * 4096 = n
    OBVIOUS
  <2>2. RoundUp(n, 4096) = ((n + 4095) \div 4096) * 4096
    BY DEF RoundUp
  <2> QED
    BY <1>2, <2>1, <2>2, Units
<1> QED
  BY <1>1, <1>2 DEF Allocators

\* the wrap keeps whole units
LEMMA WordKeepsUnits ==
    ASSUME NEW by \in Allocators, NEW n \in Nat, n % Unit[by] = 0
    PROVE  Word(n) % Unit[by] = 0
<1>1. PICK q \in Int : n = q * WordSize + Word(n)
  BY WordSplit
<1>2. Word(n) \in Int
  BY WordSplit, WordSizeType
<1>3. PICK w \in Int : WordSize = 32768 * w
  <2>1. WordSize = 32768 * (WordSize \div 32768) /\ WordSize \div 32768 \in Int
    BY WordSizeType
  <2> QED
    BY <2>1
<1> DEFINE qw == q * w
<1>4. qw \in Int /\ q * WordSize = 32768 * qw
  BY <1>1, <1>3
<1> HIDE DEF qw
<1>5. Word(n) = n - 32768 * qw
  BY <1>1, <1>2, <1>4
<1>6. CASE by = "sbrk"
  <2>1. n % 16 = 0
    BY <1>6, Units
  <2>2. (n - 32768 * qw) % 16 = 0
    BY <1>4, <2>1
  <2> QED
    BY <1>5, <1>6, <2>2, Units
<1>7. CASE by = "mmap2"
  <2>1. n % 4096 = 0
    BY <1>7, Units
  <2>2. (n - 32768 * qw) % 4096 = 0
    BY <1>4, <2>1
  <2> QED
    BY <1>5, <1>7, <2>2, Units
<1> QED
  BY <1>6, <1>7 DEF Allocators

\* what an allocator handed out last ends at, and where its next area starts
LastOf(by) == IF by = "sbrk" THEN brk_limit ELSE anonymous_last
Limit(by) == Word(RoundUp(LastOf(by), Unit[by]))
Rounded(a) == RoundUp(a.size, Unit[a.by])

AreasInv ==
    /\ handed \in [Allocators -> Nat]
    /\ \A a \in areas :
          /\ a.by \in Allocators /\ a.start \in 0 .. WordSize - 1 /\ a.size \in Nat /\ a.from \in Nat
          /\ a.from + Rounded(a) =< handed[a.by]
          /\ Word(a.start + (handed[a.by] - a.from)) = Limit(a.by)
    /\ \A a, b \in areas :
          a.by = b.by => \/ a = b
                         \/ a.from + Rounded(a) =< b.from
                         \/ b.from + Rounded(b) =< a.from

\* how far two areas are apart is what was handed out between them
LEMMA AreasApart ==
    ASSUME AreasInv, NEW a \in areas, NEW b \in areas, a.by = b.by
    PROVE  Word(b.start - a.start) = Word(b.from - a.from)
<1> DEFINE h == handed[a.by]
           A == a.start + (h - a.from)
           B == b.start + (h - b.from)
           d == b.from - a.from
<1>1. a.start \in Int /\ b.start \in Int /\ a.from \in Int /\ b.from \in Int /\ h \in Int
  BY WordSizeType DEF AreasInv
<1>2. Word(A) = Word(B)
  BY DEF AreasInv
<1>3. A \in Int /\ B \in Int /\ d \in Int /\ b.start - a.start = (B - A) + d
  BY <1>1
<1> HIDE DEF A, B, d
<1>4. Word(B - A) = 0
  <2>1. Word(Word(B) - A) = Word(B - A) /\ Word(A - A) = Word(Word(A) - A)
    BY <1>3, WordOfWord
  <2>2. A - A = 0 /\ Word(0) = 0
    BY <1>3, WordSmall, WordSizeType
  <2> QED
    BY <1>2, <2>1, <2>2
<1>5. Word(Word(B - A) + d) = Word((B - A) + d)
  BY <1>3, WordOfWord
<1>6. 0 + d = d
  BY <1>3
<1> QED
  BY <1>3, <1>4, <1>5, <1>6 DEF d

LEMMA AreasInvDisjoint ==
    AreasInv => AreasDisjoint
<1> SUFFICES ASSUME AreasInv, NEW a \in areas, NEW b \in areas,
                    a # b, a.by = b.by, a.size > 0, b.size > 0, Fits(a), Fits(b)
             PROVE  Word(b.start - a.start) >= a.size
  BY DEF AreasDisjoint
<1>1. Word(b.start - a.start) = Word(b.from - a.from)
  BY AreasApart
<1>2. /\ a.from \in Nat /\ b.from \in Nat /\ a.size \in Nat /\ b.size \in Nat
      /\ a.by \in Allocators
  BY DEF AreasInv
<1>3. Rounded(a) \in Nat /\ Rounded(a) >= a.size /\ Rounded(b) \in Nat /\ Rounded(b) >= b.size
  BY <1>2, RoundsUp DEF Rounded
<1>4. a.from + Rounded(a) =< WordSize /\ b.from + Rounded(b) =< WordSize
  BY DEF Fits, Rounded
<1>5. WordSize \in Nat
  BY WordSizeType
<1>6. CASE a.from + Rounded(a) =< b.from
  <2>1. b.from - a.from \in 0 .. WordSize - 1 /\ b.from - a.from >= a.size
    BY <1>2, <1>3, <1>4, <1>5, <1>6
  <2> QED
    BY <1>1, <2>1, WordSmall
<1>7. CASE b.from + Rounded(b) =< a.from
  <2> DEFINE r == (b.from - a.from) + WordSize
  <2>1. r \in 0 .. WordSize - 1 /\ r >= a.size /\ b.from - a.from \in Int
    BY <1>2, <1>3, <1>4, <1>5, <1>7
  <2>2. b.from - a.from = (-1) * WordSize + r
    BY <1>2, <1>5
  <2> HIDE DEF r
  <2>3. Word((-1) * WordSize + r) = r
    BY <2>1, WordUnique
  <2> QED
    BY <1>1, <2>1, <2>2, <2>3
<1> QED
  BY <1>6, <1>7 DEF AreasInv

LEMMA HandOutKeeps ==
    ASSUME AreasInv, NEW by \in Allocators, NEW len \in Nat,
           LastOf(by) \in Nat, HandOut(by, Limit(by), len),
           LastOf(by)' = Word(Limit(by) + Word(RoundUp(len, Unit[by]))),
           \A other \in Allocators \ {by} : LastOf(other)' = LastOf(other)
    PROVE  AreasInv'
<1> DEFINE start == Limit(by)
           r == RoundUp(len, Unit[by])
           new == [by |-> by, start |-> start, size |-> len, from |-> handed[by]]
<1>1. r \in Nat /\ r % Unit[by] = 0
  BY RoundsUp
<1>2. start \in 0 .. WordSize - 1 /\ start \in Nat /\ start % Unit[by] = 0
  <2>1. RoundUp(LastOf(by), Unit[by]) \in Nat /\ RoundUp(LastOf(by), Unit[by]) % Unit[by] = 0
    BY RoundsUp
  <2> QED
    BY <2>1, WordSplit, WordKeepsUnits, WordSizeType DEF Limit
<1>3. areas' = areas \cup {new} /\ handed' = [handed EXCEPT ![by] = @ + r]
  BY DEF HandOut
<1>4. handed \in [Allocators -> Nat]
  BY DEF AreasInv
<1> HIDE DEF r, start
<1>5. LastOf(by)' = Word(start + r)
  <2>1. LastOf(by)' = Word(start + Word(r))
    BY DEF r, start
  <2> QED
    BY <1>1, <1>2, <2>1, WordOfWord
<1>6. Limit(by)' = Word(start + r)
  <2> DEFINE e == Word(start + r)
  <2>1. (start + r) % Unit[by] = 0 /\ start + r \in Nat
    <3>1. CASE by = "sbrk"
      BY <1>1, <1>2, <3>1, Units
    <3>2. CASE by = "mmap2"
      BY <1>1, <1>2, <3>2, Units
    <3> QED
      BY <3>1, <3>2 DEF Allocators
  <2>2. e % Unit[by] = 0 /\ e \in 0 .. WordSize - 1 /\ e \in Nat
    BY <2>1, WordKeepsUnits, WordSplit, WordSizeType
  <2> HIDE DEF e
  <2>3. RoundUp(e, Unit[by]) = e /\ Word(e) = e
    BY <2>2, RoundsUp, WordSmall
  <2>4. Limit(by)' = Word(RoundUp(LastOf(by)', Unit[by]))
    BY DEF Limit
  <2> QED
    BY <1>5, <2>3, <2>4 DEF e
<1>7. \A other \in Allocators \ {by} : Limit(other)' = Limit(other) /\ handed'[other] = handed[other]
  BY <1>3, <1>4 DEF Limit
<1>8. handed'[by] = handed[by] + r /\ handed[by] \in Nat /\ handed' \in [Allocators -> Nat]
  BY <1>1, <1>3, <1>4
<1>9. /\ new.by = by /\ new.start = start /\ new.size = len /\ new.from = handed[by]
      /\ Rounded(new) = r
  BY DEF Rounded, r
<1> HIDE DEF new
<1>10. ASSUME NEW a \in areas'
       PROVE  /\ a.by \in Allocators /\ a.start \in 0 .. WordSize - 1 /\ a.size \in Nat /\ a.from \in Nat
              /\ Rounded(a) \in Nat
              /\ a.from + Rounded(a) =< handed'[a.by]
              /\ Word(a.start + (handed'[a.by] - a.from)) = Limit(a.by)'
  <2>1. CASE a = new
    <3>1. start + ((handed[by] + r) - handed[by]) = start + r
      BY <1>1, <1>2, <1>8
    <3> QED
      BY <1>1, <1>2, <1>6, <1>8, <1>9, <2>1, <3>1
  <2>2. CASE a \in areas
    <3>1. /\ a.by \in Allocators /\ a.start \in 0 .. WordSize - 1 /\ a.size \in Nat /\ a.from \in Nat
          /\ a.from + Rounded(a) =< handed[a.by] /\ Rounded(a) \in Nat
          /\ Word(a.start + (handed[a.by] - a.from)) = Limit(a.by)
      BY <2>2, RoundsUp DEF AreasInv, Rounded
    <3>2. CASE a.by # by
      BY <1>7, <3>1, <3>2
    <3>3. CASE a.by = by
      <4> DEFINE x == a.start + (handed[by] - a.from)
      <4>1. x \in Int /\ a.start + ((handed[by] + r) - a.from) = x + r
        BY <1>1, <1>8, <3>1
      <4>2. Word(x) = start
        BY <3>1, <3>3 DEF start
      <4> HIDE DEF x
      <4>3. Word(x + r) = Word(start + r)
        BY <1>1, <4>1, <4>2, WordOfWord
      <4>4. a.from + Rounded(a) =< handed[by] + r
        BY <1>1, <1>8, <3>1, <3>3
      <4> QED
        BY <1>6, <1>8, <3>1, <3>3, <4>1, <4>3, <4>4
    <3> QED
      BY <3>2, <3>3
  <2> QED
    BY <1>3, <2>1, <2>2
<1>11. ASSUME NEW a \in areas', NEW b \in areas', a.by = b.by
       PROVE  \/ a = b
              \/ a.from + Rounded(a) =< b.from
              \/ b.from + Rounded(b) =< a.from
  <2>1. \A c \in areas : c.by = by => c.from + Rounded(c) =< new.from
    BY <1>9 DEF AreasInv
  <2> QED
    BY <1>3, <1>9, <1>11, <2>1 DEF AreasInv
<1>12. \A a : Rounded(a)' = Rounded(a)
  BY DEF Rounded
<1>13. \A a \in areas' :
          /\ a.by \in Allocators /\ a.start \in 0 .. WordSize - 1 /\ a.size \in Nat /\ a.from \in Nat
          /\ a.from + Rounded(a) =< handed'[a.by]
          /\ Word(a.start + (handed'[a.by] - a.from)) = Limit(a.by)'
  BY <1>10
<1>14. \A a, b \in areas' :
          a.by = b.by => \/ a = b
                         \/ a.from + Rounded(a) =< b.from
                         \/ b.from + Rounded(b) =< a.from
  BY <1>11
<1> QED
  BY <1>8, <1>13, <1>14 DEF AreasInv, Rounded

-----------------------------------------------------------------------------
(* Descriptors.                                                             *)

Marks == {FD_UNUSED, FD_TERMINAL}

\* every open file has one slot, and every slot an open file or a mark
FdInv ==
    /\ fd_mapping \in Seq(HostFds \cup Marks) /\ Len(fd_mapping) =< MaxSlots
    /\ files \subseteq HostFds
    /\ \A f \in files : \E i \in 1 .. Len(fd_mapping) : fd_mapping[i] = f
    /\ \A i \in 1 .. Len(fd_mapping) : fd_mapping[i] \in files \cup Marks
    /\ \A i, j \in 1 .. Len(fd_mapping) :
          fd_mapping[i] \in files /\ fd_mapping[i] = fd_mapping[j] => i = j

LEMMA MarksAreNoFiles == \A f \in HostFds : f \notin Marks
BY OsAssumption DEF Marks, FD_UNUSED, FD_TERMINAL

LEMMA FdInvMatches == FdInv => FdTableMatchesHost
<1> SUFFICES ASSUME FdInv PROVE FdTableMatchesHost
  OBVIOUS
<1>1. DOMAIN fd_mapping = 1 .. Len(fd_mapping)
  BY DEF FdInv
<1>2. ASSUME NEW f \in files
      PROVE  Cardinality({i \in DOMAIN fd_mapping : fd_mapping[i] = f}) = 1
  <2>1. PICK i \in 1 .. Len(fd_mapping) : fd_mapping[i] = f
    BY <1>2 DEF FdInv
  <2>2. {j \in DOMAIN fd_mapping : fd_mapping[j] = f} = {i}
    BY <1>1, <1>2, <2>1 DEF FdInv
  <2> QED
    BY <2>2, FS_Singleton
<1>3. \A i \in DOMAIN fd_mapping : fd_mapping[i] \in files \cup {FD_UNUSED, FD_TERMINAL}
  BY <1>1 DEF FdInv, Marks
<1> QED
  BY <1>2, <1>3 DEF FdTableMatchesHost

\* every set of numbers has a least one
LEMMA LeastSlot ==
    ASSUME NEW S \in SUBSET Nat, S # {}
    PROVE  \E x \in S : \A y \in S : x =< y
<1> DEFINE Below == OpToRel(<, Nat)
<1>1. \A x, y \in Nat : <<y, x>> \in Below <=> y < x
  BY DEF OpToRel
<1>2. IsWellFoundedOn(Below, Nat)
  BY NatLessThanWellFounded
<1> HIDE DEF Below
<1>3. PICK x \in S : \A y \in S : ~(<<y, x>> \in Below)
  BY <1>2, WFMin
<1>4. ASSUME NEW y \in S
      PROVE  x =< y
  <2>1. x \in Nat /\ y \in Nat
    OBVIOUS
  <2>2. ~(y < x)
    BY <1>1, <1>3, <2>1
  <2> QED
    BY <2>1, <2>2
<1> QED
  BY <1>4

\* the slot allocate_fd takes
LEMMA FreeSlotFacts ==
    ASSUME FdInv
    PROVE  /\ FreeSlot \in Nat
           /\ FreeSlot # 0 => FreeSlot \in 1 .. Len(fd_mapping) /\ fd_mapping[FreeSlot] = FD_UNUSED
<1> DEFINE I == {i \in 1 .. Len(fd_mapping) : fd_mapping[i] = FD_UNUSED}
<1>1. FreeSlot = IF I # {} THEN Min(I) ELSE 0
  BY DEF FreeSlot, SelectInSeq
<1>2. I \subseteq Nat
  OBVIOUS
<1>3. CASE I # {}
  <2> DEFINE m == CHOOSE x \in I : \A y \in I : x =< y
  <2>1. m \in I
    BY <1>2, <1>3, LeastSlot
  <2>2. FreeSlot = m
    BY <1>1, <1>3 DEF Min
  <2> QED
    BY <2>1, <2>2
<1> QED
  BY <1>1, <1>3

\* a slot for a terminal, or for a file that was not open
LEMMA AllocateKeeps ==
    ASSUME FdInv, NEW val, val = FD_TERMINAL \/ val \in HostFds \ files,
           FreeSlot # 0 \/ Len(fd_mapping) < MaxSlots,
           fd_mapping' = allocate_fd(val)[2],
           files' = IF val = FD_TERMINAL THEN files ELSE files \cup {val}
    PROVE  FdInv'
<1>1. FreeSlot \in Nat /\ (FreeSlot # 0 => FreeSlot \in 1 .. Len(fd_mapping) /\ fd_mapping[FreeSlot] = FD_UNUSED)
  BY FreeSlotFacts
<1>2. fd_mapping \in Seq(HostFds \cup Marks) /\ val \in HostFds \cup Marks /\ files \subseteq HostFds
      /\ Len(fd_mapping) \in Nat /\ MaxSlots \in Nat
  BY OsAssumption DEF FdInv, Marks
<1>3. files' \subseteq HostFds /\ files \subseteq files' /\ files' \subseteq files \cup {val}
      /\ (val \in files' \cup Marks) /\ (val \in files' \/ val = FD_TERMINAL) /\ val \notin files
  <2>1. FD_TERMINAL \notin files
    BY <1>2, MarksAreNoFiles DEF Marks
  <2> QED
    BY <1>2, <2>1 DEF Marks
<1>4. val \in files' => val \notin Marks
  BY <1>3, MarksAreNoFiles
<1>5. PICK k \in 1 .. (Len(fd_mapping) + 1) :
        /\ fd_mapping' \in Seq(HostFds \cup Marks) /\ Len(fd_mapping') =< MaxSlots
        /\ Len(fd_mapping') >= Len(fd_mapping) /\ k \in 1 .. Len(fd_mapping')
        /\ \A i \in 1 .. Len(fd_mapping') :
              fd_mapping'[i] = IF i = k THEN val ELSE fd_mapping[i]
        /\ \A i \in 1 .. Len(fd_mapping') : i # k => i \in 1 .. Len(fd_mapping)
        /\ k \in 1 .. Len(fd_mapping) => fd_mapping[k] \in Marks
  <2>1. CASE FreeSlot # 0
    <3>1. fd_mapping' = [fd_mapping EXCEPT ![FreeSlot] = val]
      BY <2>1 DEF allocate_fd
    <3>2. fd_mapping' \in Seq(HostFds \cup Marks) /\ Len(fd_mapping') = Len(fd_mapping)
      BY <1>1, <1>2, <2>1, <3>1
    <3>3. \A i \in 1 .. Len(fd_mapping) :
             fd_mapping'[i] = IF i = FreeSlot THEN val ELSE fd_mapping[i]
      BY <1>2, <3>1
    <3>4. fd_mapping[FreeSlot] \in Marks
      BY <1>1, <2>1 DEF Marks
    <3> QED
      BY <1>1, <1>2, <2>1, <3>2, <3>3, <3>4 DEF FdInv
  <2>2. CASE FreeSlot = 0
    <3>1. fd_mapping' = Append(fd_mapping, val)
      BY <2>2 DEF allocate_fd
    <3>2. fd_mapping' \in Seq(HostFds \cup Marks) /\ Len(fd_mapping') = Len(fd_mapping) + 1
      BY <1>2, <3>1
    <3>3. \A i \in 1 .. (Len(fd_mapping) + 1) :
             fd_mapping'[i] = IF i = Len(fd_mapping) + 1 THEN val ELSE fd_mapping[i]
      BY <1>2, <3>1
    <3> QED
      BY <1>2, <2>2, <3>2, <3>3
  <2> QED
    BY <2>1, <2>2
<1>6. \A f \in files' : \E i \in 1 .. Len(fd_mapping') : fd_mapping'[i] = f
  <2> SUFFICES ASSUME NEW f \in files' PROVE \E i \in 1 .. Len(fd_mapping') : fd_mapping'[i] = f
    OBVIOUS
  <2>1. CASE f = val
    BY <1>5, <2>1
  <2>2. CASE f # val
    <3>1. f \in files /\ f \notin Marks
      BY <1>3, <2>2, MarksAreNoFiles
    <3>2. PICK i \in 1 .. Len(fd_mapping) : fd_mapping[i] = f
      BY <3>1 DEF FdInv
    <3> QED
      BY <1>2, <1>5, <3>1, <3>2
  <2> QED
    BY <2>1, <2>2
<1>7. \A i \in 1 .. Len(fd_mapping') : fd_mapping'[i] \in files' \cup Marks
  BY <1>3, <1>5 DEF FdInv
<1>8. \A i, j \in 1 .. Len(fd_mapping') :
         fd_mapping'[i] \in files' /\ fd_mapping'[i] = fd_mapping'[j] => i = j
  <2> SUFFICES ASSUME NEW i \in 1 .. Len(fd_mapping'), NEW j \in 1 .. Len(fd_mapping'),
                      fd_mapping'[i] \in files', fd_mapping'[i] = fd_mapping'[j]
               PROVE  i = j
    OBVIOUS
  <2>1. fd_mapping'[i] \notin Marks
    BY <1>3, MarksAreNoFiles
  <2>2. CASE i = k
    BY <1>3, <1>4, <1>5, <2>1, <2>2 DEF FdInv
  <2>3. CASE j = k
    BY <1>3, <1>4, <1>5, <2>1, <2>3 DEF FdInv
  <2>4. CASE i # k /\ j # k
    BY <1>5, <2>1, <2>4 DEF FdInv
  <2> QED
    BY <2>2, <2>3, <2>4
<1> QED
  BY <1>3, <1>5, <1>6, <1>7, <1>8 DEF FdInv

LEMMA CloseKeeps ==
    ASSUME FdInv, NEW t, targetfd_to_fd(t) # FD_INVALID,
           fd_mapping' = close_fd(t), files' = files \ {targetfd_to_fd(t)}
    PROVE  FdInv'
<1>1. t \in 0 .. Len(fd_mapping) - 1 /\ targetfd_to_fd(t) = fd_mapping[t + 1]
  BY DEF targetfd_to_fd
<1> DEFINE k == t + 1
<1>2. k \in 1 .. Len(fd_mapping) /\ fd_mapping \in Seq(HostFds \cup Marks) /\ Len(fd_mapping) \in Nat
  BY <1>1 DEF FdInv
<1>3. fd_mapping' = [fd_mapping EXCEPT ![k] = FD_UNUSED] /\ files' = files \ {fd_mapping[k]}
  BY <1>1 DEF close_fd
<1> HIDE DEF k
<1>4. FD_UNUSED \in Marks /\ files \subseteq HostFds
  BY DEF Marks, FdInv
<1>5. /\ fd_mapping' \in Seq(HostFds \cup Marks) /\ Len(fd_mapping') = Len(fd_mapping)
      /\ \A i \in 1 .. Len(fd_mapping) : fd_mapping'[i] = IF i = k THEN FD_UNUSED ELSE fd_mapping[i]
  BY <1>2, <1>3, <1>4
<1>6. FD_UNUSED \notin files
  BY <1>4, MarksAreNoFiles
<1>7. \A f \in files' : \E i \in 1 .. Len(fd_mapping') : fd_mapping'[i] = f
  BY <1>3, <1>5 DEF FdInv
<1>8. \A i \in 1 .. Len(fd_mapping') : fd_mapping'[i] \in files' \cup Marks
  <2> SUFFICES ASSUME NEW i \in 1 .. Len(fd_mapping), i # k, fd_mapping[i] \in files
               PROVE  fd_mapping[i] # fd_mapping[k]
    BY <1>3, <1>4, <1>5 DEF FdInv
  <2> QED
    BY <1>2 DEF FdInv
<1>9. \A i, j \in 1 .. Len(fd_mapping') :
         fd_mapping'[i] \in files' /\ fd_mapping'[i] = fd_mapping'[j] => i = j
  BY <1>3, <1>5, <1>6 DEF FdInv
<1>10. files' \subseteq HostFds /\ Len(fd_mapping') =< MaxSlots
  BY <1>3, <1>4, <1>5 DEF FdInv
<1> QED
  BY <1>5, <1>7, <1>8, <1>9, <1>10 DEF FdInv

-----------------------------------------------------------------------------
(* The invariant.                                                           *)

LimitsAreWords ==
    /\ program \in Programs /\ fs_root \in BOOLEAN /\ trapped \in BOOLEAN
    /\ brk_limit \in 0 .. WordSize - 1 /\ anonymous_last \in 0 .. WordSize - 1

ResourcesInv == LimitsAreWords /\ FdInv /\ AreasInv

resources == <<fd_mapping, files, brk_limit, anonymous_last, areas, handed>>

LEMMA ResourcesStay ==
    ASSUME ResourcesInv, UNCHANGED resources, UNCHANGED <<program, fs_root>>, trapped' \in BOOLEAN
    PROVE  ResourcesInv'
BY DEF ResourcesInv, resources, LimitsAreWords, FdInv, AreasInv, Limit, LastOf

LEMMA OsInitHolds == Init => ResourcesInv
<1> SUFFICES ASSUME Init PROVE ResourcesInv
  OBVIOUS
<1>1. anonymous_base \in 0 .. WordSize - 1
  BY WordSizeType DEF anonymous_base
<1>2. LimitsAreWords
  <2>1. brk_limit \in 0 .. WordSize - 1
    <3>1. 0 \in 0 .. WordSize - 1
      BY WordSizeType
    <3> QED
      BY <3>1 DEF Init
  <2>2. program \in Programs /\ fs_root \in BOOLEAN /\ trapped \in BOOLEAN
    BY ZenonT(30) DEF Init
  <2>3. anonymous_last \in 0 .. WordSize - 1
    BY <1>1 DEF Init
  <2> QED
    BY <2>1, <2>2, <2>3 DEF LimitsAreWords
<1>3. FdInv
  <2>1. MaxSlots >= 3
    BY OsAssumption
  <2> QED
    BY <2>1 DEF Init, FdInv, Marks
<1>4. AreasInv
  BY DEF Init, AreasInv, Allocators
<1> QED
  BY <1>2, <1>3, <1>4 DEF ResourcesInv

\* A transfer of bytes works on what is there.
LEMMA TransfersStay ==
    ASSUME do_sys_readv \/ do_sys_writev \/ do_sys_read \/ do_sys_write
    PROVE  UNCHANGED resources /\ UNCHANGED <<program, fs_root>> /\ trapped' = FALSE
<1>1. CASE do_sys_readv
  BY <1>1 DEF do_sys_readv, Transfer, InvalidFd, Finish, Unchanged, resources
<1>2. CASE do_sys_writev
  BY <1>2 DEF do_sys_writev, Transfer, InvalidFd, Finish, Unchanged, resources
<1>3. CASE do_sys_read
  BY <1>3 DEF do_sys_read, Transfer, InvalidFd, Finish, Unchanged, resources
<1>4. CASE do_sys_write
  BY <1>4 DEF do_sys_write, Transfer, InvalidFd, Finish, Unchanged, resources
<1> QED
  BY <1>1, <1>2, <1>3, <1>4

LEMMA OpenKeeps ==
    ASSUME ResourcesInv, do_sys_open
    PROVE  ResourcesInv'
<1>1. /\ UNCHANGED <<program, fs_root, brk_limit, anonymous_last, areas, handed>> /\ trapped' = FALSE
      /\ FreeSlot # 0 \/ Len(fd_mapping) < MaxSlots
  BY DEF do_sys_open, Unchanged
<1>2. FdInv'
  <2>1. PICK path \in Paths : OpenTerminal \/ OpenHost(path) \/ OpenFails(path)
    BY DEF do_sys_open
  <2>2. CASE OpenTerminal
    <3>1. fd_mapping' = allocate_fd(FD_TERMINAL)[2] /\ files' = files
      BY <2>2 DEF OpenTerminal
    <3> QED
      BY <1>1, <3>1, AllocateKeeps DEF ResourcesInv
  <2>3. CASE OpenHost(path)
    <3>1. PICK fd \in HostFds \ files :
            fd_mapping' = allocate_fd(fd)[2] /\ files' = files \cup {fd}
      BY <2>3 DEF OpenHost
    <3>2. fd # FD_TERMINAL
      BY <3>1, MarksAreNoFiles DEF Marks
    <3> QED
      BY <1>1, <3>1, <3>2, AllocateKeeps DEF ResourcesInv
  <2>4. CASE OpenFails(path)
    <3>1. UNCHANGED <<fd_mapping, files>>
      BY <2>4 DEF OpenFails
    <3> QED
      BY <3>1 DEF ResourcesInv, FdInv
  <2> QED
    BY <2>1, <2>2, <2>3, <2>4
<1> QED
  BY <1>1, <1>2 DEF ResourcesInv, LimitsAreWords, AreasInv, Limit, LastOf

LEMMA CloseStepKeeps ==
    ASSUME ResourcesInv, do_sys_close
    PROVE  ResourcesInv'
<1>1. PICK t \in -1 .. MaxSlots :
        IF targetfd_to_fd(t) = FD_INVALID THEN InvalidFd ELSE CloseOpen(t)
  BY DEF do_sys_close
<1>2. CASE targetfd_to_fd(t) = FD_INVALID
  <2>1. UNCHANGED resources /\ UNCHANGED <<program, fs_root>> /\ trapped' = FALSE
    BY <1>1, <1>2 DEF InvalidFd, Unchanged, resources
  <2> QED
    BY <2>1, ResourcesStay
<1>3. CASE targetfd_to_fd(t) # FD_INVALID
  <2>1. /\ UNCHANGED <<program, fs_root, brk_limit, anonymous_last, areas, handed>> /\ trapped' = FALSE
        /\ fd_mapping' = close_fd(t) /\ files' = files \ {targetfd_to_fd(t)}
    BY <1>1, <1>3 DEF CloseOpen, Unchanged
  <2>2. FdInv'
    BY <1>3, <2>1, CloseKeeps DEF ResourcesInv
  <2> QED
    BY <2>1, <2>2 DEF ResourcesInv, LimitsAreWords, AreasInv, Limit, LastOf
<1> QED
  BY <1>2, <1>3

LEMMA BrkKeeps ==
    ASSUME ResourcesInv, do_sys_brk
    PROVE  ResourcesInv'
<1>1. /\ UNCHANGED <<program, fs_root, anonymous_last, fd_mapping, files>> /\ trapped' = FALSE
      /\ areas' = {a \in areas : a.by # "sbrk"} /\ handed' = [handed EXCEPT !["sbrk"] = 0]
      /\ \E limit \in Lengths : brk_limit' = Word(limit)
  BY DEF do_sys_brk, Unchanged
<1>2. brk_limit' \in 0 .. WordSize - 1
  BY <1>1, WordSplit, OsAssumption, WordSizeType
<1>3. handed' \in [Allocators -> Nat] /\ handed'["mmap2"] = handed["mmap2"]
  BY <1>1 DEF ResourcesInv, AreasInv, Allocators
<1>4. Limit("mmap2")' = Limit("mmap2")
  BY <1>1 DEF Limit, LastOf
<1>5. \A a \in areas' : a \in areas /\ a.by = "mmap2"
  BY <1>1 DEF ResourcesInv, AreasInv, Allocators
<1>6. AreasInv'
  BY <1>3, <1>4, <1>5 DEF ResourcesInv, AreasInv, Rounded
<1> QED
  BY <1>1, <1>2, <1>6 DEF ResourcesInv, LimitsAreWords, FdInv

LEMMA AllocatorsKeep ==
    ASSUME ResourcesInv, do_spim_sbrk \/ do_sys_mmap2
    PROVE  ResourcesInv'
<1>1. Lengths \subseteq Nat /\ WordSize \in Nat
  BY OsAssumption, WordSizeType
<1>2. \A by \in Allocators : LastOf(by) \in Nat
  BY <1>1 DEF ResourcesInv, LimitsAreWords, LastOf
<1>3. CASE do_spim_sbrk
  <2>1. PICK inc \in Lengths :
          /\ brk_limit' = Word(Word(RoundUp(brk_limit, 16)) + sbrk_increment(inc))
          /\ HandOut("sbrk", Word(RoundUp(brk_limit, 16)), inc)
    BY <1>3 DEF do_spim_sbrk
  <2>2. UNCHANGED <<program, fs_root, anonymous_last, fd_mapping, files>> /\ trapped' = FALSE
    BY <1>3 DEF do_spim_sbrk, Unchanged
  <2>3. Limit("sbrk") = Word(RoundUp(brk_limit, 16))
    BY Units DEF Limit, LastOf
  <2>4. LastOf("sbrk")' = Word(Limit("sbrk") + Word(RoundUp(inc, Unit["sbrk"])))
    BY <2>1, <2>3, Units DEF LastOf, sbrk_increment
  <2>5. \A other \in Allocators \ {"sbrk"} : LastOf(other)' = LastOf(other)
    BY <2>2 DEF LastOf, Allocators
  <2>6. AreasInv'
    BY <1>1, <1>2, <2>1, <2>3, <2>4, <2>5, HandOutKeeps DEF ResourcesInv, Allocators
  <2>7. brk_limit' \in 0 .. WordSize - 1
    <3>1. RoundUp(brk_limit, 16) \in Nat /\ RoundUp(inc, 16) \in Nat
      BY <1>1, <1>2, RoundsUp, Units DEF LastOf, Allocators
    <3>2. Word(RoundUp(brk_limit, 16)) \in Int /\ Word(RoundUp(inc, 16)) \in Int
      BY <1>1, <3>1, WordSplit
    <3>3. Word(RoundUp(brk_limit, 16)) + sbrk_increment(inc) \in Int
      BY <3>2 DEF sbrk_increment
    <3> QED
      BY <2>1, <3>3, WordSplit
  <2> QED
    BY <2>2, <2>6, <2>7 DEF ResourcesInv, LimitsAreWords, FdInv
<1>4. CASE do_sys_mmap2
  <2>1. PICK len \in Lengths :
          /\ anonymous_last' = Word(Word(RoundUp(anonymous_last, TARGET_SYSCALL_MMAP2_UNIT)) + mmap_length(len))
          /\ HandOut("mmap2", Word(RoundUp(anonymous_last, TARGET_SYSCALL_MMAP2_UNIT)), len)
    BY <1>4 DEF do_sys_mmap2
  <2>2. UNCHANGED <<program, fs_root, brk_limit, fd_mapping, files>> /\ trapped' = FALSE
    BY <1>4 DEF do_sys_mmap2, Unchanged
  <2>3. Limit("mmap2") = Word(RoundUp(anonymous_last, TARGET_SYSCALL_MMAP2_UNIT))
        /\ mmap_length(len) = Word(RoundUp(len, Unit["mmap2"]))
    BY Units DEF Limit, LastOf, mmap_length, TARGET_SYSCALL_MMAP2_UNIT
  <2>4. LastOf("mmap2")' = Word(Limit("mmap2") + Word(RoundUp(len, Unit["mmap2"])))
    BY <2>1, <2>3 DEF LastOf
  <2>5. \A other \in Allocators \ {"mmap2"} : LastOf(other)' = LastOf(other)
    BY <2>2 DEF LastOf, Allocators
  <2>6. AreasInv'
    BY <1>1, <1>2, <2>1, <2>3, <2>4, <2>5, HandOutKeeps DEF ResourcesInv, Allocators
  <2>7. anonymous_last' \in 0 .. WordSize - 1
    <3>1. RoundUp(anonymous_last, Unit["mmap2"]) \in Nat /\ RoundUp(len, Unit["mmap2"]) \in Nat
      BY <1>1, <1>2, RoundsUp DEF LastOf, Allocators
    <3>2. Word(RoundUp(anonymous_last, Unit["mmap2"])) \in Int /\ mmap_length(len) \in Int
      BY <1>1, <2>3, <3>1, WordSplit
    <3>3. Word(RoundUp(anonymous_last, TARGET_SYSCALL_MMAP2_UNIT)) + mmap_length(len) \in Int
      BY <3>2, Units DEF TARGET_SYSCALL_MMAP2_UNIT
    <3> QED
      BY <2>1, <3>3, WordSplit
  <2> QED
    BY <2>2, <2>6, <2>7 DEF ResourcesInv, LimitsAreWords, FdInv
<1> QED
  BY <1>3, <1>4

LEMMA OsNextKeeps ==
    ASSUME ResourcesInv, [Next]_vars
    PROVE  ResourcesInv'
<1>1. CASE UNCHANGED vars
  <2>1. UNCHANGED resources /\ UNCHANGED <<program, fs_root>> /\ trapped' = trapped
    BY <1>1 DEF vars, osVars, resources
  <2> QED
    BY <2>1, ResourcesStay DEF ResourcesInv, LimitsAreWords
<1>2. CASE do_sys_readv \/ do_sys_writev \/ do_sys_read \/ do_sys_write
  BY <1>2, TransfersStay, ResourcesStay
<1>3. CASE \/ do_sys_ftruncate \/ do_sys_set_thread_area \/ do_sys_exit \/ do_spim_print
           \/ syscall_default_handler \/ UnknownSyscall
  <2>1. UNCHANGED resources /\ UNCHANGED <<program, fs_root>> /\ trapped' \in BOOLEAN
    <3>1. CASE do_sys_ftruncate
      BY <3>1 DEF do_sys_ftruncate, InvalidFd, Unchanged, resources
    <3>2. CASE do_sys_set_thread_area
      BY <3>2 DEF do_sys_set_thread_area, Unchanged, resources
    <3>3. CASE do_sys_exit \/ do_spim_print \/ syscall_default_handler
      BY <3>3 DEF do_sys_exit, do_spim_print, syscall_default_handler, Unchanged, resources
    <3>4. CASE UnknownSyscall
      BY <3>4 DEF UnknownSyscall, resources
    <3> QED
      BY <1>3, <3>1, <3>2, <3>3, <3>4
  <2> QED
    BY <2>1, ResourcesStay
<1> QED
  BY <1>1, <1>2, <1>3, OpenKeeps, CloseStepKeeps, BrkKeeps, AllocatorsKeep DEF Next

-----------------------------------------------------------------------------
\* After any calls, failed ones included, each descriptor of the host that the
\* emulation holds is in one slot of fd_mapping, and areas that mmap2 or sbrk handed
\* out do not overlap until the address space is used up, for every width of a word.
THEOREM ResourcesStayApart == Spec => []ResourcesApart
<1>1. ResourcesInv => ResourcesApart
  BY FdInvMatches, AreasInvDisjoint
  DEF ResourcesInv, ResourcesApart, LimitsAreWords, TypeOK, FdInv, Marks
<1> QED
  BY <1>1, OsInitHolds, OsNextKeeps, PTL DEF Spec

-----------------------------------------------------------------------------
(* Greatest numbers and joined sequences.                                   *)

\* a set of numbers below a bound has a greatest one
LEMMA GreatestSlot ==
    ASSUME NEW S \in SUBSET Nat, S # {}, NEW b \in Nat, \A x \in S : x =< b
    PROVE  \E x \in S : \A y \in S : x >= y
<1> DEFINE D == {d \in 0 .. b : b - d \in S}
<1>1. D # {}
  <2>1. PICK x \in S : TRUE
    OBVIOUS
  <2>2. x \in Nat /\ x =< b
    BY <2>1
  <2>3. b - x \in 0 .. b /\ b - (b - x) = x
    BY <2>2
  <2> QED
    BY <2>1, <2>3
<1>2. PICK d \in D : \A e \in D : d =< e
  <2>1. D \in SUBSET Nat
    OBVIOUS
  <2> QED
    BY <1>1, <2>1, LeastSlot
<1>3. ASSUME NEW y \in S
      PROVE  b - d >= y
  <2>1. y \in Nat /\ y =< b /\ d \in Nat
    BY <1>2
  <2>2. b - y \in 0 .. b /\ b - (b - y) = y
    BY <2>1
  <2>3. d =< b - y
    BY <1>2, <2>2
  <2> QED
    BY <2>1, <2>3
<1> QED
  BY <1>2, <1>3

\* one sequence behind another
LEMMA Joined ==
    ASSUME NEW S, NEW s \in Seq(S), NEW t \in Seq(S), NEW u, u = s \o t
    PROVE  /\ u \in Seq(S) /\ Len(u) = Len(s) + Len(t)
           /\ \A i \in 1 .. Len(s) : u[i] = s[i]
           /\ \A i \in 1 .. Len(t) : u[Len(s) + i] = t[i]
<1>1. u \in Seq(S)
  OBVIOUS
<1>2. Len(u) = Len(s) + Len(t)
  OBVIOUS
<1>3. \A i \in 1 .. Len(s) : u[i] = s[i]
  OBVIOUS
<1>4. \A i \in 1 .. Len(t) : u[Len(s) + i] = t[i]
  OBVIOUS
<1> QED
  BY <1>1, <1>2, <1>3, <1>4

-----------------------------------------------------------------------------
(* The numbers of the errors.                                               *)

Errnos == 1 .. 4095

LEMMA ErrnosBounded ==
    ASSUME NEW t \in Errnos
    PROVE  t \in Int /\ t >= 1 /\ t =< 4095
BY DEF Errnos

LEMMA NumbersSmall == \A e \in DOMAIN TARGET : TARGET[e] \in Errnos
BY DEF TARGET, Errnos

\* the three parts of errno_map, as functions
LEMMA ErrnoParts ==
    /\ errno_map_1 = [i \in 1 .. 48 |-> errno_map_1[i]]
    /\ errno_map_2 = [i \in 1 .. 44 |-> errno_map_2[i]]
    /\ errno_map_3 = [i \in 1 .. 42 |-> errno_map_3[i]]
<1>1. errno_map_1 = [i \in 1 .. 48 |-> errno_map_1[i]]
  BY DEF errno_map_1
<1>2. errno_map_2 = [i \in 1 .. 44 |-> errno_map_2[i]]
  BY DEF errno_map_2
<1>3. errno_map_3 = [i \in 1 .. 42 |-> errno_map_3[i]]
  BY DEF errno_map_3
<1> QED
  BY <1>1, <1>2, <1>3

\* the table has the target's names, and EDEADLOCK behind EDEADLK
LEMMA ErrnoNames ==
    /\ Len(errno_names) = 134 /\ DOMAIN errno_names = 1 .. 134
    /\ \A i \in 1 .. 134 : errno_names[i] \in DOMAIN TARGET
    /\ \A e \in DOMAIN TARGET : \E i \in 1 .. 134 : errno_names[i] = e
    /\ errno_names[53] = "EDEADLOCK" /\ \A i \in 54 .. 134 : errno_names[i] # "EDEADLK"
<1> DEFINE N == DOMAIN TARGET
           front == errno_map_1 \o errno_map_2
<1>1. \A i \in 1 .. 48 : errno_map_1[i] \in N
  BY DEF TARGET, errno_map_1
<1>2. \A i \in 1 .. 44 : errno_map_2[i] \in N /\ errno_map_2[i] # "EDEADLK"
  BY DEF TARGET, errno_map_2
<1>3. \A i \in 1 .. 42 : errno_map_3[i] \in N /\ errno_map_3[i] # "EDEADLK"
  BY DEF TARGET, errno_map_3
<1>4. N = {errno_map_1[i] : i \in 1 .. 48} \cup {errno_map_2[i] : i \in 1 .. 44}
             \cup {errno_map_3[i] : i \in 1 .. 42}
  BY SMTT(60) DEF TARGET, errno_map_1, errno_map_2, errno_map_3
<1>5. errno_map_2[5] = "EDEADLOCK"
  BY DEF errno_map_2
<1> HIDE DEF N
<1>6. ASSUME NEW n \in Nat, NEW f, f = [i \in 1 .. n |-> f[i]], \A i \in 1 .. n : f[i] \in N
      PROVE  f \in Seq(N) /\ Len(f) = n
  BY <1>6
<1>7. /\ errno_map_1 \in Seq(N) /\ Len(errno_map_1) = 48
      /\ errno_map_2 \in Seq(N) /\ Len(errno_map_2) = 44
      /\ errno_map_3 \in Seq(N) /\ Len(errno_map_3) = 42
  BY ErrnoParts, <1>1, <1>2, <1>3, <1>6
<1>71. errno_map_1 \in Seq(N) /\ errno_map_2 \in Seq(N) /\ errno_map_3 \in Seq(N)
  BY <1>7
<1>8. front = errno_map_1 \o errno_map_2 /\ errno_names = front \o errno_map_3
  BY Zenon DEF errno_names
<1> HIDE DEF front
<1>9. front \in Seq(N) /\ Len(front) = 92
  <2>1. front \in Seq(N)
    BY <1>71, <1>8, Joined
  <2>2. Len(front) = Len(errno_map_1) + Len(errno_map_2)
    BY <1>71, <1>8, Joined
  <2> QED
    BY <1>7, <2>1, <2>2
<1>10. (\A i \in 1 .. 48 : front[i] = errno_map_1[i]) /\ (\A i \in 1 .. 44 : front[48 + i] = errno_map_2[i])
  <2>1. \A i \in 1 .. Len(errno_map_1) : front[i] = errno_map_1[i]
    BY <1>71, <1>8, Joined
  <2>2. \A i \in 1 .. Len(errno_map_2) : front[Len(errno_map_1) + i] = errno_map_2[i]
    BY <1>71, <1>8, Joined
  <2> QED
    BY <1>7, <2>1, <2>2
<1>11. errno_names \in Seq(N) /\ Len(errno_names) = 134
  <2>1. front \in Seq(N)
    BY <1>9
  <2>2. errno_names \in Seq(N)
    BY <1>71, <1>8, <2>1, Joined
  <2>3. Len(errno_names) = Len(front) + Len(errno_map_3)
    BY <1>71, <1>8, <2>1, Joined
  <2> QED
    BY <1>7, <1>9, <2>2, <2>3
<1>12. (\A i \in 1 .. 92 : errno_names[i] = front[i])
       /\ (\A i \in 1 .. 42 : errno_names[92 + i] = errno_map_3[i])
  <2>1. front \in Seq(N)
    BY <1>9
  <2>2. \A i \in 1 .. Len(front) : errno_names[i] = front[i]
    BY <1>71, <1>8, <2>1, Joined
  <2>3. \A i \in 1 .. Len(errno_map_3) : errno_names[Len(front) + i] = errno_map_3[i]
    BY <1>71, <1>8, <2>1, Joined
  <2> QED
    BY <1>7, <1>9, <2>2, <2>3
<1>13. \A i \in 1 .. 48 : errno_names[i] = errno_map_1[i]
  BY <1>10, <1>12
<1>14. \A i \in 1 .. 44 : errno_names[48 + i] = errno_map_2[i]
  <2>1. \A i \in 1 .. 44 : 48 + i \in 1 .. 92
    OBVIOUS
  <2> QED
    BY <1>10, <1>12, <2>1
<1>15. \A i \in 1 .. 134 : i \in 1 .. 48 \/ (\E j \in 1 .. 44 : i = 48 + j) \/ \E j \in 1 .. 42 : i = 92 + j
  <2> SUFFICES ASSUME NEW i \in 1 .. 134, i > 48
               PROVE  (\E j \in 1 .. 44 : i = 48 + j) \/ \E j \in 1 .. 42 : i = 92 + j
    OBVIOUS
  <2>1. CASE i =< 92
    <3>1. i - 48 \in 1 .. 44 /\ i = 48 + (i - 48)
      BY <2>1
    <3> QED
      BY <3>1
  <2>2. CASE i > 92
    <3>1. i - 92 \in 1 .. 42 /\ i = 92 + (i - 92)
      BY <2>2
    <3> QED
      BY <3>1
  <2> QED
    BY <2>1, <2>2
<1>16. \A e \in N : \E i \in 1 .. 134 : errno_names[i] = e
  <2>1. (\A i \in 1 .. 48 : i \in 1 .. 134) /\ (\A i \in 1 .. 44 : 48 + i \in 1 .. 134)
        /\ (\A i \in 1 .. 42 : 92 + i \in 1 .. 134)
    OBVIOUS
  <2> QED
    BY <1>4, <1>12, <1>13, <1>14, <2>1
<1>17. errno_names[53] = "EDEADLOCK"
  BY <1>5, <1>14
<1>18. \A i \in 54 .. 134 : errno_names[i] # "EDEADLK"
  BY <1>2, <1>3, <1>12, <1>14, <1>15
<1>19. \A i \in 1 .. 134 : errno_names[i] \in N
  BY <1>1, <1>2, <1>3, <1>12, <1>13, <1>14, <1>15
<1>20. DOMAIN errno_names = 1 .. 134
  BY <1>11
<1> QED
  BY <1>11, <1>16, <1>17, <1>18, <1>19, <1>20 DEF N

\* the entry of errno_map that counts for a host error
LEMMA LastEntryFacts ==
    ASSUME NEW e \in Range(errno_names)
    PROVE  /\ LastEntry(e) \in 1 .. 134
           /\ HostName(errno_names[LastEntry(e)]) = HostName(e)
           /\ \A i \in 1 .. 134 : HostName(errno_names[i]) = HostName(e) => i =< LastEntry(e)
<1> DEFINE I == {i \in 1 .. 134 : HostName(errno_names[i]) = HostName(e)}
           m == CHOOSE x \in I : \A y \in I : x >= y
<1>1. I # {}
  <2>1. DOMAIN errno_names = 1 .. 134
    BY ErrnoNames
  <2>2. PICK i \in 1 .. 134 : errno_names[i] = e
    BY <2>1 DEF Range
  <2> QED
    BY <2>2
<1>2. LastEntry(e) = m
  <2>1. LastEntry(e) = IF I # {} THEN Max(I) ELSE 0
    <3>1. Len(errno_names) = 134
      BY ErrnoNames
    <3> QED
      BY <3>1 DEF LastEntry, SelectLastInSeq
  <2> QED
    BY <1>1, <2>1 DEF Max
<1>3. m \in I /\ \A y \in I : m >= y
  <2>1. I \in SUBSET Nat /\ 134 \in Nat /\ \A x \in I : x =< 134
    OBVIOUS
  <2>2. \E x \in I : \A y \in I : x >= y
    BY <1>1, <2>1, GreatestSlot
  <2> QED
    BY <2>2
<1> QED
  BY <1>2, <1>3

\* a host error becomes the target's error of the same name
LEMMA ErrnoKept ==
    ASSUME NEW e \in DOMAIN TARGET, e \notin {"EOPNOTSUPP", "ENOTSUP", "EDEADLK"}
    PROVE  e \in DOMAIN errno_map /\ errno_map[e] = TARGET[e]
<1> DEFINE n == errno_names[LastEntry(e)]
<1>1. e \in Range(errno_names)
  BY ErrnoNames DEF Range
<1>2. e \in DOMAIN errno_map /\ errno_map[e] = TARGET[n]
  BY <1>1 DEF errno_map
<1>3. n \in DOMAIN TARGET /\ HostName(n) = HostName(e)
  BY <1>1, LastEntryFacts, ErrnoNames
<1>4. CASE e \in {"EAGAIN", "EWOULDBLOCK"}
  <2>1. n \in {"EAGAIN", "EWOULDBLOCK"}
    BY <1>3, <1>4 DEF HostName, HostAlias
  <2>2. TARGET["EAGAIN"] = 11 /\ TARGET["EWOULDBLOCK"] = 11
    BY DEF TARGET
  <2> QED
    BY <1>2, <1>4, <2>1, <2>2
<1>5. CASE e = "EDEADLOCK"
  <2>1. n \in {"EDEADLK", "EDEADLOCK"}
    BY <1>3, <1>5 DEF HostName, HostAlias
  <2>2. LastEntry(e) \in 53 .. 134
    BY <1>1, <1>5, LastEntryFacts, ErrnoNames
  <2>3. n = "EDEADLOCK"
    BY <2>1, <2>2, ErrnoNames
  <2> QED
    BY <1>2, <1>5, <2>3
<1>6. CASE e \notin {"EAGAIN", "EWOULDBLOCK", "EDEADLOCK"}
  <2>1. HostName(e) = e /\ e \notin {"EOPNOTSUPP", "EAGAIN", "EDEADLK"}
    BY <1>6 DEF HostName, HostAlias
  <2>2. n = e
    BY <1>3, <2>1 DEF HostName, HostAlias
  <2> QED
    BY <1>2, <2>2
<1> QED
  BY <1>4, <1>5, <1>6

LEMMA WordOfNegative ==
    ASSUME NEW t \in Errnos
    PROVE  Word(-t) = WordSize - t
<1>1. WordSize \in Nat /\ WordSize > 16384 /\ t \in 1 .. 4095
  BY WordSizeType DEF Errnos
<1>2. WordSize - t \in 0 .. WordSize - 1 /\ (-1) * WordSize + (WordSize - t) = -t
  BY <1>1
<1> QED
  BY <1>2, WordUnique

\* whatever the error is, the result is one of the words that stand for errors
LEMMA ErrorResult ==
    ASSUME NEW e
    PROVE  result_errno_if_error(e) \in WordSize - 4095 .. WordSize - 1
<1>1. WordSize \in Nat /\ WordSize > 16384
  BY WordSizeType
<1>2. CASE e \in DOMAIN errno_map
  <2>1. e \in Range(errno_names) /\ errno_map[e] = TARGET[errno_names[LastEntry(e)]]
    BY <1>2 DEF errno_map
  <2>2. errno_names[LastEntry(e)] \in DOMAIN TARGET
    BY <2>1, LastEntryFacts, ErrnoNames
  <2>3. errno_map[e] \in Errnos
    BY <2>1, <2>2, NumbersSmall
  <2>4. result_errno_if_error(e) = Word(-errno_map[e])
    BY <1>2 DEF result_errno_if_error
  <2>5. result_errno_if_error(e) = WordSize - errno_map[e]
    BY <2>3, <2>4, WordOfNegative
  <2> DEFINE m == errno_map[e]
  <2>6. m \in Int /\ m >= 1 /\ m =< 4095 /\ result_errno_if_error(e) = WordSize - m
    BY <2>3, <2>5, ErrnosBounded
  <2> HIDE DEF m
  <2> QED
    BY <1>1, <2>6
<1>3. CASE e \notin DOMAIN errno_map
  BY <1>1, <1>3 DEF result_errno_if_error
<1> QED
  BY <1>2, <1>3

\* an error that is not one of the three with two names
LEMMA ErrorReported ==
    ASSUME NEW e, e \notin {"EOPNOTSUPP", "ENOTSUP", "EDEADLK"}
    PROVE  LET result == result_errno_if_error(e)
           IN  status_from_result(result) = TargetNumber(e) /\ result = Word(-TargetNumber(e))
<1> DEFINE t == TargetNumber(e)
<1>1. WordSize \in Nat /\ WordSize > 16384
  BY WordSizeType
<1>2. CASE e \in DOMAIN TARGET
  <2>1. t = TARGET[e] /\ t \in Errnos
    BY <1>2, NumbersSmall DEF TargetNumber
  <2>2. e \in DOMAIN errno_map /\ errno_map[e] = t
    BY <1>2, <2>1, ErrnoKept
  <2>3. result_errno_if_error(e) = Word(-t)
    BY <2>2 DEF result_errno_if_error
  <2> HIDE DEF t
  <2>4. result_errno_if_error(e) = WordSize - t
    BY <2>1, <2>3, WordOfNegative
  <2>5. status_from_result(WordSize - t) = t
    <3>1. t \in Int /\ t >= 1 /\ t =< 4095
      BY <2>1, ErrnosBounded
    <3>2. WordSize - t >= WordSize - 4096 /\ WordSize - (WordSize - t) = t
      BY <1>1, <3>1
    <3> QED
      BY <3>2 DEF status_from_result, IsError
  <2> QED
    BY <2>3, <2>4, <2>5 DEF t
<1>3. CASE e \notin DOMAIN TARGET
  <2>1. t = 1
    <3>1. TARGET.EPERM = 1
      BY DEF TARGET
    <3> QED
      BY <1>3, <3>1 DEF TargetNumber
  <2>2. e \notin DOMAIN errno_map
    <3>1. DOMAIN errno_map = Range(errno_names)
      BY DEF errno_map
    <3> QED
      BY <1>3, <3>1, ErrnoNames DEF Range
  <2>3. result_errno_if_error(e) = WordSize - 1
    BY <2>2 DEF result_errno_if_error
  <2>4. status_from_result(WordSize - 1) = 1
    BY <1>1 DEF status_from_result, IsError
  <2>5. Word(-1) = WordSize - 1
    <3>1. 1 \in Errnos
      BY DEF Errnos
    <3> QED
      BY <3>1, WordOfNegative
  <2> QED
    BY <2>1, <2>3, <2>4, <2>5
<1> QED
  BY <1>2, <1>3

-----------------------------------------------------------------------------
(* Loops: induction over their passes, and the functions that count them.   *)

LEMMA EveryPass ==
    ASSUME NEW n \in Nat, NEW G \in SUBSET (0 .. n), 0 \in G,
           \A k \in 1 .. n : k - 1 \in G => k \in G
    PROVE  G = 0 .. n
<1> DEFINE B == (0 .. n) \ G
<1> SUFFICES ASSUME B # {} PROVE FALSE
  OBVIOUS
<1>1. B \in SUBSET Nat
  OBVIOUS
<1>2. PICK k \in B : \A j \in B : k =< j
  BY <1>1, LeastSlot
<1>3. k \in 1 .. n /\ k - 1 \in 0 .. n /\ ~(k =< k - 1)
  OBVIOUS
<1>4. k - 1 \in G
  BY <1>2, <1>3
<1> QED
  BY <1>3, <1>4

IsLoop(g, n, c, D) == g[0] = c /\ \A k \in 1 .. n : g[k] = D[k][g[k - 1]]

\* A recursion over 0 .. n defines a function.
LEMMA LoopDefined ==
    ASSUME NEW n \in Nat, NEW S, NEW c \in S, NEW D \in [1 .. n -> [S -> S]]
    PROVE  \E g \in [0 .. n -> S] : IsLoop(g, n, c, D)
<1> DEFINE Upto(m, g) == g[0] = c /\ \A k \in 1 .. m : g[k] = D[k][g[k - 1]]
           G == {m \in 0 .. n : \E g \in [0 .. m -> S] : Upto(m, g)}
<1>1. 0 \in G
  <2>1. [k \in 0 .. 0 |-> c] \in [0 .. 0 -> S] /\ Upto(0, [k \in 0 .. 0 |-> c])
    OBVIOUS
  <2> HIDE DEF Upto
  <2>2. 0 \in 0 .. n
    OBVIOUS
  <2> QED
    BY <2>1, <2>2
<1>2. ASSUME NEW m \in 1 .. n, m - 1 \in G
      PROVE  m \in G
  <2>1. PICK g \in [0 .. m - 1 -> S] : Upto(m - 1, g)
    BY <1>2
  <2> DEFINE h == [k \in 0 .. m |-> IF k = m THEN D[m][g[m - 1]] ELSE g[k]]
  <2>2. m - 1 \in 0 .. m - 1 /\ D[m] \in [S -> S]
    OBVIOUS
  <2>3. D[m][g[m - 1]] \in S
    BY <2>1, <2>2
  <2>4. \A k \in 0 .. m : k # m => k \in 0 .. m - 1
    OBVIOUS
  <2>5. h \in [0 .. m -> S]
    BY <2>1, <2>3, <2>4
  <2>6. h[0] = c
    BY <2>1
  <2>7. \A k \in 1 .. m : h[k] = D[k][h[k - 1]]
    <3> SUFFICES ASSUME NEW k \in 1 .. m
                 PROVE  h[k] = D[k][h[k - 1]]
      OBVIOUS
    <3>1. k - 1 \in 0 .. m /\ k - 1 # m /\ k \in 0 .. m
      OBVIOUS
    <3>2. h[k - 1] = g[k - 1]
      BY <3>1
    <3>3. CASE k = m
      BY <3>1, <3>2, <3>3
    <3>4. CASE k # m
      <4>1. k \in 1 .. m - 1
        BY <3>4
      <4>2. g[k] = D[k][g[k - 1]]
        BY <2>1, <4>1
      <4> QED
        BY <3>1, <3>2, <3>4, <4>2
    <3> QED
      BY <3>3, <3>4
  <2> HIDE DEF h
  <2>8. Upto(m, h)
    BY <2>6, <2>7
  <2> HIDE DEF Upto
  <2> QED
    BY <2>5, <2>8
<1>3. G = 0 .. n
  <2> HIDE DEF G
  <2>1. G \in SUBSET (0 .. n)
    BY DEF G
  <2> QED
    BY <1>1, <1>2, <2>1, EveryPass
<1>4. PICK g \in [0 .. n -> S] : Upto(n, g)
  <2>1. n \in G
    BY <1>3
  <2> QED
    BY <2>1
<1> QED
  BY <1>4 DEF IsLoop

-----------------------------------------------------------------------------
(* Paths.                                                                   *)

LEMMA TakenTyped ==
    ASSUME NEW S, NEW names \in Seq(S), NEW c \in S
    PROVE  Taken(names, c) \in Seq(S)
<1>1. Append(names, c) \in Seq(S)
  OBVIOUS
<1>2. ASSUME names # <<>> PROVE Front(names) \in Seq(S)
  BY <1>2 DEF Front
<1> QED
  BY <1>1, <1>2 DEF Taken

\* Resolve is the function it is written as.
LEMMA ResolveDefined ==
    ASSUME NEW S, NEW path \in Seq(S)
    PROVE  /\ \A k \in 0 .. Len(path) : Resolve(path)[k] \in Seq(S)
           /\ Resolve(path)[0] = <<>>
           /\ \A k \in 1 .. Len(path) : Resolve(path)[k] = Taken(Resolve(path)[k - 1], path[k])
<1> DEFINE n == Len(path)
           D == [k \in 1 .. n |-> [names \in Seq(S) |-> Taken(names, path[k])]]
           Is(g) == g = [k \in 0 .. n |-> IF k = 0 THEN <<>> ELSE Taken(g[k - 1], path[k])]
<1>1. n \in Nat /\ \A k \in 1 .. n : path[k] \in S
  OBVIOUS
<1>2. D \in [1 .. n -> [Seq(S) -> Seq(S)]]
  BY <1>1, TakenTyped
<1>3. Resolve(path) = CHOOSE g : Is(g)
  BY DEF Resolve
<1> HIDE DEF n
<1>4. \E g \in [0 .. n -> Seq(S)] : IsLoop(g, n, <<>>, D)
  <2> HIDE DEF D
  <2>1. <<>> \in Seq(S)
    OBVIOUS
  <2> QED
    BY <1>1, <1>2, <2>1, LoopDefined
<1>5. PICK g \in [0 .. n -> Seq(S)] : g[0] = <<>> /\ \A k \in 1 .. n : g[k] = D[k][g[k - 1]]
  BY <1>4 DEF IsLoop
<1>6. \A k \in 1 .. n : g[k] = Taken(g[k - 1], path[k])
  <2> SUFFICES ASSUME NEW k \in 1 .. n
               PROVE  g[k] = Taken(g[k - 1], path[k])
    OBVIOUS
  <2>1. k - 1 \in 0 .. n
    BY <1>1
  <2>2. g[k - 1] \in Seq(S)
    BY <2>1
  <2>3. D[k][g[k - 1]] = Taken(g[k - 1], path[k])
    BY <2>2
  <2> QED
    BY <1>5, <2>3
<1>7. Is(g)
  <2> HIDE DEF D
  <2>1. \A k \in 0 .. n : k = 0 \/ k \in 1 .. n
    BY <1>1
  <2> QED
    BY <1>5, <1>6, <2>1
<1> DEFINE R == Resolve(path)
<1>8. Is(R)
  <2> HIDE DEF Is
  <2> QED
    BY <1>3, <1>7
<1> HIDE DEF R
<1>9. R[0] = <<>>
  <2>1. 0 \in 0 .. n
    BY <1>1
  <2> QED
    BY <1>8, <2>1
<1>10. \A k \in 1 .. n : R[k] = Taken(R[k - 1], path[k])
  <2>1. \A k \in 1 .. n : k \in 0 .. n /\ k # 0
    BY <1>1
  <2> QED
    BY <1>8, <2>1
<1>11. \A k \in 0 .. n : R[k] \in Seq(S)
  <2> DEFINE G == {k \in 0 .. n : R[k] \in Seq(S)}
  <2>1. 0 \in G
    <3>1. 0 \in 0 .. n /\ <<>> \in Seq(S)
      BY <1>1
    <3> QED
      BY <1>9, <3>1
  <2>2. ASSUME NEW k \in 1 .. n, k - 1 \in G
        PROVE  k \in G
    <3>1. k \in 0 .. n /\ path[k] \in S /\ R[k - 1] \in Seq(S)
      BY <1>1, <2>2
    <3>2. Taken(R[k - 1], path[k]) \in Seq(S)
      BY <3>1, TakenTyped
    <3> QED
      BY <1>10, <3>1, <3>2
  <2>3. G \in SUBSET (0 .. n)
    OBVIOUS
  <2> HIDE DEF G
  <2>4. G = 0 .. n
    BY <1>1, <2>1, <2>2, <2>3, EveryPass
  <2> QED
    BY <2>4 DEF G
<1> QED
  BY <1>9, <1>10, <1>11 DEF R, n

\* a path without the components between a and b
Cut(p, a, b) == SubSeq(p, 1, a) \o SubSeq(p, b, Len(p))

LEMMA CutFacts ==
    ASSUME NEW S, NEW p \in Seq(S), NEW a \in 0 .. Len(p), NEW b \in a + 1 .. Len(p) + 1
    PROVE  /\ Cut(p, a, b) \in Seq(S) /\ Len(Cut(p, a, b)) = a + (Len(p) - b + 1)
           /\ \A i \in 1 .. a : Cut(p, a, b)[i] = p[i]
           /\ \A i \in 1 .. Len(p) - b + 1 : Cut(p, a, b)[a + i] = p[b - 1 + i]
<1> DEFINE s == SubSeq(p, 1, a)
           t == SubSeq(p, b, Len(p))
           u == Cut(p, a, b)
<1>1. Len(p) \in Nat /\ a \in Nat /\ b \in Nat /\ a =< Len(p) /\ b =< Len(p) + 1 /\ b >= 1
  OBVIOUS
<1>2. s \in Seq(S) /\ Len(s) = a
  BY <1>1
<1>3. \A i \in 1 .. a : s[i] = p[i]
  BY <1>1
<1>4. t \in Seq(S) /\ Len(t) = Len(p) - b + 1
  <2>1. \A i \in b .. Len(p) : p[i] \in S
    BY <1>1
  <2> QED
    BY <1>1, <2>1, SubSeqProperties
<1>5. \A i \in 1 .. Len(p) - b + 1 : t[i] = p[b - 1 + i]
  <2> SUFFICES ASSUME NEW i \in 1 .. Len(p) - b + 1
               PROVE  t[i] = p[b - 1 + i]
    OBVIOUS
  <2>1. t[i] = p[b + i - 1] /\ b + i - 1 = b - 1 + i
    BY <1>1
  <2> QED
    BY <2>1
<1>6. u = s \o t
  BY DEF Cut
<1> HIDE DEF s, t, u
<1>7. u \in Seq(S)
  BY <1>2, <1>4, <1>6, Joined
<1>8. Len(u) = Len(s) + Len(t)
  <2>1. s \in Seq(S) /\ t \in Seq(S)
    BY <1>2, <1>4
  <2> QED
    BY <1>6, <2>1, Joined
<1>9. (\A i \in 1 .. Len(s) : u[i] = s[i]) /\ (\A i \in 1 .. Len(t) : u[Len(s) + i] = t[i])
  <2>1. s \in Seq(S) /\ t \in Seq(S)
    BY <1>2, <1>4
  <2>2. \A i \in 1 .. Len(s) : u[i] = s[i]
    BY <1>6, <2>1, Joined
  <2>3. \A i \in 1 .. Len(t) : u[Len(s) + i] = t[i]
    BY <1>6, <2>1, Joined
  <2> QED
    BY <2>2, <2>3
<1>10. \A i \in 1 .. a : u[i] = p[i]
  BY <1>2, <1>3, <1>9
<1>11. \A i \in 1 .. Len(p) - b + 1 : u[a + i] = p[b - 1 + i]
  BY <1>2, <1>4, <1>5, <1>9
<1> QED
  BY <1>2, <1>4, <1>7, <1>8, <1>10, <1>11 DEF u

\* what a path resolves to
Target(p) == Resolve(p)[Len(p)]

\* Components that take back one another can be cut out.
LEMMA CutResolves ==
    ASSUME NEW S, NEW p \in Seq(S), NEW a \in 0 .. Len(p), NEW b \in a + 1 .. Len(p) + 1,
           Resolve(p)[a] = Resolve(p)[b - 1]
    PROVE  Target(Cut(p, a, b)) = Target(p)
<1> DEFINE q == Cut(p, a, b)
           P == Resolve(p)
           Q == Resolve(q)
           m == Len(p) - b + 1
<1>1. Len(p) \in Nat /\ a \in Nat /\ b \in Nat /\ m \in Nat /\ a =< Len(p) /\ b - 1 + m = Len(p)
  OBVIOUS
<1>2. q \in Seq(S) /\ Len(q) = a + m
  BY CutFacts
<1>3. \A i \in 1 .. a : q[i] = p[i]
  BY CutFacts
<1>4. \A i \in 1 .. m : q[a + i] = p[b - 1 + i]
  BY CutFacts
<1>5. P[0] = <<>> /\ \A k \in 1 .. Len(p) : P[k] = Taken(P[k - 1], p[k])
  BY ResolveDefined
<1> HIDE DEF q, P, m
<1>6. Q[0] = <<>> /\ \A k \in 1 .. a + m : Q[k] = Taken(Q[k - 1], q[k])
  BY <1>2, ResolveDefined
<1>7. P[a] = P[b - 1]
  BY DEF P
<1> HIDE DEF Q
<1>8. \A k \in 0 .. a : Q[k] = P[k]
  <2> DEFINE G == {k \in 0 .. a : Q[k] = P[k]}
  <2>1. 0 \in G
    BY <1>1, <1>5, <1>6
  <2>2. ASSUME NEW k \in 1 .. a, k - 1 \in G
        PROVE  k \in G
    <3>1. k \in 0 .. a /\ k \in 1 .. a + m /\ k \in 1 .. Len(p)
      BY <1>1
    <3>2. Q[k - 1] = P[k - 1]
      BY <2>2
    <3>3. Q[k] = P[k]
      BY <1>3, <1>5, <1>6, <3>1, <3>2
    <3> QED
      BY <3>1, <3>3
  <2>3. G \in SUBSET (0 .. a)
    OBVIOUS
  <2> HIDE DEF G
  <2>4. G = 0 .. a
    BY <1>1, <2>1, <2>2, <2>3, EveryPass
  <2> QED
    BY <2>4 DEF G
<1>9. \A k \in 0 .. m : Q[a + k] = P[b - 1 + k]
  <2> DEFINE G == {k \in 0 .. m : Q[a + k] = P[b - 1 + k]}
  <2>1. 0 \in G
    <3>1. a \in 0 .. a /\ 0 \in 0 .. m /\ a + 0 = a /\ b - 1 + 0 = b - 1
      BY <1>1
    <3>2. Q[a] = P[b - 1]
      BY <1>7, <1>8, <3>1
    <3> QED
      BY <3>1, <3>2
  <2>2. ASSUME NEW k \in 1 .. m, k - 1 \in G
        PROVE  k \in G
    <3>1. /\ k \in 0 .. m /\ a + k \in 1 .. a + m /\ b - 1 + k \in 1 .. Len(p)
          /\ (a + k) - 1 = a + (k - 1) /\ (b - 1 + k) - 1 = b - 1 + (k - 1)
      BY <1>1
    <3>2. Q[a + (k - 1)] = P[b - 1 + (k - 1)]
      BY <2>2
    <3>3. Q[a + k] = Taken(Q[(a + k) - 1], q[a + k])
      BY <1>6, <3>1
    <3>4. P[b - 1 + k] = Taken(P[(b - 1 + k) - 1], p[b - 1 + k])
      BY <1>5, <3>1
    <3>5. q[a + k] = p[b - 1 + k]
      BY <1>4
    <3>6. Q[a + k] = P[b - 1 + k]
      BY <3>1, <3>2, <3>3, <3>4, <3>5
    <3> QED
      BY <3>1, <3>6
  <2>3. G \in SUBSET (0 .. m)
    OBVIOUS
  <2> HIDE DEF G
  <2>4. G = 0 .. m
    BY <1>1, <2>1, <2>2, <2>3, EveryPass
  <2> QED
    BY <2>4 DEF G
<1>10. Q[Len(q)] = P[Len(p)]
  <2>1. m \in 0 .. m
    BY <1>1
  <2>2. Q[a + m] = P[b - 1 + m]
    BY <1>9, <2>1
  <2> QED
    BY <1>1, <1>2, <2>2
<1> QED
  BY <1>10 DEF Target, q, P, Q

\* Nothing is inserted: what is left of a path has single slashes if it had.
LEMMA CutSingleSlashes ==
    ASSUME NEW S, NEW p \in Seq(S), NEW a \in 0 .. Len(p), NEW b \in a + 1 .. Len(p) + 1,
           SingleSlashes(p)
    PROVE  SingleSlashes(Cut(p, a, b))
<1> DEFINE q == Cut(p, a, b)
           m == Len(p) - b + 1
<1>1. Len(p) \in Nat /\ a \in Nat /\ b \in Nat /\ m \in Nat /\ a =< Len(p) /\ b - 1 + m = Len(p) /\ b > a
  OBVIOUS
<1>2. Len(q) = a + m
  BY CutFacts
<1>3. \A i \in 1 .. a : q[i] = p[i]
  BY CutFacts
<1>4. \A i \in 1 .. m : q[a + i] = p[b - 1 + i]
  BY CutFacts
<1> HIDE DEF q, m
<1>5. ASSUME NEW i \in 2 .. Len(q) - 1, i =< a
      PROVE  q[i] # ""
  <2>1. q[i] = p[i]
    BY <1>1, <1>2, <1>3, <1>5
  <2>2. i \in 2 .. Len(p) - 1
    BY <1>1, <1>2, <1>5
  <2> QED
    BY <2>1, <2>2 DEF SingleSlashes
<1>6. ASSUME NEW i \in 2 .. Len(q) - 1, i > a
      PROVE  q[i] # ""
  <2> DEFINE j == i - a
  <2>1. j \in 1 .. m /\ a + j = i /\ b - 1 + j \in 2 .. Len(p) - 1
    BY <1>1, <1>2, <1>6
  <2> HIDE DEF j
  <2>2. q[i] = p[b - 1 + j]
    BY <1>4, <2>1
  <2> QED
    BY <2>1, <2>2 DEF SingleSlashes
<1>7. \A i \in 2 .. Len(q) - 1 : q[i] # ""
  <2>1. Len(q) \in Nat
    BY <1>1, <1>2
  <2>2. \A i \in 2 .. Len(q) - 1 : i =< a \/ i > a
    BY <1>1, <2>1
  <2> QED
    BY <1>5, <1>6, <2>2
<1> QED
  BY <1>7 DEF SingleSlashes, q

-----------------------------------------------------------------------------
(* The loop of filepath_to_host.                                            *)

ScanState(S) == [path : Seq(S), pos : Nat \ {0}]

\* Behind pos the scan has left no "..", and what it took out changes nothing; each
\* pass brings the end nearer.
ScanInv(path, s, k) ==
    /\ s.pos =< Len(s.path) + 1
    /\ \A i \in 1 .. s.pos - 1 : s.path[i] # ".."
    /\ s.pos > Len(s.path) \/ 2 * Len(s.path) + 1 - s.pos =< 2 * Len(path) - k
    /\ SingleSlashes(path) => SingleSlashes(s.path) /\ Target(s.path) = Target(path)

Prev(s) == IF s.pos = 1 THEN 1 ELSE s.pos - 1

\* the passes that take something out
LEMMA ScanCuts ==
    ASSUME NEW s, ~(s.pos > Len(s.path)), s.path[s.pos] = ".."
    PROVE  ScanStep(s) = [path |-> Cut(s.path, Prev(s) - 1, s.pos + 1), pos |-> Prev(s)]
BY DEF ScanStep, Cut, Prev

LEMMA CutPlace ==
    ASSUME NEW S, NEW s \in ScanState(S), s.pos =< Len(s.path)
    PROVE  /\ s.path \in Seq(S) /\ Len(s.path) \in Nat /\ s.pos \in 1 .. Len(s.path)
           /\ Prev(s) \in Nat \ {0} /\ Prev(s) - 1 \in 0 .. Len(s.path)
           /\ s.pos + 1 \in (Prev(s) - 1) + 1 .. Len(s.path) + 1
           /\ Prev(s) =< s.pos /\ (s.pos > 1 => Prev(s) = s.pos - 1)
<1>1. s.path \in Seq(S) /\ s.pos \in Nat \ {0}
  BY DEF ScanState
<1>2. Len(s.path) \in Nat
  BY <1>1
<1>3. s.pos \in 1 .. Len(s.path)
  BY <1>1, <1>2
<1>4. Prev(s) \in Nat \ {0} /\ Prev(s) =< s.pos /\ (s.pos > 1 => Prev(s) = s.pos - 1)
  BY <1>1 DEF Prev
<1>5. Prev(s) - 1 \in 0 .. Len(s.path)
  BY <1>2, <1>3, <1>4
<1>6. s.pos + 1 \in (Prev(s) - 1) + 1 .. Len(s.path) + 1
  BY <1>2, <1>3, <1>4
<1> QED
  BY <1>1, <1>2, <1>3, <1>4, <1>5, <1>6

LEMMA ScanStepTyped ==
    ASSUME NEW S, NEW s \in ScanState(S)
    PROVE  ScanStep(s) \in ScanState(S)
<1>1. s.path \in Seq(S) /\ s.pos \in Nat \ {0}
  BY DEF ScanState
<1>2. CASE s.pos > Len(s.path)
  BY <1>2 DEF ScanStep
<1>3. CASE ~(s.pos > Len(s.path)) /\ s.path[s.pos] # ".."
  <2>1. ScanStep(s) = [s EXCEPT !.pos = @ + 1]
    BY <1>3 DEF ScanStep
  <2> QED
    BY <1>1, <2>1 DEF ScanState
<1>4. CASE ~(s.pos > Len(s.path)) /\ s.path[s.pos] = ".."
  <2>1. s.pos =< Len(s.path)
    BY <1>1, <1>4
  <2> DEFINE c == Cut(s.path, Prev(s) - 1, s.pos + 1)
  <2>2. c \in Seq(S)
    BY <2>1, CutPlace, CutFacts
  <2>3. Prev(s) \in Nat \ {0}
    BY <2>1, CutPlace
  <2>4. ScanStep(s) = [path |-> c, pos |-> Prev(s)]
    BY <1>4, <2>1, ScanCuts
  <2> HIDE DEF c
  <2> QED
    BY <2>2, <2>3, <2>4 DEF ScanState
<1> QED
  BY <1>2, <1>3, <1>4

\* ScanPath is the loop it is written as.
LEMMA ScanDefined ==
    ASSUME NEW S, NEW path \in Seq(S)
    PROVE  LET n == 2 * Len(path)
               F == ScanPath(path)
           IN  /\ F[0] = [path |-> path, pos |-> 1]
               /\ \A k \in 1 .. n : F[k] = ScanStep(F[k - 1])
               /\ \A k \in 0 .. n : F[k] \in ScanState(S)
<1> DEFINE n == 2 * Len(path)
           c == [path |-> path, pos |-> 1]
           D == [k \in 1 .. n |-> [s \in ScanState(S) |-> ScanStep(s)]]
           Is(g) == g = [k \in 0 .. n |-> IF k = 0 THEN c ELSE ScanStep(g[k - 1])]
<1>1. n \in Nat
  <2>1. Len(path) \in Nat
    OBVIOUS
  <2> QED
    BY <2>1
<1>2. D \in [1 .. n -> [ScanState(S) -> ScanState(S)]]
  BY ScanStepTyped
<1>3. c \in ScanState(S)
  BY DEF ScanState
<1>4. ScanPath(path) = CHOOSE g : Is(g)
  BY DEF ScanPath
<1> HIDE DEF n, c
<1>5. PICK g \in [0 .. n -> ScanState(S)] : IsLoop(g, n, c, D)
  <2> HIDE DEF D
  <2> QED
    BY <1>1, <1>2, <1>3, LoopDefined
<1>6. \A k \in 1 .. n : g[k] = ScanStep(g[k - 1])
  <2> SUFFICES ASSUME NEW k \in 1 .. n
               PROVE  g[k] = ScanStep(g[k - 1])
    OBVIOUS
  <2>1. k - 1 \in 0 .. n
    BY <1>1
  <2>2. g[k - 1] \in ScanState(S)
    BY <2>1
  <2>3. D[k][g[k - 1]] = ScanStep(g[k - 1])
    BY <2>2
  <2> HIDE DEF D
  <2> QED
    BY <1>5, <2>3 DEF IsLoop
<1>7. Is(g)
  <2> HIDE DEF D
  <2>1. \A k \in 0 .. n : k = 0 \/ k \in 1 .. n
    BY <1>1
  <2> QED
    BY <1>5, <1>6, <2>1 DEF IsLoop
<1> DEFINE F == ScanPath(path)
<1>8. Is(F)
  <2> HIDE DEF Is
  <2> QED
    BY <1>4, <1>7
<1> HIDE DEF F
<1>9. F[0] = c
  <2>1. 0 \in 0 .. n
    BY <1>1
  <2> QED
    BY <1>8, <2>1
<1>10. \A k \in 1 .. n : F[k] = ScanStep(F[k - 1])
  <2>1. \A k \in 1 .. n : k \in 0 .. n /\ k # 0
    BY <1>1
  <2> QED
    BY <1>8, <2>1
<1>11. \A k \in 0 .. n : F[k] \in ScanState(S)
  <2> DEFINE G == {k \in 0 .. n : F[k] \in ScanState(S)}
  <2>1. 0 \in G
    <3>1. 0 \in 0 .. n
      BY <1>1
    <3> QED
      BY <1>3, <1>9, <3>1
  <2>2. ASSUME NEW k \in 1 .. n, k - 1 \in G
        PROVE  k \in G
    <3>1. k \in 0 .. n /\ F[k - 1] \in ScanState(S)
      BY <1>1, <2>2
    <3>2. ScanStep(F[k - 1]) \in ScanState(S)
      BY <3>1, ScanStepTyped
    <3> QED
      BY <1>10, <3>1, <3>2
  <2>3. G \in SUBSET (0 .. n)
    OBVIOUS
  <2> HIDE DEF G
  <2>4. G = 0 .. n
    BY <1>1, <2>1, <2>2, <2>3, EveryPass
  <2> QED
    BY <2>4 DEF G
<1> QED
  BY <1>9, <1>10, <1>11 DEF F, n, c

\* ".." and the name it takes back
LEMMA TakesBack ==
    ASSUME NEW S, NEW s \in ScanState(S), s.pos =< Len(s.path), s.path[s.pos] = "..",
           \A i \in 1 .. s.pos - 1 : s.path[i] # "..", SingleSlashes(s.path)
    PROVE  Resolve(s.path)[Prev(s) - 1] = Resolve(s.path)[s.pos]
<1> DEFINE p == s.path
           i == s.pos
           R == Resolve(s.path)
<1>1. p \in Seq(S) /\ Len(p) \in Nat /\ i \in 1 .. Len(p)
  BY CutPlace
<1>2. /\ R[0] = <<>> /\ \A k \in 1 .. Len(p) : R[k] = Taken(R[k - 1], p[k])
      /\ \A k \in 0 .. Len(p) : R[k] \in Seq(S)
  BY <1>1, ResolveDefined
<1> HIDE DEF R
<1>3. R[i] = IF R[i - 1] = <<>> THEN <<>> ELSE Front(R[i - 1])
  <2>1. ".." # ""
    OBVIOUS
  <2>2. R[i] = Taken(R[i - 1], "..")
    BY <1>1, <1>2
  <2> QED
    BY <2>1, <2>2 DEF Taken
<1>4. CASE i = 1
  <2>1. R[i - 1] = <<>> /\ Prev(s) - 1 = 0
    BY <1>2, <1>4 DEF Prev
  <2> QED
    BY <1>2, <1>3, <2>1 DEF R
<1>5. CASE i > 1
  <2> DEFINE j == i - 1
  <2>1. j \in 1 .. Len(p) /\ j - 1 \in 0 .. Len(p) /\ j =< Len(p) - 1
    BY <1>1, <1>5
  <2>2. Prev(s) - 1 = j - 1
    BY <1>1, <1>5 DEF Prev
  <2>3. p[j] # ".."
    <3>1. j \in 1 .. s.pos - 1
      BY <2>1
    <3> QED
      BY <3>1
  <2> HIDE DEF j
  <2>4. R[j] = Taken(R[j - 1], p[j]) /\ R[j - 1] \in Seq(S) /\ p[j] \in S
    BY <1>1, <1>2, <2>1
  <2>5. R[i] = IF R[j] = <<>> THEN <<>> ELSE Front(R[j])
    BY <1>3 DEF j
  <2>6. CASE p[j] # ""
    <3> DEFINE r == R[j - 1]
               x == p[j]
    <3>1. R[j] = Append(r, x)
      BY <2>3, <2>4, <2>6 DEF Taken
    <3>2. r \in Seq(S) /\ x \in S
      BY <2>4
    <3> HIDE DEF r, x
    <3>3. Append(r, x) # <<>> /\ Front(Append(r, x)) = r
      <4>1. Append(r, x) \in Seq(S) /\ Len(Append(r, x)) = Len(r) + 1 /\ Len(r) \in Nat
        BY <3>2
      <4>2. Append(r, x) # <<>>
        BY <4>1
      <4>3. \A k \in 1 .. Len(r) : Append(r, x)[k] = r[k]
        BY <3>2
      <4>4. Front(Append(r, x)) \in Seq(S) /\ Len(Front(Append(r, x))) = Len(r)
            /\ \A k \in 1 .. Len(r) : Front(Append(r, x))[k] = Append(r, x)[k]
        <5> DEFINE a == Append(r, x)
        <5> HIDE DEF a
        <5>1. a \in Seq(S) /\ Len(a) = Len(r) + 1
          BY <4>1 DEF a
        <5>2. Front(a) = SubSeq(a, 1, Len(r))
          BY <4>1, <5>1 DEF Front
        <5>3. SubSeq(a, 1, Len(r)) \in Seq(S) /\ Len(SubSeq(a, 1, Len(r))) = Len(r)
              /\ \A k \in 1 .. Len(r) : SubSeq(a, 1, Len(r))[k] = a[k]
          BY <4>1, <5>1
        <5> QED
          BY <5>2, <5>3 DEF a
      <4>5. Front(Append(r, x)) = r
        BY <3>2, <4>3, <4>4, SeqEqual
      <4> QED
        BY <4>2, <4>5
    <3>4. R[i] = r
      BY <2>5, <3>1, <3>3
    <3> QED
      BY <2>2, <3>4 DEF r, R
  <2>7. CASE p[j] = ""
    <3>1. j = 1
      <4>1. ~(j \in 2 .. Len(p) - 1)
        BY <2>7 DEF SingleSlashes
      <4> QED
        BY <1>1, <2>1, <4>1
    <3>2. R[j] = R[j - 1]
      BY <2>4, <2>7 DEF Taken
    <3>3. R[j - 1] = <<>>
      BY <1>2, <3>1
    <3> QED
      BY <2>2, <2>5, <3>2, <3>3 DEF R
  <2> QED
    BY <2>6, <2>7
<1> QED
  BY <1>1, <1>4, <1>5

LEMMA ScanKeeps ==
    ASSUME NEW S, NEW path \in Seq(S), NEW s \in ScanState(S), NEW k \in Nat \ {0},
           ScanInv(path, s, k - 1)
    PROVE  ScanInv(path, ScanStep(s), k)
<1>1. s.path \in Seq(S) /\ s.pos \in Nat \ {0} /\ Len(s.path) \in Nat /\ Len(path) \in Nat
  <2>1. s.path \in Seq(S) /\ s.pos \in Nat \ {0}
    BY DEF ScanState
  <2> QED
    BY <2>1
<1>2. /\ s.pos =< Len(s.path) + 1
      /\ \A i \in 1 .. s.pos - 1 : s.path[i] # ".."
      /\ s.pos > Len(s.path) \/ 2 * Len(s.path) + 1 - s.pos =< 2 * Len(path) - (k - 1)
      /\ SingleSlashes(path) => SingleSlashes(s.path) /\ Target(s.path) = Target(path)
  BY DEF ScanInv
<1>3. CASE s.pos > Len(s.path)
  <2>1. ScanStep(s) = s
    BY <1>3 DEF ScanStep
  <2> QED
    BY <1>2, <1>3, <2>1 DEF ScanInv
<1>4. CASE s.pos =< Len(s.path) /\ s.path[s.pos] # ".."
  <2> DEFINE t == ScanStep(s)
  <2>1. t = [s EXCEPT !.pos = @ + 1]
    BY <1>1, <1>4 DEF ScanStep
  <2>2. t.path = s.path /\ t.pos = s.pos + 1
    BY <2>1 DEF ScanState
  <2> HIDE DEF t
  <2>3. t.pos =< Len(t.path) + 1
    BY <1>1, <1>4, <2>2
  <2>4. \A i \in 1 .. t.pos - 1 : t.path[i] # ".."
    <3>1. \A i \in 1 .. t.pos - 1 : i \in 1 .. s.pos - 1 \/ i = s.pos
      BY <1>1, <2>2
    <3> QED
      BY <1>2, <1>4, <2>2, <3>1
  <2>5. 2 * Len(t.path) + 1 - t.pos =< 2 * Len(path) - k
    <3>1. 2 * Len(s.path) + 1 - s.pos =< 2 * Len(path) - (k - 1)
      BY <1>1, <1>2, <1>4
    <3> QED
      BY <1>1, <2>2, <3>1
  <2>6. SingleSlashes(path) => SingleSlashes(t.path) /\ Target(t.path) = Target(path)
    BY <1>2, <2>2
  <2> QED
    BY <2>3, <2>4, <2>5, <2>6 DEF ScanInv, t
<1>5. CASE s.pos =< Len(s.path) /\ s.path[s.pos] = ".."
  <2> DEFINE t == ScanStep(s)
             a == Prev(s) - 1
             b == s.pos + 1
             c == Cut(s.path, a, b)
  <2>1. t = [path |-> c, pos |-> Prev(s)]
    <3>1. ~(s.pos > Len(s.path))
      BY <1>1, <1>5
    <3> QED
      BY <1>5, <3>1, ScanCuts
  <2>2. /\ Prev(s) \in Nat \ {0} /\ a \in 0 .. Len(s.path)
        /\ b \in a + 1 .. Len(s.path) + 1
        /\ Prev(s) =< s.pos /\ (s.pos > 1 => Prev(s) = s.pos - 1)
    BY <1>5, CutPlace
  <2>3. Prev(s) = a + 1 /\ a =< s.pos - 1 /\ (s.pos > 1 => a = s.pos - 2) /\ a \in Nat
    BY <1>1, <2>2
  <2>4. t.path = c /\ t.pos = a + 1
    BY <2>1, <2>3
  <2>5. Len(c) = a + (Len(s.path) - b + 1)
    <3>1. s.path \in Seq(S) /\ a \in 0 .. Len(s.path) /\ b \in a + 1 .. Len(s.path) + 1
      BY <1>1, <2>2
    <3> HIDE DEF a, b
    <3> QED
      BY <3>1, CutFacts
  <2>6. \A i \in 1 .. a : c[i] = s.path[i]
    BY <1>1, <2>2, CutFacts
  <2>7. SingleSlashes(path) => SingleSlashes(c) /\ Target(c) = Target(path)
    <3> SUFFICES ASSUME SingleSlashes(path)
                 PROVE  SingleSlashes(c) /\ Target(c) = Target(path)
      OBVIOUS
    <3>1. SingleSlashes(s.path) /\ Target(s.path) = Target(path)
      BY <1>2
    <3>2. Resolve(s.path)[a] = Resolve(s.path)[s.pos]
      BY <1>2, <1>5, <3>1, TakesBack
    <3>3. b - 1 = s.pos
      BY <1>1
    <3> HIDE DEF a, b
    <3>4. Target(c) = Target(s.path)
      BY <1>1, <2>2, <3>2, <3>3, CutResolves
    <3>5. SingleSlashes(c)
      BY <1>1, <2>2, <3>1, CutSingleSlashes
    <3> QED
      BY <3>1, <3>4, <3>5
  <2>8. b = s.pos + 1
    OBVIOUS
  <2> HIDE DEF t, a, b, c
  <2> DEFINE L == Len(s.path)
             M == Len(path)
  <2>12. Len(t.path) = a + (L - s.pos) /\ t.pos = a + 1 /\ L \in Nat /\ M \in Nat /\ s.pos =< L
    <3>1. Len(s.path) - b + 1 = Len(s.path) - s.pos
      BY <1>1, <2>8
    <3> QED
      BY <1>1, <1>5, <2>4, <2>5, <3>1
  <2>13. 2 * L + 1 - s.pos =< 2 * M - (k - 1)
    BY <1>1, <1>2, <1>5
  <2> HIDE DEF L, M
  <2>9. t.pos =< Len(t.path) + 1
    BY <1>1, <2>3, <2>12
  <2>10. \A i \in 1 .. t.pos - 1 : t.path[i] # ".."
    <3>1. \A i \in 1 .. t.pos - 1 : i \in 1 .. a /\ i \in 1 .. s.pos - 1
      BY <1>1, <2>3, <2>4
    <3> QED
      BY <1>2, <2>4, <2>6, <3>1
  <2>11. 2 * Len(t.path) + 1 - t.pos =< 2 * Len(path) - k
    <3> DEFINE p == s.pos
    <3>2. p \in Nat /\ a \in Nat /\ a =< p - 1 /\ 2 * L + 1 - p =< 2 * M - (k - 1)
      BY <1>1, <2>3, <2>13
    <3> HIDE DEF p
    <3>3. 2 * (a + (L - p)) + 1 - (a + 1) = a + 2 * L - 2 * p
      BY <2>12, <3>2
    <3>4. a + 2 * L - 2 * p =< 2 * M - k
      BY <2>12, <3>2
    <3>1. 2 * (a + (L - s.pos)) + 1 - (a + 1) =< 2 * M - k
      BY <3>3, <3>4 DEF p
    <3> QED
      BY <2>12, <3>1 DEF M
  <2> QED
    BY <2>4, <2>7, <2>9, <2>10, <2>11 DEF ScanInv, t
<1> QED
  BY <1>1, <1>3, <1>4, <1>5

\* The path filepath_to_host hands to the host has no ".." left and, when the slashes
\* are single, names the file that was asked for.
LEMMA PathsResolved ==
    ASSUME NEW S, NEW path \in Seq(S)
    PROVE  LET q == filepath_to_host(path)
           IN  /\ \A i \in DOMAIN q : q[i] # ".."
               /\ SingleSlashes(path) => Target(q) = Target(path)
<1> DEFINE n == 2 * Len(path)
           F == ScanPath(path)
<1>1. Len(path) \in Nat /\ n \in Nat
  <2>1. Len(path) \in Nat
    OBVIOUS
  <2> QED
    BY <2>1
<1>2. /\ F[0] = [path |-> path, pos |-> 1]
      /\ \A k \in 1 .. n : F[k] = ScanStep(F[k - 1])
      /\ \A k \in 0 .. n : F[k] \in ScanState(S)
  BY ScanDefined
<1> DEFINE s == F[n]
<1>3. filepath_to_host(path) = s.path
  BY DEF filepath_to_host
<1> HIDE DEF F, n, s
<1>4. \A k \in 0 .. n : ScanInv(path, F[k], k)
  <2> DEFINE G == {k \in 0 .. n : ScanInv(path, F[k], k)}
  <2>1. 0 \in G
    <3>1. 0 \in 0 .. n
      BY <1>1
    <3>2. F[0].path = path /\ F[0].pos = 1
      BY <1>2
    <3>3. ScanInv(path, F[0], 0)
      BY <1>1, <3>2 DEF ScanInv
    <3> QED
      BY <3>1, <3>3
  <2>2. ASSUME NEW k \in 1 .. n, k - 1 \in G
        PROVE  k \in G
    <3>1. k \in 0 .. n /\ k - 1 \in 0 .. n /\ k \in Nat \ {0}
      BY <1>1
    <3>2. F[k - 1] \in ScanState(S) /\ ScanInv(path, F[k - 1], k - 1)
      BY <1>2, <2>2, <3>1
    <3>3. ScanInv(path, ScanStep(F[k - 1]), k)
      BY <3>1, <3>2, ScanKeeps
    <3> QED
      BY <1>2, <3>1, <3>3
  <2>3. G \in SUBSET (0 .. n)
    OBVIOUS
  <2> HIDE DEF G
  <2>4. G = 0 .. n
    BY <1>1, <2>1, <2>2, <2>3, EveryPass
  <2> QED
    BY <2>4 DEF G
<1>5. ScanInv(path, s, n) /\ s \in ScanState(S)
  <2>1. n \in 0 .. n
    BY <1>1
  <2> QED
    BY <1>2, <1>4, <2>1 DEF s
<1>6. s.path \in Seq(S) /\ s.pos \in Nat \ {0} /\ Len(s.path) \in Nat
  <2>1. s.path \in Seq(S) /\ s.pos \in Nat \ {0}
    BY <1>5 DEF ScanState
  <2> QED
    BY <2>1
<1>7. s.pos > Len(s.path)
  <2>1. s.pos > Len(s.path) \/ 2 * Len(s.path) + 1 - s.pos =< 2 * Len(path) - n
    BY <1>5 DEF ScanInv
  <2>2. s.pos =< Len(s.path) + 1
    BY <1>5 DEF ScanInv
  <2>3. 2 * Len(path) - n = 0
    BY <1>1 DEF n
  <2> QED
    BY <1>6, <2>1, <2>2, <2>3
<1>8. \A i \in DOMAIN s.path : s.path[i] # ".."
  <2>1. \A i \in DOMAIN s.path : i \in 1 .. s.pos - 1
    BY <1>6, <1>7
  <2> QED
    BY <1>5, <2>1 DEF ScanInv
<1>9. SingleSlashes(path) => Target(s.path) = Target(path)
  BY <1>5 DEF ScanInv
<1> QED
  BY <1>3, <1>8, <1>9

-----------------------------------------------------------------------------
(* Buffers and the bytes in them.                                           *)

Memories == [0 .. MemSize - 1 -> Int]

\* a buffer of the memory
IsBuffer(buf) == buf[1] \in Nat /\ buf[2] \in Nat /\ buf[1] + buf[2] =< MemSize

LEMMA BuffersOfVectors ==
    ASSUME NEW iov \in Vectors
    PROVE  /\ Len(iov) \in Nat /\ DOMAIN iov = 1 .. Len(iov)
           /\ \A k \in 1 .. Len(iov) : IsBuffer(iov[k])
<1>1. iov \in Seq(Nat \X Nat) /\ \A i \in DOMAIN iov : iov[i][1] + iov[i][2] =< MemSize
  BY OsAssumption
<1>2. Len(iov) \in Nat /\ DOMAIN iov = 1 .. Len(iov)
  BY <1>1
<1>3. \A k \in 1 .. Len(iov) : iov[k] \in Nat \X Nat
  BY <1>1
<1> QED
  BY <1>1, <1>2, <1>3 DEF IsBuffer

LEMMA ReadTyped ==
    ASSUME NEW m \in Memories, NEW b \in Nat, NEW n \in Nat, b + n =< MemSize
    PROVE  /\ read_mem(m, b, n) \in Seq(Int) /\ Len(read_mem(m, b, n)) = n
           /\ \A i \in 1 .. n : read_mem(m, b, n)[i] = m[b + i - 1]
<1>1. MemSize \in Nat
  BY OsAssumption
<1>2. \A i \in 1 .. n : m[b + i - 1] \in Int
  <2>1. \A i \in 1 .. n : b + i - 1 \in 0 .. MemSize - 1
    BY <1>1
  <2> QED
    BY <2>1 DEF Memories
<1> QED
  BY <1>2 DEF read_mem

\* Gather is the function it is written as.
LEMMA GatherDefined ==
    ASSUME NEW iov, NEW n \in Nat, Len(iov) = n, \A k \in 1 .. n : IsBuffer(iov[k]),
           NEW m \in Memories
    PROVE  /\ Gather(m, iov)[0] = <<>>
           /\ \A k \in 1 .. n : Gather(m, iov)[k] =
                  Gather(m, iov)[k - 1] \o read_mem(m, iov[k][1], iov[k][2])
           /\ \A k \in 0 .. n : Gather(m, iov)[k] \in Seq(Int)
<1> DEFINE B(k) == read_mem(m, iov[k][1], iov[k][2])
           D == [k \in 1 .. n |-> [s \in Seq(Int) |-> s \o B(k)]]
           Is(g) == g = [k \in 0 .. n |-> IF k = 0 THEN <<>> ELSE g[k - 1] \o B(k)]
<1>1. \A k \in 1 .. n : B(k) \in Seq(Int)
  BY ReadTyped DEF IsBuffer
<1>2. Gather(m, iov) = CHOOSE g : Is(g)
  BY DEF Gather
<1> HIDE DEF B
<1>3. ASSUME NEW s \in Seq(Int), NEW k \in 1 .. n
      PROVE  s \o B(k) \in Seq(Int)
  <2>1. B(k) \in Seq(Int)
    BY <1>1
  <2> QED
    BY <2>1, ConcatProperties
<1>4. D \in [1 .. n -> [Seq(Int) -> Seq(Int)]]
  BY <1>3
<1>5. <<>> \in Seq(Int)
  OBVIOUS
<1>6. PICK g \in [0 .. n -> Seq(Int)] : IsLoop(g, n, <<>>, D)
  <2> HIDE DEF D
  <2> QED
    BY <1>4, <1>5, LoopDefined
<1>7. g[0] = <<>> /\ \A k \in 1 .. n : g[k] = D[k][g[k - 1]]
  BY <1>6 DEF IsLoop
<1>8. \A k \in 1 .. n : g[k] = g[k - 1] \o B(k)
  <2> SUFFICES ASSUME NEW k \in 1 .. n
               PROVE  g[k] = g[k - 1] \o B(k)
    OBVIOUS
  <2>1. k - 1 \in 0 .. n
    OBVIOUS
  <2>2. g[k - 1] \in Seq(Int)
    BY <2>1
  <2>3. D[k][g[k - 1]] = g[k - 1] \o B(k)
    BY <2>2
  <2> HIDE DEF D
  <2> QED
    BY <1>7, <2>3
<1>9. Is(g)
  <2> HIDE DEF D
  <2>1. \A k \in 0 .. n : k = 0 \/ k \in 1 .. n
    OBVIOUS
  <2> QED
    BY <1>7, <1>8, <2>1
<1> DEFINE F == Gather(m, iov)
<1>10. Is(F)
  <2> HIDE DEF Is
  <2> QED
    BY <1>2, <1>9
<1> HIDE DEF F
<1>11. F[0] = <<>>
  <2>1. 0 \in 0 .. n
    OBVIOUS
  <2> QED
    BY <1>10, <2>1
<1>12. \A k \in 1 .. n : F[k] = F[k - 1] \o B(k)
  <2>1. \A k \in 1 .. n : k \in 0 .. n /\ k # 0
    OBVIOUS
  <2> QED
    BY <1>10, <2>1
<1>13. \A k \in 0 .. n : F[k] \in Seq(Int)
  <2> DEFINE G == {k \in 0 .. n : F[k] \in Seq(Int)}
  <2>1. 0 \in G
    <3>1. 0 \in 0 .. n
      OBVIOUS
    <3> QED
      BY <1>5, <1>11, <3>1
  <2>2. ASSUME NEW k \in 1 .. n, k - 1 \in G
        PROVE  k \in G
    <3>1. k \in 0 .. n /\ F[k - 1] \in Seq(Int)
      BY <2>2
    <3>2. F[k - 1] \o B(k) \in Seq(Int)
      BY <1>3, <3>1
    <3> QED
      BY <1>12, <3>1, <3>2
  <2>3. G \in SUBSET (0 .. n)
    OBVIOUS
  <2> HIDE DEF G
  <2>4. G = 0 .. n
    BY <2>1, <2>2, <2>3, EveryPass
  <2> QED
    BY <2>4 DEF G
<1> QED
  BY <1>11, <1>12, <1>13 DEF F, B

\* Only the bytes of the first buffers count for what is gathered from them.
LEMMA GatherSame ==
    ASSUME NEW iov, NEW n \in Nat, Len(iov) = n, \A k \in 1 .. n : IsBuffer(iov[k]),
           NEW m1 \in Memories, NEW m2 \in Memories, NEW j \in 0 .. n,
           \A k \in 1 .. j : \A i \in 1 .. iov[k][2] : m1[iov[k][1] + i - 1] = m2[iov[k][1] + i - 1]
    PROVE  Gather(m1, iov)[j] = Gather(m2, iov)[j]
<1> DEFINE F1 == Gather(m1, iov)
           F2 == Gather(m2, iov)
           B1(k) == read_mem(m1, iov[k][1], iov[k][2])
           B2(k) == read_mem(m2, iov[k][1], iov[k][2])
<1>1. F1[0] = <<>> /\ F2[0] = <<>>
  BY GatherDefined
<1>2. \A k \in 1 .. n : F1[k] = F1[k - 1] \o B1(k)
  BY GatherDefined
<1>3. \A k \in 1 .. n : F2[k] = F2[k - 1] \o B2(k)
  BY GatherDefined
<1>4. \A k \in 1 .. j : B1(k) = B2(k)
  BY DEF read_mem
<1> HIDE DEF F1, F2, B1, B2
<1> DEFINE G == {k \in 0 .. j : F1[k] = F2[k]}
<1>5. 0 \in G
  BY <1>1
<1>6. ASSUME NEW k \in 1 .. j, k - 1 \in G
      PROVE  k \in G
  <2>1. k \in 0 .. j /\ k \in 1 .. n /\ F1[k - 1] = F2[k - 1]
    BY <1>6
  <2>2. F1[k] = F2[k]
    BY <1>2, <1>3, <1>4, <2>1
  <2> QED
    BY <2>1, <2>2
<1>7. G \in SUBSET (0 .. j)
  OBVIOUS
<1> HIDE DEF G
<1>8. G = 0 .. j
  BY <1>5, <1>6, <1>7, EveryPass
<1>9. j \in G
  BY <1>8
<1> QED
  BY <1>9 DEF G, F1, F2

\* The first bytes of a sequence.
Begins(s, t) == Len(s) =< Len(t) /\ \A i \in 1 .. Len(s) : s[i] = t[i]

LEMMA BeginsIsPrefix ==
    ASSUME NEW S, NEW s \in Seq(S), NEW t \in Seq(S), Begins(s, t)
    PROVE  IsPrefix(s, t)
<1> DEFINE a == SubSeq(s, 1, Len(s))
           b == SubSeq(t, 1, Len(s))
<1>1. Len(s) \in Nat /\ Len(t) \in Nat /\ Len(s) =< Len(t)
  BY DEF Begins
<1>2. a \in Seq(S) /\ Len(a) = Len(s) /\ \A i \in 1 .. Len(s) : a[i] = s[i]
  BY <1>1
<1>3. b \in Seq(S) /\ Len(b) = Len(s) /\ \A i \in 1 .. Len(s) : b[i] = t[i]
  BY <1>1
<1> HIDE DEF a, b
<1>4. \A i \in 1 .. Len(a) : a[i] = b[i]
  BY <1>2, <1>3 DEF Begins
<1>5. a = b
  BY <1>2, <1>3, <1>4, SeqEqual
<1> QED
  BY <1>1, <1>5 DEF IsPrefix, a, b

LEMMA BeginsJoined ==
    ASSUME NEW S, NEW s \in Seq(S), NEW t \in Seq(S), NEW b \in Seq(S), Begins(s, t)
    PROVE  Begins(s, t \o b)
<1> DEFINE u == t \o b
<1>1. u = t \o b
  OBVIOUS
<1> HIDE DEF u
<1>2. Len(u) = Len(t) + Len(b)
  BY <1>1, Joined
<1>3. \A i \in 1 .. Len(t) : u[i] = t[i]
  BY <1>1, Joined
<1>4. Len(s) \in Nat /\ Len(t) \in Nat /\ Len(b) \in Nat
  OBVIOUS
<1> QED
  BY <1>2, <1>3, <1>4 DEF Begins, u

LEMMA JoinedBegins ==
    ASSUME NEW S, NEW t \in Seq(S), NEW d \in Seq(S), NEW b \in Seq(S), Begins(d, b)
    PROVE  Begins(t \o d, t \o b)
<1> DEFINE u == t \o b
           w == t \o d
<1>1. u = t \o b /\ w = t \o d
  OBVIOUS
<1> HIDE DEF u, w
<1>2. Len(u) = Len(t) + Len(b) /\ Len(w) = Len(t) + Len(d)
  BY <1>1, Joined
<1>3. \A i \in 1 .. Len(t) : u[i] = t[i] /\ w[i] = t[i]
  BY <1>1, Joined
<1>4. \A i \in 1 .. Len(b) : u[Len(t) + i] = b[i]
  BY <1>1, Joined
<1>5. \A i \in 1 .. Len(d) : w[Len(t) + i] = d[i]
  BY <1>1, Joined
<1>6. Len(t) \in Nat /\ Len(d) \in Nat /\ Len(b) \in Nat
  OBVIOUS
<1>7. Len(w) =< Len(u)
  BY <1>2, <1>6 DEF Begins
<1>8. ASSUME NEW i \in 1 .. Len(w)
      PROVE  w[i] = u[i]
  <2>1. CASE i =< Len(t)
    BY <1>2, <1>3, <1>6, <2>1
  <2>2. CASE i > Len(t)
    <3> DEFINE j == i - Len(t)
    <3>1. j \in 1 .. Len(d) /\ j \in 1 .. Len(b) /\ i = Len(t) + j
      BY <1>2, <1>6, <2>2 DEF Begins
    <3> HIDE DEF j
    <3>2. w[i] = d[j] /\ u[i] = b[j] /\ d[j] = b[j]
      BY <1>4, <1>5, <3>1 DEF Begins
    <3> QED
      BY <3>2
  <2>3. Len(w) \in Nat
    BY <1>2, <1>6
  <2> QED
    BY <1>6, <2>1, <2>2, <2>3
<1> QED
  BY <1>7, <1>8 DEF Begins, u, w

-----------------------------------------------------------------------------
(* One transfer.                                                            *)

LEMMA LesserOfTwo ==
    ASSUME NEW a \in Nat, NEW b \in Nat
    PROVE  Min({a, b}) \in 0 .. b
<1> DEFINE m == CHOOSE x \in {a, b} : \A y \in {a, b} : x =< y
<1>1. \E x \in {a, b} : \A y \in {a, b} : x =< y
  OBVIOUS
<1>2. m \in {a, b} /\ m =< b
  BY <1>1
<1>3. Min({a, b}) = m
  BY DEF Min
<1> HIDE DEF m
<1> QED
  BY <1>2, <1>3

Errors == {"none"} \cup program.errors

LEMMA OutcomesTyped ==
    ASSUME NEW out \in Outcomes
    PROVE  out.n \in Nat /\ out.error \in Errors
<1>1. MaxCount \in Nat
  BY OsAssumption
<1> QED
  BY <1>1 DEF Outcomes, Errors

\* no more bytes are moved than were asked for
LEMMA DataRead ==
    ASSUME NEW fd, NEW out \in Outcomes, NEW len \in Nat, NEW pos \in Nat
    PROVE  read_io(fd, out, len, pos) \in Seq(Int) /\ Len(read_io(fd, out, len, pos)) =< len
<1>1. out.n \in Nat
  BY OutcomesTyped
<1>2. \A n \in Nat : Bytes(pos, n) \in Seq(Int) /\ Len(Bytes(pos, n)) = n
  BY DEF Bytes
<1>3. ReadTerminal(out, len, pos) \in Seq(Int) /\ Len(ReadTerminal(out, len, pos)) =< len
  <2>1. CASE out.n >= len
    BY <1>2, <2>1 DEF ReadTerminal
  <2>2. CASE ~(out.n >= len)
    <3> DEFINE s == Bytes(pos, out.n)
    <3>1. s \in Seq(Int) /\ Len(s) = out.n /\ NewLine \in Int
      BY <1>1, <1>2 DEF NewLine
    <3>2. ReadTerminal(out, len, pos) = Append(s, NewLine)
      BY <2>2 DEF ReadTerminal
    <3> HIDE DEF s
    <3>3. Append(s, NewLine) \in Seq(Int) /\ Len(Append(s, NewLine)) = Len(s) + 1
      BY <3>1
    <3> QED
      BY <1>1, <2>2, <3>1, <3>2, <3>3
  <2> QED
    BY <2>1, <2>2
<1>4. ReadHost(out, len, pos) \in Seq(Int) /\ Len(ReadHost(out, len, pos)) =< len
  <2>1. Min({out.n, len}) \in 0 .. len
    BY <1>1, LesserOfTwo
  <2> DEFINE m == Min({out.n, len})
  <2>2. m \in Nat /\ m =< len
    BY <2>1
  <2>3. ReadHost(out, len, pos) = Bytes(pos, m)
    BY DEF ReadHost
  <2> HIDE DEF m
  <2> QED
    BY <1>2, <2>2, <2>3
<1> QED
  BY <1>3, <1>4 DEF read_io

LEMMA DataWritten ==
    ASSUME NEW fd, NEW out \in Outcomes, NEW len \in Nat
    PROVE  write_io(fd, out, len) \in 0 .. len
<1>1. Min({out.n, len}) \in 0 .. len
  BY OutcomesTyped, LesserOfTwo
<1> QED
  BY <1>1 DEF write_io

\* what the loops of readv and writev carry from buffer to buffer
TransferState == [mem : Memories, result : 0 .. WordSize - 1, moved : Seq(Int), error : Errors,
                  go : BOOLEAN]

\* the bytes d go through the buffer buf, and the loop goes on if they fill it
Moves(s, t, buf, d) ==
    /\ t.result = Word(s.result + Len(d)) /\ t.moved = s.moved \o d /\ t.error = s.error
    /\ t.go <=> Len(d) >= buf[2]
    /\ Len(d) =< buf[2]
    /\ \A i \in 1 .. Len(d) : t.mem[buf[1] + i - 1] = d[i]
    /\ \A a \in 0 .. MemSize - 1 : a \notin buf[1] .. buf[1] + buf[2] - 1 => t.mem[a] = s.mem[a]

\* a pass of the loops
Passes(s, t, buf) ==
    \/ ~s.go /\ t = s
    \/ s.go /\ ~t.go /\ t.mem = s.mem /\ t.moved = s.moved /\ t.error # "none"
       /\ t.result = IF s.result = 0 THEN result_errno_if_error(t.error) ELSE s.result
    \/ s.go /\ \E d \in Seq(Int) : Moves(s, t, buf, d)

LEMMA FailedTyped ==
    ASSUME NEW s \in TransferState, NEW out \in Outcomes, NEW buf, s.go, out.error # "none"
    PROVE  Failed(s, out) \in TransferState /\ Passes(s, Failed(s, out), buf)
<1> DEFINE t == Failed(s, out)
           r == IF s.result = 0 THEN result_errno_if_error(out.error) ELSE s.result
<1>1. out.error \in Errors
  BY OutcomesTyped
<1>2. r \in 0 .. WordSize - 1
  <2>1. result_errno_if_error(out.error) \in WordSize - 4095 .. WordSize - 1
    BY ErrorResult
  <2> DEFINE q == result_errno_if_error(out.error)
  <2>2. q \in 0 .. WordSize - 1
    <3>1. q \in WordSize - 4095 .. WordSize - 1
      BY <2>1
    <3> HIDE DEF q
    <3> QED
      BY <3>1, WordSizeType
  <2> HIDE DEF q
  <2>3. s.result \in 0 .. WordSize - 1
    BY DEF TransferState
  <2> QED
    BY <2>2, <2>3 DEF q
<1>3. t = [mem |-> s.mem, result |-> r, moved |-> s.moved, error |-> out.error, go |-> FALSE]
  <2>1. t = [s EXCEPT !.go = FALSE, !.error = out.error, !.result = r]
    BY DEF Failed
  <2>2. s = [mem |-> s.mem, result |-> s.result, moved |-> s.moved, error |-> s.error, go |-> s.go]
    BY DEF TransferState
  <2> HIDE DEF t, r
  <2> QED
    BY <2>1, <2>2
<1> HIDE DEF t, r
<1>4. s.mem \in Memories /\ s.moved \in Seq(Int)
  BY DEF TransferState
<1>5. t \in TransferState
  BY <1>1, <1>2, <1>3, <1>4 DEF TransferState
<1> QED
  BY <1>3, <1>5 DEF Passes, t, r

LEMMA Advanced ==
    ASSUME NEW s \in TransferState, NEW d \in Seq(Int)
    PROVE  Word(s.result + Len(d)) \in 0 .. WordSize - 1 /\ s.moved \o d \in Seq(Int)
<1>1. s.result \in Int /\ Len(d) \in Int /\ s.moved \in Seq(Int)
  BY WordSizeType DEF TransferState
<1>2. s.result + Len(d) \in Int
  BY <1>1
<1>3. s.moved \o d \in Seq(Int)
  BY <1>1, Joined
<1> QED
  BY <1>2, <1>3, WordSplit

\* the memory after bytes were stored
LEMMA Stored ==
    ASSUME NEW m \in Memories, NEW b \in Nat, NEW d \in Seq(Int), NEW len \in Nat,
           Len(d) =< len, b + len =< MemSize
    PROVE  /\ write_mem(m, b, d) \in Memories
           /\ \A i \in 1 .. Len(d) : write_mem(m, b, d)[b + i - 1] = d[i]
           /\ \A a \in 0 .. MemSize - 1 : a \notin b .. b + len - 1 => write_mem(m, b, d)[a] = m[a]
<1> DEFINE n == Len(d)
           w == write_mem(m, b, d)
<1>1. n \in Nat /\ n =< len /\ MemSize \in Nat
  BY OsAssumption
<1>2. DOMAIN m = 0 .. MemSize - 1 /\ \A a \in 0 .. MemSize - 1 : m[a] \in Int
  BY DEF Memories
<1>3. \A i \in 1 .. n : d[i] \in Int
  OBVIOUS
<1>4. w = [a \in 0 .. MemSize - 1 |-> IF a \in b .. b + n - 1 THEN d[a - b + 1] ELSE m[a]]
  BY <1>2 DEF write_mem
<1> HIDE DEF n, w
<1>5. \A a \in b .. b + n - 1 : a - b + 1 \in 1 .. n
  BY <1>1
<1>6. w \in Memories
  BY <1>2, <1>3, <1>4, <1>5 DEF Memories
<1>7. \A i \in 1 .. n : w[b + i - 1] = d[i]
  <2>1. \A i \in 1 .. n : b + i - 1 \in 0 .. MemSize - 1 /\ b + i - 1 \in b .. b + n - 1 /\ (b + i - 1) - b + 1 = i
    BY <1>1
  <2> QED
    BY <1>4, <2>1
<1>8. \A a \in 0 .. MemSize - 1 : a \notin b .. b + len - 1 => w[a] = m[a]
  <2>1. \A a \in b .. b + n - 1 : a \in b .. b + len - 1
    BY <1>1
  <2> QED
    BY <1>4, <2>1
<1> QED
  BY <1>6, <1>7, <1>8 DEF n, w

LEMMA ReadvPasses ==
    ASSUME NEW fd, NEW s \in TransferState, NEW buf, IsBuffer(buf), NEW out \in Outcomes
    PROVE  ReadvStep(fd, s, buf, out) \in TransferState /\ Passes(s, ReadvStep(fd, s, buf, out), buf)
<1> DEFINE t == ReadvStep(fd, s, buf, out)
           d == read_io(fd, out, buf[2], Len(s.moved))
           w == write_mem(s.mem, buf[1], d)
           r == Word(s.result + Len(d))
           u == s.moved \o d
           g == Len(d) >= buf[2]
<1>1. CASE ~s.go
  BY <1>1 DEF ReadvStep, Passes
<1>2. CASE s.go /\ Fails(fd, out)
  <2>1. t = Failed(s, out) /\ out.error # "none"
    BY <1>2 DEF ReadvStep, Fails
  <2> QED
    BY <1>2, <2>1, FailedTyped
<1>3. CASE s.go /\ ~Fails(fd, out)
  <2>1. s.mem \in Memories /\ s.moved \in Seq(Int) /\ s.error \in Errors /\ Len(s.moved) \in Nat
    BY DEF TransferState
  <2>2. d \in Seq(Int) /\ Len(d) =< buf[2]
    BY <2>1, DataRead DEF IsBuffer
  <2>3. s = [mem |-> s.mem, result |-> s.result, moved |-> s.moved, error |-> s.error, go |-> s.go]
    BY DEF TransferState
  <2>4. t = [s EXCEPT !.mem = w, !.result = r, !.moved = u, !.go = g]
    BY <1>3 DEF ReadvStep
  <2>5. g \in BOOLEAN
    OBVIOUS
  <2> HIDE DEF t, w, r, u, d, g
  <2>6. t = [mem |-> w, result |-> r, moved |-> u, error |-> s.error, go |-> g]
    BY <2>3, <2>4
  <2>7. r \in 0 .. WordSize - 1 /\ u \in Seq(Int)
    BY <2>2, Advanced DEF r, u
  <2>8. w \in Memories
    BY <2>1, <2>2, Stored DEF w, IsBuffer
  <2>9. t \in TransferState
    BY <2>1, <2>5, <2>6, <2>7, <2>8 DEF TransferState
  <2>10. /\ \A i \in 1 .. Len(d) : w[buf[1] + i - 1] = d[i]
         /\ \A a \in 0 .. MemSize - 1 : a \notin buf[1] .. buf[1] + buf[2] - 1 => w[a] = s.mem[a]
    <3>1. buf[1] \in Nat /\ buf[2] \in Nat /\ buf[1] + buf[2] =< MemSize
      BY DEF IsBuffer
    <3>2. \A i \in 1 .. Len(d) : w[buf[1] + i - 1] = d[i]
      BY <2>1, <2>2, <3>1, Stored DEF w
    <3>3. \A a \in 0 .. MemSize - 1 : a \notin buf[1] .. buf[1] + buf[2] - 1 => w[a] = s.mem[a]
      BY <2>1, <2>2, <3>1, Stored DEF w
    <3> QED
      BY <3>2, <3>3
  <2>11. t.mem = w /\ t.result = r /\ t.moved = u /\ t.error = s.error /\ t.go = g
    BY <2>6
  <2>12. Moves(s, t, buf, d)
    BY <2>2, <2>10, <2>11 DEF Moves, r, u, g
  <2> QED
    BY <1>3, <2>2, <2>9, <2>12 DEF Passes, t
<1> QED
  BY <1>1, <1>2, <1>3

LEMMA WritevPasses ==
    ASSUME NEW fd, NEW s \in TransferState, NEW buf, IsBuffer(buf), NEW out \in Outcomes
    PROVE  WritevStep(fd, s, buf, out) \in TransferState /\ Passes(s, WritevStep(fd, s, buf, out), buf)
<1> DEFINE t == WritevStep(fd, s, buf, out)
           n == write_io(fd, out, buf[2])
           d == read_mem(s.mem, buf[1], n)
           r == Word(s.result + n)
           u == s.moved \o d
           g == n >= buf[2]
<1>1. CASE ~s.go
  BY <1>1 DEF WritevStep, Passes
<1>2. CASE s.go /\ Fails(fd, out)
  <2>1. t = Failed(s, out) /\ out.error # "none"
    BY <1>2 DEF WritevStep, Fails
  <2> QED
    BY <1>2, <2>1, FailedTyped
<1>3. CASE s.go /\ ~Fails(fd, out)
  <2>1. s.mem \in Memories /\ s.moved \in Seq(Int) /\ s.error \in Errors /\ MemSize \in Nat
    BY OsAssumption DEF TransferState
  <2>2. n \in Nat /\ n =< buf[2]
    <3>1. n \in 0 .. buf[2] /\ buf[2] \in Nat
      BY DataWritten DEF IsBuffer
    <3> HIDE DEF n
    <3> QED
      BY <3>1
  <2>3. s = [mem |-> s.mem, result |-> s.result, moved |-> s.moved, error |-> s.error, go |-> s.go]
    BY DEF TransferState
  <2>4. t = [s EXCEPT !.result = r, !.moved = u, !.go = g]
    BY <1>3 DEF WritevStep
  <2>5. g \in BOOLEAN
    OBVIOUS
  <2> HIDE DEF t, n, r, u, d, g
  <2>6. buf[1] \in Nat /\ buf[2] \in Nat /\ buf[1] + n =< MemSize
    BY <2>1, <2>2 DEF IsBuffer
  <2>7. /\ d \in Seq(Int) /\ Len(d) = n
        /\ \A i \in 1 .. n : d[i] = s.mem[buf[1] + i - 1]
    BY <2>1, <2>2, <2>6, ReadTyped DEF d
  <2>8. r \in 0 .. WordSize - 1 /\ u \in Seq(Int)
    BY <2>7, Advanced DEF r, u
  <2>9. t = [mem |-> s.mem, result |-> r, moved |-> u, error |-> s.error, go |-> g]
    BY <2>3, <2>4
  <2>10. t \in TransferState
    BY <2>1, <2>5, <2>8, <2>9 DEF TransferState
  <2>11. t.mem = s.mem /\ t.result = r /\ t.moved = u /\ t.error = s.error /\ t.go = g
    BY <2>9
  <2>12. Moves(s, t, buf, d)
    BY <2>2, <2>7, <2>11 DEF Moves, r, u, g
  <2> QED
    BY <1>3, <2>7, <2>10, <2>12 DEF Passes, t
<1> QED
  BY <1>1, <1>2, <1>3

-----------------------------------------------------------------------------
(* The loops of readv and writev.                                           *)

\* the result counts the bytes, or is the error that met the first of them
CountInv(s) ==
    /\ s.error = "none" => s.result = Word(Len(s.moved))
    /\ s.error # "none" /\ s.moved = <<>> => s.result = result_errno_if_error(s.error)
    /\ Len(s.moved) \in 1 .. WordSize - 1 => s.result = Len(s.moved)
    /\ s.go => s.error = "none"

\* the bytes of the first k buffers are those that were moved, as far as it got
BytesInv(s, iov, k) ==
    Separate(iov) => /\ Begins(s.moved, Gather(s.mem, iov)[k])
                     /\ s.go => s.moved = Gather(s.mem, iov)[k]

LEMMA CountKept ==
    ASSUME NEW s \in TransferState, NEW t \in TransferState, NEW buf, Passes(s, t, buf), CountInv(s)
    PROVE  CountInv(t)
<1>1. s.moved \in Seq(Int) /\ Len(s.moved) \in Nat /\ WordSize \in Nat /\ WordSize > 0
  BY WordSizeType DEF TransferState
<1>2. CASE ~s.go /\ t = s
  BY <1>2
<1>3. CASE /\ s.go /\ ~t.go /\ t.mem = s.mem /\ t.moved = s.moved /\ t.error # "none"
           /\ t.result = IF s.result = 0 THEN result_errno_if_error(t.error) ELSE s.result
  <2>1. s.error = "none" /\ s.result = Word(Len(s.moved))
    BY <1>3 DEF CountInv
  <2>2. ASSUME s.moved = <<>>
        PROVE  s.result = 0
    <3>1. Len(s.moved) = 0 /\ Word(0) = 0
      BY <1>1, <2>2, WordSmall
    <3> QED
      BY <2>1, <3>1
  <2>3. ASSUME Len(s.moved) \in 1 .. WordSize - 1
        PROVE  s.result = Len(s.moved) /\ s.result # 0
    BY <1>1, <2>3 DEF CountInv
  <2> QED
    BY <1>3, <2>2, <2>3 DEF CountInv
<1>4. ASSUME s.go, NEW d \in Seq(Int), Moves(s, t, buf, d)
      PROVE  CountInv(t)
  <2>1. s.error = "none" /\ s.result = Word(Len(s.moved))
    BY <1>4 DEF CountInv
  <2>2. t.error = "none" /\ t.result = Word(s.result + Len(d)) /\ t.moved = s.moved \o d
    BY <1>4, <2>1 DEF Moves
  <2> DEFINE a == Len(s.moved)
             b == Len(d)
             c == Len(t.moved)
  <2>3. c = a + b
    BY <1>1, <2>2, Joined
  <2>4. a \in Int /\ b \in Int /\ s.result = Word(a) /\ t.result = Word(s.result + b)
    BY <1>1, <2>1, <2>2
  <2> HIDE DEF a, b, c
  <2>5. t.result = Word(c)
    BY <2>3, <2>4, WordOfWord
  <2>6. c \in 1 .. WordSize - 1 => Word(c) = c
    <3>1. c \in 1 .. WordSize - 1 => c \in 0 .. WordSize - 1
      BY <1>1
    <3> QED
      BY <3>1, WordSmall
  <2> QED
    BY <2>2, <2>5, <2>6 DEF CountInv, c
<1> QED
  BY <1>2, <1>3, <1>4 DEF Passes

\* a buffer apart from another one shares no byte with it
LEMMA ApartBytes ==
    ASSUME NEW b1, NEW b2, IsBuffer(b1), IsBuffer(b2),
           b1[1] + b1[2] =< b2[1] \/ b2[1] + b2[2] =< b1[1], NEW i \in 1 .. b1[2]
    PROVE  b1[1] + i - 1 \in 0 .. MemSize - 1 /\ b1[1] + i - 1 \notin b2[1] .. b2[1] + b2[2] - 1
<1>1. MemSize \in Nat
  BY OsAssumption
<1> QED
  BY <1>1 DEF IsBuffer

LEMMA BytesKept ==
    ASSUME NEW iov, NEW n \in Nat, Len(iov) = n, DOMAIN iov = 1 .. n,
           \A k \in 1 .. n : IsBuffer(iov[k]),
           NEW s \in TransferState, NEW t \in TransferState, NEW k \in 1 .. n,
           Passes(s, t, iov[k]), BytesInv(s, iov, k - 1)
    PROVE  BytesInv(t, iov, k)
<1> SUFFICES ASSUME Separate(iov)
             PROVE  /\ Begins(t.moved, Gather(t.mem, iov)[k])
                    /\ t.go => t.moved = Gather(t.mem, iov)[k]
  BY DEF BytesInv
<1> DEFINE buf == iov[k]
           before == Gather(s.mem, iov)[k - 1]
           after == Gather(t.mem, iov)[k - 1]
           b == read_mem(t.mem, buf[1], buf[2])
<1>1. /\ s.moved \in Seq(Int) /\ t.moved \in Seq(Int) /\ s.mem \in Memories /\ t.mem \in Memories
      /\ k - 1 \in 0 .. n
  BY DEF TransferState
<1>2. Begins(s.moved, before) /\ (s.go => s.moved = before)
  BY DEF BytesInv
<1>3. after \in Seq(Int)
  BY <1>1, GatherDefined
<1>4. Gather(t.mem, iov)[k] = after \o b
  BY <1>1, GatherDefined
<1>5. /\ b \in Seq(Int) /\ Len(b) = buf[2]
      /\ \A i \in 1 .. buf[2] : b[i] = t.mem[buf[1] + i - 1]
  BY <1>1, ReadTyped DEF IsBuffer
<1>6. IsBuffer(buf) /\ buf[2] \in Nat
  BY DEF IsBuffer
<1>7. CASE ~s.go /\ t = s
  <2>1. Begins(t.moved, after)
    BY <1>2, <1>7
  <2> HIDE DEF after, b
  <2>2. Begins(t.moved, after \o b)
    BY <1>1, <1>3, <1>5, <2>1, BeginsJoined
  <2> QED
    BY <1>4, <1>7, <2>2
<1>8. CASE s.go /\ ~t.go /\ t.mem = s.mem /\ t.moved = s.moved
  <2>1. Begins(t.moved, after)
    BY <1>2, <1>8
  <2> HIDE DEF after, b
  <2>2. Begins(t.moved, after \o b)
    BY <1>1, <1>3, <1>5, <2>1, BeginsJoined
  <2> QED
    BY <1>4, <1>8, <2>2
<1>9. ASSUME s.go, NEW d \in Seq(Int), Moves(s, t, buf, d)
      PROVE  Begins(t.moved, Gather(t.mem, iov)[k]) /\ (t.go => t.moved = Gather(t.mem, iov)[k])
  <2>1. /\ t.moved = s.moved \o d /\ (t.go <=> Len(d) >= buf[2]) /\ Len(d) =< buf[2]
        /\ \A i \in 1 .. Len(d) : t.mem[buf[1] + i - 1] = d[i]
        /\ \A a \in 0 .. MemSize - 1 : a \notin buf[1] .. buf[1] + buf[2] - 1 => t.mem[a] = s.mem[a]
    BY <1>9 DEF Moves
  <2>2. before = after
    <3>1. ASSUME NEW j \in 1 .. k - 1, NEW i \in 1 .. iov[j][2]
          PROVE  s.mem[iov[j][1] + i - 1] = t.mem[iov[j][1] + i - 1]
      <4>1. j \in 1 .. n /\ j # k
        OBVIOUS
      <4>2. iov[j][1] + iov[j][2] =< buf[1] \/ buf[1] + buf[2] =< iov[j][1]
        BY <4>1 DEF Separate
      <4>3. IsBuffer(iov[j])
        BY <4>1
      <4> DEFINE a == iov[j][1] + i - 1
      <4>4. a \in 0 .. MemSize - 1 /\ a \notin buf[1] .. buf[1] + buf[2] - 1
        BY <1>6, <4>2, <4>3, ApartBytes
      <4> HIDE DEF a, buf
      <4>5. t.mem[a] = s.mem[a]
        BY <2>1, <4>4
      <4> QED
        BY <4>5 DEF a
    <3> QED
      BY <1>1, <3>1, GatherSame
  <2>3. t.moved = after \o d
    BY <1>2, <1>9, <2>1, <2>2
  <2>4. Begins(d, b)
    <3>1. Len(d) \in Nat
      OBVIOUS
    <3> HIDE DEF b, buf
    <3>2. \A i \in 1 .. Len(d) : i \in 1 .. buf[2]
      BY <1>6, <2>1, <3>1
    <3> QED
      BY <1>5, <2>1, <3>2 DEF Begins
  <2>5. Begins(after \o d, after \o b)
    <3> HIDE DEF after, b
    <3> QED
      BY <1>3, <1>5, <2>4, JoinedBegins
  <2>6. ASSUME t.go
        PROVE  d = b
    <3>1. Len(d) \in Nat
      OBVIOUS
    <3> HIDE DEF b, buf
    <3>2. Len(d) = Len(b)
      BY <1>5, <1>6, <2>1, <2>6, <3>1
    <3>3. \A i \in 1 .. Len(d) : d[i] = b[i]
      BY <2>4 DEF Begins
    <3> QED
      BY <1>5, <3>2, <3>3, SeqEqual
  <2> HIDE DEF after, b
  <2> QED
    BY <1>4, <2>3, <2>5, <2>6
<1> QED
  BY <1>7, <1>8, <1>9 DEF Passes

LEMMA NothingMovedTyped ==
    ASSUME mem \in Memories
    PROVE  NothingMoved \in TransferState
<1>1. 0 \in 0 .. WordSize - 1 /\ <<>> \in Seq(Int) /\ "none" \in Errors
  BY WordSizeType DEF Errors
<1> QED
  BY <1>1 DEF NothingMoved, TransferState

ReadvLoop(fd, iov, outs) == Transfers(ReadvStep, fd, iov, outs)

\* The loop of readv is the function it is written as.
LEMMA ReadvDefined ==
    ASSUME NEW fd, NEW iov, NEW n \in Nat, Len(iov) = n, \A k \in 1 .. n : IsBuffer(iov[k]),
           NEW outs, \A k \in 1 .. n : outs[k] \in Outcomes, mem \in Memories
    PROVE  LET F == ReadvLoop(fd, iov, outs)
           IN  F[0] = NothingMoved /\ \A k \in 1 .. n : F[k] = ReadvStep(fd, F[k - 1], iov[k], outs[k])
<1> DEFINE Step(s, k) == ReadvStep(fd, s, iov[k], outs[k])
           D == [k \in 1 .. n |-> [s \in TransferState |-> Step(s, k)]]
           Is(g) == g = [k \in 0 .. n |-> IF k = 0 THEN NothingMoved ELSE Step(g[k - 1], k)]
           F == ReadvLoop(fd, iov, outs)
<1>1. F = CHOOSE g : Is(g)
  BY DEF ReadvLoop, Transfers
<1>2. ASSUME NEW s \in TransferState, NEW k \in 1 .. n
      PROVE  Step(s, k) \in TransferState
  BY ReadvPasses
<1> HIDE DEF Step, F
<1>3. D \in [1 .. n -> [TransferState -> TransferState]]
  BY <1>2
<1>4. PICK g \in [0 .. n -> TransferState] : IsLoop(g, n, NothingMoved, D)
  <2> HIDE DEF D
  <2> QED
    BY <1>3, NothingMovedTyped, LoopDefined
<1>5. g[0] = NothingMoved /\ \A k \in 1 .. n : g[k] = D[k][g[k - 1]]
  BY <1>4 DEF IsLoop
<1>6. \A k \in 1 .. n : g[k] = Step(g[k - 1], k)
  <2> SUFFICES ASSUME NEW k \in 1 .. n
               PROVE  g[k] = Step(g[k - 1], k)
    OBVIOUS
  <2>1. k - 1 \in 0 .. n
    OBVIOUS
  <2>2. g[k - 1] \in TransferState
    BY <2>1
  <2>3. D[k][g[k - 1]] = Step(g[k - 1], k)
    BY <2>2
  <2> HIDE DEF D
  <2> QED
    BY <1>5, <2>3
<1>7. Is(g)
  <2> HIDE DEF D
  <2>1. \A k \in 0 .. n : k = 0 \/ k \in 1 .. n
    OBVIOUS
  <2> QED
    BY <1>5, <1>6, <2>1
<1>8. Is(F)
  <2> HIDE DEF Is
  <2> QED
    BY <1>1, <1>7
<1>9. F[0] = NothingMoved
  <2>1. 0 \in 0 .. n
    OBVIOUS
  <2> QED
    BY <1>8, <2>1
<1>10. \A k \in 1 .. n : F[k] = Step(F[k - 1], k)
  <2>1. \A k \in 1 .. n : k \in 0 .. n /\ k # 0
    OBVIOUS
  <2> QED
    BY <1>8, <2>1
<1> QED
  BY <1>9, <1>10 DEF F, Step

WritevLoop(fd, iov, outs) == Transfers(WritevStep, fd, iov, outs)

\* The loop of writev is the function it is written as.
LEMMA WritevDefined ==
    ASSUME NEW fd, NEW iov, NEW n \in Nat, Len(iov) = n, \A k \in 1 .. n : IsBuffer(iov[k]),
           NEW outs, \A k \in 1 .. n : outs[k] \in Outcomes, mem \in Memories
    PROVE  LET F == WritevLoop(fd, iov, outs)
           IN  F[0] = NothingMoved /\ \A k \in 1 .. n : F[k] = WritevStep(fd, F[k - 1], iov[k], outs[k])
<1> DEFINE Step(s, k) == WritevStep(fd, s, iov[k], outs[k])
           D == [k \in 1 .. n |-> [s \in TransferState |-> Step(s, k)]]
           Is(g) == g = [k \in 0 .. n |-> IF k = 0 THEN NothingMoved ELSE Step(g[k - 1], k)]
           F == WritevLoop(fd, iov, outs)
<1>1. F = CHOOSE g : Is(g)
  BY DEF WritevLoop, Transfers
<1>2. ASSUME NEW s \in TransferState, NEW k \in 1 .. n
      PROVE  Step(s, k) \in TransferState
  BY WritevPasses
<1> HIDE DEF Step, F
<1>3. D \in [1 .. n -> [TransferState -> TransferState]]
  BY <1>2
<1>4. PICK g \in [0 .. n -> TransferState] : IsLoop(g, n, NothingMoved, D)
  <2> HIDE DEF D
  <2> QED
    BY <1>3, NothingMovedTyped, LoopDefined
<1>5. g[0] = NothingMoved /\ \A k \in 1 .. n : g[k] = D[k][g[k - 1]]
  BY <1>4 DEF IsLoop
<1>6. \A k \in 1 .. n : g[k] = Step(g[k - 1], k)
  <2> SUFFICES ASSUME NEW k \in 1 .. n
               PROVE  g[k] = Step(g[k - 1], k)
    OBVIOUS
  <2>1. k - 1 \in 0 .. n
    OBVIOUS
  <2>2. g[k - 1] \in TransferState
    BY <2>1
  <2>3. D[k][g[k - 1]] = Step(g[k - 1], k)
    BY <2>2
  <2> HIDE DEF D
  <2> QED
    BY <1>5, <2>3
<1>7. Is(g)
  <2> HIDE DEF D
  <2>1. \A k \in 0 .. n : k = 0 \/ k \in 1 .. n
    OBVIOUS
  <2> QED
    BY <1>5, <1>6, <2>1
<1>8. Is(F)
  <2> HIDE DEF Is
  <2> QED
    BY <1>1, <1>7
<1>9. F[0] = NothingMoved
  <2>1. 0 \in 0 .. n
    OBVIOUS
  <2> QED
    BY <1>8, <2>1
<1>10. \A k \in 1 .. n : F[k] = Step(F[k - 1], k)
  <2>1. \A k \in 1 .. n : k \in 0 .. n /\ k # 0
    OBVIOUS
  <2> QED
    BY <1>8, <2>1
<1> QED
  BY <1>9, <1>10 DEF F, Step

\* what the loops leave
Reported(iov, s) == s \in TransferState /\ CountInv(s) /\ BytesInv(s, iov, Len(iov))

LEMMA LoopReported ==
    ASSUME NEW iov \in Vectors, NEW F, mem \in Memories, F[0] = NothingMoved,
           \A k \in 1 .. Len(iov) :
               F[k - 1] \in TransferState
                   => F[k] \in TransferState /\ Passes(F[k - 1], F[k], iov[k])
    PROVE  Reported(iov, F[Len(iov)])
<1> DEFINE n == Len(iov)
           G == {k \in 0 .. n : F[k] \in TransferState /\ CountInv(F[k]) /\ BytesInv(F[k], iov, k)}
<1>1. n \in Nat /\ DOMAIN iov = 1 .. n /\ \A k \in 1 .. n : IsBuffer(iov[k])
  BY BuffersOfVectors
<1>2. 0 \in G
  <2> DEFINE s == NothingMoved
  <2>1. s.mem = mem /\ s.result = 0 /\ s.moved = <<>> /\ s.error = "none"
    BY DEF NothingMoved
  <2>2. s \in TransferState
    BY NothingMovedTyped
  <2> HIDE DEF s
  <2>3. CountInv(s)
    <3>1. Len(s.moved) = 0 /\ Word(0) = 0
      BY <2>1, WordSizeType, WordSmall
    <3> QED
      BY <2>1, <3>1 DEF CountInv
  <2>4. BytesInv(s, iov, 0)
    <3>1. Gather(s.mem, iov)[0] = <<>>
      BY <1>1, <2>1, GatherDefined
    <3>2. Begins(<<>>, <<>>)
      BY DEF Begins
    <3> QED
      BY <2>1, <3>1, <3>2 DEF BytesInv
  <2>5. 0 \in 0 .. n
    BY <1>1
  <2> QED
    BY <2>2, <2>3, <2>4, <2>5 DEF s
<1>3. ASSUME NEW k \in 1 .. n, k - 1 \in G
      PROVE  k \in G
  <2>1. F[k - 1] \in TransferState /\ CountInv(F[k - 1]) /\ BytesInv(F[k - 1], iov, k - 1)
    BY <1>3
  <2>2. F[k] \in TransferState /\ Passes(F[k - 1], F[k], iov[k])
    BY <2>1
  <2>3. CountInv(F[k])
    BY <2>1, <2>2, CountKept
  <2>4. BytesInv(F[k], iov, k)
    BY <1>1, <2>1, <2>2, BytesKept
  <2>5. k \in 0 .. n
    BY <1>1
  <2> QED
    BY <2>2, <2>3, <2>4, <2>5
<1>4. G \in SUBSET (0 .. n)
  OBVIOUS
<1> HIDE DEF G
<1>5. G = 0 .. n
  BY <1>1, <1>2, <1>3, <1>4, EveryPass
<1>6. n \in G
  BY <1>1, <1>5
<1> QED
  BY <1>6 DEF G, Reported

LEMMA ReadvReported ==
    ASSUME NEW iov \in Vectors, NEW fd, NEW outs \in [DOMAIN iov -> Outcomes], mem \in Memories
    PROVE  Reported(iov, Vectored(ReadvStep, fd, iov, outs))
<1> DEFINE F == ReadvLoop(fd, iov, outs)
           n == Len(iov)
<1>1. n \in Nat /\ DOMAIN iov = 1 .. n /\ \A k \in 1 .. n : IsBuffer(iov[k])
  BY BuffersOfVectors
<1>2. \A k \in 1 .. n : outs[k] \in Outcomes
  BY <1>1
<1>3. F[0] = NothingMoved /\ \A k \in 1 .. n : F[k] = ReadvStep(fd, F[k - 1], iov[k], outs[k])
  <2> DEFINE m == n
  <2>1. m \in Nat /\ Len(iov) = m
    BY <1>1
  <2>2. \A k \in 1 .. m : IsBuffer(iov[k])
    BY <1>1
  <2>3. \A k \in 1 .. m : outs[k] \in Outcomes
    BY <1>2
  <2> HIDE DEF m
  <2>4. F[0] = NothingMoved
    BY <2>1, <2>2, <2>3, ReadvDefined
  <2>5. \A k \in 1 .. m : F[k] = ReadvStep(fd, F[k - 1], iov[k], outs[k])
    BY <2>1, <2>2, <2>3, ReadvDefined
  <2> QED
    BY <2>4, <2>5 DEF m
<1> HIDE DEF F
<1>4. ASSUME NEW k \in 1 .. n, F[k - 1] \in TransferState
      PROVE  F[k] \in TransferState /\ Passes(F[k - 1], F[k], iov[k])
  <2>1. IsBuffer(iov[k]) /\ outs[k] \in Outcomes
    BY <1>1, <1>2
  <2>2. F[k] = ReadvStep(fd, F[k - 1], iov[k], outs[k])
    BY <1>3
  <2> QED
    BY <1>4, <2>1, <2>2, ReadvPasses
<1>5. Vectored(ReadvStep, fd, iov, outs) = F[n]
  BY DEF Vectored, ReadvLoop, F
<1>6. Reported(iov, F[n])
  BY <1>3, <1>4, LoopReported
<1> QED
  BY <1>5, <1>6

LEMMA WritevReported ==
    ASSUME NEW iov \in Vectors, NEW fd, NEW outs \in [DOMAIN iov -> Outcomes], mem \in Memories
    PROVE  Reported(iov, Vectored(WritevStep, fd, iov, outs))
<1> DEFINE F == WritevLoop(fd, iov, outs)
           n == Len(iov)
<1>1. n \in Nat /\ DOMAIN iov = 1 .. n /\ \A k \in 1 .. n : IsBuffer(iov[k])
  BY BuffersOfVectors
<1>2. \A k \in 1 .. n : outs[k] \in Outcomes
  BY <1>1
<1>3. F[0] = NothingMoved /\ \A k \in 1 .. n : F[k] = WritevStep(fd, F[k - 1], iov[k], outs[k])
  <2> DEFINE m == n
  <2>1. m \in Nat /\ Len(iov) = m
    BY <1>1
  <2>2. \A k \in 1 .. m : IsBuffer(iov[k])
    BY <1>1
  <2>3. \A k \in 1 .. m : outs[k] \in Outcomes
    BY <1>2
  <2> HIDE DEF m
  <2>4. F[0] = NothingMoved
    BY <2>1, <2>2, <2>3, WritevDefined
  <2>5. \A k \in 1 .. m : F[k] = WritevStep(fd, F[k - 1], iov[k], outs[k])
    BY <2>1, <2>2, <2>3, WritevDefined
  <2> QED
    BY <2>4, <2>5 DEF m
<1> HIDE DEF F
<1>4. ASSUME NEW k \in 1 .. n, F[k - 1] \in TransferState
      PROVE  F[k] \in TransferState /\ Passes(F[k - 1], F[k], iov[k])
  <2>1. IsBuffer(iov[k]) /\ outs[k] \in Outcomes
    BY <1>1, <1>2
  <2>2. F[k] = WritevStep(fd, F[k - 1], iov[k], outs[k])
    BY <1>3
  <2> QED
    BY <1>4, <2>1, <2>2, WritevPasses
<1>5. Vectored(WritevStep, fd, iov, outs) = F[n]
  BY DEF Vectored, WritevLoop, F
<1>6. Reported(iov, F[n])
  BY <1>3, <1>4, LoopReported
<1> QED
  BY <1>5, <1>6

-----------------------------------------------------------------------------
(* What a call reports.                                                     *)

Words == 0 .. WordSize - 1

CallsInv == ResourcesInv /\ mem \in Memories /\ CallsReported

LEMMA StatusIsWord ==
    ASSUME NEW r \in Words
    PROVE  status_from_result(r) \in Words
BY WordSizeType DEF Words, status_from_result, IsError

LEMMA FewWords ==
    ASSUME NEW n \in 0 .. 4095
    PROVE  n \in Words
BY WordSizeType DEF Words

LEMMA ErrorIsWord ==
    ASSUME NEW e
    PROVE  result_errno_if_error(e) \in Words
<1> DEFINE r == result_errno_if_error(e)
<1>1. r \in WordSize - 4095 .. WordSize - 1
  BY ErrorResult
<1> HIDE DEF r
<1>2. r \in Words
  BY <1>1, WordSizeType DEF Words
<1> QED
  BY <1>2 DEF r

\* the names of a path and what the host was asked for
PathKept(asked, path) ==
    /\ \A i \in DOMAIN path : path[i] # ".."
    /\ SingleSlashes(asked) => Target(path) = Target(asked)

PathNames == STRING

LEMMA HostPathKept ==
    ASSUME NEW path \in Paths
    PROVE  PathKept(path, filepath_to_host(path))
<1>1. path \in Seq(PathNames)
  BY OsAssumption DEF PathNames
<1> QED
  BY <1>1, PathsResolved DEF PathKept

LEMMA NoPathKept == PathKept(<<>>, <<>>)
BY DEF PathKept

\* a call that moves no byte
LEMMA StillReported ==
    ASSUME mem' \in Memories, v0' \in Words, a3' \in Words, io'.moved = <<>>,
           io'.error \notin {"none", "EOPNOTSUPP", "ENOTSUP", "EDEADLK"}
               => a3' = TargetNumber(io'.error) /\ v0' = Word(-a3'),
           PathKept(io'.asked, io'.path)
    PROVE  CallsReported'
<1>1. WordsReturned'
  BY DEF WordsReturned, Words, Memories
<1>2. HostErrorsReported'
  BY DEF HostErrorsReported
<1>3. VectorsMatchStream'
  BY DEF VectorsMatchStream
<1>4. HostPathResolved'
  BY DEF HostPathResolved, PathKept, Target
<1> QED
  BY <1>1, <1>2, <1>3, <1>4 DEF CallsReported

LEMMA QuietReported ==
    ASSUME mem' \in Memories, v0' \in Words, a3' \in Words, io' = Quiet
    PROVE  CallsReported'
<1>1. io'.moved = <<>> /\ io'.error = "none" /\ io'.asked = <<>> /\ io'.path = <<>>
  BY DEF Quiet
<1> QED
  BY <1>1, NoPathKept, StillReported

\* the words an error leaves
LEMMA FailureReported ==
    ASSUME NEW e, v0' = result_errno_if_error(e), a3' = status_from_result(result_errno_if_error(e)),
           mem' \in Memories, io'.moved = <<>>, io'.error = e, PathKept(io'.asked, io'.path)
    PROVE  CallsReported'
<1> DEFINE r == result_errno_if_error(e)
<1>1. r \in Words /\ status_from_result(r) \in Words
  BY ErrorIsWord, StatusIsWord
<1>2. e \notin {"EOPNOTSUPP", "ENOTSUP", "EDEADLK"}
          => status_from_result(r) = TargetNumber(e) /\ r = Word(-TargetNumber(e))
  BY ErrorReported
<1> HIDE DEF r
<1>3. v0' = r /\ a3' = status_from_result(r)
  BY DEF r
<1>4. e \notin {"none", "EOPNOTSUPP", "ENOTSUP", "EDEADLK"} => a3' = TargetNumber(e) /\ v0' = Word(-a3')
  BY <1>2, <1>3
<1> QED
  BY <1>1, <1>3, <1>4, StillReported

\* a call that moves bytes
LEMMA FinishReported ==
    ASSUME NEW iov \in Vectors, NEW s, Reported(iov, s), Finish(iov, s)
    PROVE  mem' \in Memories /\ CallsReported'
<1>1. /\ s.mem \in Memories /\ s.result \in Words /\ s.moved \in Seq(Int)
      /\ CountInv(s) /\ BytesInv(s, iov, Len(iov))
  BY DEF Reported, TransferState, Words
<1>2. v0' = s.result /\ a3' = status_from_result(s.result) /\ mem' = s.mem
  BY DEF Finish, Return
<1>3. io'.moved = s.moved /\ io'.iov = iov /\ io'.error = s.error /\ io'.asked = <<>> /\ io'.path = <<>>
  BY DEF Finish, Quiet
<1>4. CASE s.moved = <<>> /\ s.error # "none"
  <2>1. s.result = result_errno_if_error(s.error)
    BY <1>1, <1>4 DEF CountInv
  <2> QED
    BY <1>1, <1>2, <1>3, <1>4, <2>1, NoPathKept, FailureReported
<1>5. CASE s.moved = <<>> /\ s.error = "none"
  <2>1. status_from_result(s.result) \in Words
    BY <1>1, StatusIsWord
  <2> QED
    BY <1>1, <1>2, <1>3, <1>5, <2>1, NoPathKept, StillReported
<1>6. CASE s.moved # <<>>
  <2>1. WordsReturned'
    <3>1. status_from_result(s.result) \in Words
      BY <1>1, StatusIsWord
    <3> QED
      BY <1>1, <1>2, <3>1 DEF WordsReturned, Words, Memories
  <2>2. HostErrorsReported'
    BY <1>3, <1>6 DEF HostErrorsReported
  <2>3. ASSUME ~IsError(Len(s.moved))
        PROVE  v0' = Len(s.moved) /\ a3' = 0
    <3> DEFINE n == Len(s.moved)
    <3>1. n \in Nat /\ n # 0
      BY <1>1, <1>6
    <3>2. n \in 1 .. WordSize - 1 => s.result = n
      BY <1>1 DEF CountInv
    <3>3. ~IsError(n)
      BY <2>3
    <3> HIDE DEF n
    <3>4. n \in 1 .. WordSize - 1
      BY <3>1, <3>3, WordSizeType DEF IsError
    <3>5. v0' = n /\ a3' = 0
      BY <1>2, <3>2, <3>3, <3>4 DEF status_from_result
    <3> QED
      BY <3>5 DEF n
  <2>4. ASSUME Separate(iov)
        PROVE  IsPrefix(s.moved, Gather(s.mem, iov)[Len(iov)])
    <3> DEFINE n == Len(iov)
               t == Gather(s.mem, iov)[n]
    <3>1. n \in Nat /\ n \in 0 .. n /\ \A k \in 1 .. n : IsBuffer(iov[k])
      <4>1. n \in Nat /\ \A k \in 1 .. n : IsBuffer(iov[k])
        BY BuffersOfVectors
      <4> HIDE DEF n
      <4> QED
        BY <4>1
    <3>2. t \in Seq(Int)
      <4> DEFINE m == n
      <4>1. m \in Nat /\ m \in 0 .. m /\ Len(iov) = m
        BY <3>1
      <4>2. \A k \in 1 .. m : IsBuffer(iov[k])
        BY <3>1
      <4>3. t = Gather(s.mem, iov)[m]
        OBVIOUS
      <4> HIDE DEF m, t
      <4>4. \A k \in 0 .. m : Gather(s.mem, iov)[k] \in Seq(Int)
        BY <1>1, <4>1, <4>2, GatherDefined
      <4> QED
        BY <4>1, <4>3, <4>4
    <3>3. Begins(s.moved, t)
      BY <1>1, <2>4 DEF BytesInv
    <3> HIDE DEF t
    <3>4. IsPrefix(s.moved, t)
      BY <1>1, <3>2, <3>3, BeginsIsPrefix
    <3> QED
      BY <3>4 DEF t
  <2>5. VectorsMatchStream'
    BY <1>2, <1>3, <2>3, <2>4 DEF VectorsMatchStream
  <2>6. HostPathResolved'
    BY <1>3, NoPathKept DEF HostPathResolved, PathKept, Target
  <2> QED
    BY <1>1, <1>2, <2>1, <2>2, <2>5, <2>6 DEF CallsReported
<1>7. mem' \in Memories
  BY <1>1, <1>2
<1> QED
  BY <1>4, <1>5, <1>6, <1>7

-----------------------------------------------------------------------------
(* The calls.                                                               *)

LEMMA InvalidFdReported ==
    ASSUME CallsInv, InvalidFd
    PROVE  mem' \in Memories /\ CallsReported'
<1>1. mem' \in Memories /\ io' = Quiet /\ v0' = Word(-TARGET.EINVAL) /\ a3' = 0
  BY DEF InvalidFd, Unchanged, Return, CallsInv
<1>2. -TARGET.EINVAL \in Int
  BY DEF TARGET
<1>3. Word(-TARGET.EINVAL) \in Words
  <2> DEFINE m == -TARGET.EINVAL
  <2>1. m \in Int
    BY <1>2
  <2> HIDE DEF m
  <2>2. Word(m) \in Words
    BY <2>1, WordSplit DEF Words
  <2> QED
    BY <2>2 DEF m
<1>4. 0 \in Words
  BY FewWords
<1> QED
  BY <1>1, <1>3, <1>4, QuietReported

LEMMA ReadvTransferReported ==
    ASSUME CallsInv, NEW iov \in Vectors, Transfer(ReadvStep, iov)
    PROVE  mem' \in Memories /\ CallsReported'
<1>1. PICK t \in -1 .. MaxSlots :
        LET fd == targetfd_to_fd(t)
        IN IF fd = FD_INVALID THEN InvalidFd
           ELSE \E outs \in [DOMAIN iov -> Outcomes] : Finish(iov, Vectored(ReadvStep, fd, iov, outs))
  BY DEF Transfer
<1>2. CASE targetfd_to_fd(t) = FD_INVALID
  BY <1>1, <1>2, InvalidFdReported
<1>3. CASE targetfd_to_fd(t) # FD_INVALID
  <2>1. PICK outs \in [DOMAIN iov -> Outcomes] :
          Finish(iov, Vectored(ReadvStep, targetfd_to_fd(t), iov, outs))
    BY <1>1, <1>3
  <2>2. Reported(iov, Vectored(ReadvStep, targetfd_to_fd(t), iov, outs))
    BY ReadvReported DEF CallsInv
  <2> QED
    BY <2>1, <2>2, FinishReported
<1> QED
  BY <1>2, <1>3

LEMMA WritevTransferReported ==
    ASSUME CallsInv, NEW iov \in Vectors, Transfer(WritevStep, iov)
    PROVE  mem' \in Memories /\ CallsReported'
<1>1. PICK t \in -1 .. MaxSlots :
        LET fd == targetfd_to_fd(t)
        IN IF fd = FD_INVALID THEN InvalidFd
           ELSE \E outs \in [DOMAIN iov -> Outcomes] : Finish(iov, Vectored(WritevStep, fd, iov, outs))
  BY DEF Transfer
<1>2. CASE targetfd_to_fd(t) = FD_INVALID
  BY <1>1, <1>2, InvalidFdReported
<1>3. CASE targetfd_to_fd(t) # FD_INVALID
  <2>1. PICK outs \in [DOMAIN iov -> Outcomes] :
          Finish(iov, Vectored(WritevStep, targetfd_to_fd(t), iov, outs))
    BY <1>1, <1>3
  <2>2. Reported(iov, Vectored(WritevStep, targetfd_to_fd(t), iov, outs))
    BY WritevReported DEF CallsInv
  <2> QED
    BY <2>1, <2>2, FinishReported
<1> QED
  BY <1>2, <1>3

LEMMA TransfersReported ==
    ASSUME CallsInv, do_sys_readv \/ do_sys_writev \/ do_sys_read \/ do_sys_write
    PROVE  mem' \in Memories /\ CallsReported'
<1>1. CASE do_sys_readv
  BY <1>1, ReadvTransferReported DEF do_sys_readv
<1>2. CASE do_sys_writev
  BY <1>2, WritevTransferReported DEF do_sys_writev
<1>3. CASE do_sys_read
  BY <1>3, ReadvTransferReported DEF do_sys_read
<1>4. CASE do_sys_write
  BY <1>4, WritevTransferReported DEF do_sys_write
<1> QED
  BY <1>1, <1>2, <1>3, <1>4

\* the slot an open file takes
LEMMA SlotIsWord ==
    ASSUME FdInv, NEW val, FreeSlot # 0 \/ Len(fd_mapping) < MaxSlots
    PROVE  allocate_fd(val)[1] \in Words /\ status_from_result(allocate_fd(val)[1]) \in Words
<1> DEFINE n == Len(fd_mapping)
           f == FreeSlot
<1>1. n \in Nat /\ n =< MaxSlots /\ MaxSlots \in Nat /\ MaxSlots =< WordSize /\ WordSize \in Nat
  <2>1. fd_mapping \in Seq(HostFds \cup Marks) /\ Len(fd_mapping) =< MaxSlots
    BY DEF FdInv
  <2> QED
    BY <2>1, OsAssumption, WordSizeType
<1>2. f \in Nat /\ (f # 0 => f \in 1 .. n)
  BY FreeSlotFacts
<1>3. allocate_fd(val)[1] = IF f # 0 THEN f - 1 ELSE n
  BY DEF allocate_fd
<1>4. f # 0 \/ n < MaxSlots
  OBVIOUS
<1> HIDE DEF n, f
<1>5. (IF f # 0 THEN f - 1 ELSE n) \in Words
  BY <1>1, <1>2, <1>4 DEF Words
<1>6. allocate_fd(val)[1] \in Words
  BY <1>3, <1>5
<1> QED
  BY <1>6, StatusIsWord

LEMMA OpenReported ==
    ASSUME CallsInv, do_sys_open
    PROVE  mem' \in Memories /\ CallsReported'
<1>1. mem' \in Memories /\ FdInv /\ (FreeSlot # 0 \/ Len(fd_mapping) < MaxSlots)
  BY DEF do_sys_open, Unchanged, CallsInv, ResourcesInv
<1>2. PICK path \in Paths : OpenTerminal \/ OpenHost(path) \/ OpenFails(path)
  BY DEF do_sys_open
<1>3. PathKept(path, filepath_to_host(path))
  BY HostPathKept
<1>4. CASE OpenTerminal
  <2>1. v0' = allocate_fd(FD_TERMINAL)[1] /\ a3' = status_from_result(allocate_fd(FD_TERMINAL)[1])
        /\ io' = Quiet
    BY <1>4 DEF OpenTerminal, Return
  <2> QED
    BY <1>1, <2>1, SlotIsWord, QuietReported
<1>5. CASE OpenHost(path)
  <2>1. PICK fd \in HostFds \ files :
          /\ v0' = allocate_fd(fd)[1] /\ a3' = status_from_result(allocate_fd(fd)[1])
          /\ io' = [Quiet EXCEPT !.asked = path, !.path = filepath_to_host(path)]
    BY <1>5 DEF OpenHost, Return
  <2>2. /\ io'.moved = <<>> /\ io'.error = "none" /\ io'.asked = path
        /\ io'.path = filepath_to_host(path)
    BY <2>1 DEF Quiet
  <2> QED
    BY <1>1, <1>3, <2>1, <2>2, SlotIsWord, StillReported
<1>6. CASE OpenFails(path)
  <2>1. PICK e \in program.errors :
          /\ v0' = result_errno_if_error(e) /\ a3' = status_from_result(result_errno_if_error(e))
          /\ io' = [Quiet EXCEPT !.asked = path, !.path = filepath_to_host(path), !.error = e]
    BY <1>6 DEF OpenFails, Return
  <2>2. /\ io'.moved = <<>> /\ io'.error = e /\ io'.asked = path
        /\ io'.path = filepath_to_host(path)
    BY <2>1 DEF Quiet
  <2> QED
    BY <1>1, <1>3, <2>1, <2>2, FailureReported
<1> QED
  BY <1>2, <1>4, <1>5, <1>6

LEMMA TruncateReported ==
    ASSUME CallsInv, do_sys_ftruncate
    PROVE  mem' \in Memories /\ CallsReported'
<1>1. PICK t \in -1 .. MaxSlots :
        \/ InvalidFd
        \/ /\ \E e \in IF targetfd_to_fd(t) = FD_TERMINAL THEN {"EBADF"}
                       ELSE {"none"} \cup program.errors :
                 LET result == IF e = "none" THEN 0 ELSE result_errno_if_error(e)
                 IN  /\ Return(result, status_from_result(result))
                     /\ io' = [Quiet EXCEPT !.error = e]
           /\ Unchanged({})
  BY DEF do_sys_ftruncate
<1>2. CASE InvalidFd
  BY <1>2, InvalidFdReported
<1>3. CASE ~InvalidFd
  <2>1. PICK e :
          /\ v0' = IF e = "none" THEN 0 ELSE result_errno_if_error(e)
          /\ a3' = status_from_result(IF e = "none" THEN 0 ELSE result_errno_if_error(e))
          /\ io' = [Quiet EXCEPT !.error = e] /\ mem' = mem
    BY <1>1, <1>3 DEF Return, Unchanged
  <2>2. io'.moved = <<>> /\ io'.error = e /\ io'.asked = <<>> /\ io'.path = <<>>
    BY <2>1 DEF Quiet
  <2>3. mem' \in Memories
    BY <2>1 DEF CallsInv
  <2>4. CASE e = "none"
    <3>1. 0 \in Words /\ status_from_result(0) \in Words
      BY FewWords, StatusIsWord
    <3> QED
      BY <2>1, <2>2, <2>3, <2>4, <3>1, NoPathKept, StillReported
  <2>5. CASE e # "none"
    BY <2>1, <2>2, <2>3, <2>5, NoPathKept, FailureReported
  <2> QED
    BY <2>4, <2>5
<1> QED
  BY <1>2, <1>3

LEMMA CloseReported ==
    ASSUME CallsInv, do_sys_close
    PROVE  mem' \in Memories /\ CallsReported'
<1>1. CASE InvalidFd
  BY <1>1, InvalidFdReported
<1>2. CASE ~InvalidFd
  <2>1. v0' = 0 /\ a3' = 0 /\ io' = Quiet /\ mem' = mem
    BY <1>2 DEF do_sys_close, CloseOpen, Return, Unchanged
  <2> QED
    BY <2>1, FewWords, QuietReported DEF CallsInv
<1> QED
  BY <1>1, <1>2

\* brk, sbrk and mmap2
LEMMA AllocatorsReported ==
    ASSUME CallsInv, do_sys_brk \/ do_spim_sbrk \/ do_sys_mmap2
    PROVE  mem' \in Memories /\ CallsReported'
<1>1. 0 \in Words
  BY FewWords
<1>2. CASE do_sys_brk
  <2>1. PICK limit \in Lengths : v0' = Word(limit)
    BY <1>2 DEF do_sys_brk, Return
  <2>2. limit \in Int
    BY OsAssumption, WordSizeType
  <2>3. v0' \in Words
    BY <2>1, <2>2, WordSplit DEF Words
  <2>4. a3' = 0 /\ io' = Quiet /\ mem' = mem
    BY <1>2 DEF do_sys_brk, Return, Unchanged
  <2> QED
    BY <1>1, <2>3, <2>4, QuietReported DEF CallsInv
<1>3. CASE do_spim_sbrk
  <2>1. v0' = Word(RoundUp(brk_limit, 16)) /\ a3' = 0 /\ io' = Quiet /\ mem' = mem
    BY <1>3 DEF do_spim_sbrk, Return, Unchanged
  <2>2. RoundUp(brk_limit, 16) \in Int
    <3>1. brk_limit \in Nat
      BY WordSizeType DEF CallsInv, ResourcesInv, LimitsAreWords
    <3> QED
      BY <3>1, RoundsUp, Units DEF Allocators
  <2>3. v0' \in Words
    BY <2>1, <2>2, WordSplit DEF Words
  <2> QED
    BY <1>1, <2>1, <2>3, QuietReported DEF CallsInv
<1>4. CASE do_sys_mmap2
  <2>1. /\ v0' = Word(RoundUp(anonymous_last, TARGET_SYSCALL_MMAP2_UNIT)) /\ a3' = 0
        /\ io' = Quiet /\ mem' = mem
    BY <1>4 DEF do_sys_mmap2, Return, Unchanged
  <2>2. RoundUp(anonymous_last, TARGET_SYSCALL_MMAP2_UNIT) \in Int
    <3>1. anonymous_last \in Nat
      BY WordSizeType DEF CallsInv, ResourcesInv, LimitsAreWords
    <3> QED
      BY <3>1, RoundsUp, Units DEF Allocators, TARGET_SYSCALL_MMAP2_UNIT
  <2>3. v0' \in Words
    BY <2>1, <2>2, WordSplit DEF Words
  <2> QED
    BY <1>1, <2>1, <2>3, QuietReported DEF CallsInv
<1> QED
  BY <1>2, <1>3, <1>4

\* the calls that only return
LEMMA OthersReported ==
    ASSUME CallsInv,
           \/ do_sys_set_thread_area \/ do_sys_exit \/ do_spim_print \/ syscall_default_handler
    PROVE  mem' \in Memories /\ CallsReported'
<1>1. 0 \in Words /\ TARGET.ENOSYS \in Words
  <2>1. TARGET.ENOSYS = 89
    BY DEF TARGET
  <2> QED
    BY <2>1, FewWords
<1>2. io' = Quiet /\ mem' = mem /\ v0' = 0 /\ (a3' = 0 \/ a3' = TARGET.ENOSYS)
  BY DEF do_sys_set_thread_area, do_sys_exit, do_spim_print, syscall_default_handler, Return,
         Unchanged
<1> QED
  BY <1>1, <1>2, QuietReported DEF CallsInv

LEMMA CallsStay ==
    ASSUME CallsInv, UNCHANGED <<v0, a3, io, mem>>
    PROVE  mem' \in Memories /\ CallsReported'
BY DEF CallsInv, CallsReported, WordsReturned, HostErrorsReported, VectorsMatchStream,
       HostPathResolved

LEMMA OsInitReported == Init => CallsInv
<1> SUFFICES ASSUME Init PROVE CallsInv
  OBVIOUS
<1>1. mem \in Memories
  <2>1. MemSize \in Nat /\ mem = [a \in 0 .. MemSize - 1 |-> MemSize + a]
    BY OsAssumption DEF Init
  <2> QED
    BY <2>1 DEF Memories
<1>2. v0 = 0 /\ a3 = 0 /\ io.moved = <<>> /\ io.error = "none" /\ io.asked = <<>> /\ io.path = <<>>
  BY DEF Init, Quiet
<1>3. WordsReturned
  BY <1>1, <1>2, WordSizeType DEF WordsReturned, Memories
<1>4. HostErrorsReported /\ VectorsMatchStream
  BY <1>2 DEF HostErrorsReported, VectorsMatchStream
<1>5. HostPathResolved
  BY <1>2, NoPathKept DEF HostPathResolved, PathKept, Target
<1> QED
  BY <1>1, <1>3, <1>4, <1>5, OsInitHolds DEF CallsInv, CallsReported

LEMMA OsNextReported ==
    ASSUME CallsInv, [Next]_vars
    PROVE  CallsInv'
<1>1. ResourcesInv'
  BY OsNextKeeps DEF CallsInv
<1>2. mem' \in Memories /\ CallsReported'
  <2>1. CASE UNCHANGED vars
    BY <2>1, CallsStay DEF vars, osVars
  <2>2. CASE UnknownSyscall
    BY <2>2, CallsStay DEF UnknownSyscall
  <2> QED
    BY <2>1, <2>2, TransfersReported, OpenReported, CloseReported, TruncateReported,
       AllocatorsReported, OthersReported DEF Next
<1> QED
  BY <1>1, <1>2 DEF CallsInv

-----------------------------------------------------------------------------
\* After any call the registers report what the host did, whatever it did: the error it
\* met, translated for the target, or the bytes it moved, which are the first bytes of
\* the buffers; and the path it worked on has no ".." and names what the program named
\* below the root, for paths, buffers and counts of any length.
THEOREM CallsStayReported == Spec => []CallsReported
<1>1. CallsInv => CallsReported
  BY DEF CallsInv
<1> QED
  BY <1>1, OsInitReported, OsNextReported, PTL DEF Spec
=============================================================================
