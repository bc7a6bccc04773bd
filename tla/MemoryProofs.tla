--------------------------- MODULE MemoryProofs ------------------------------
(***************************************************************************)
(* The bus finds the device of every address, for every set of devices and *)
(* every way to plug them in.                                              *)
(***************************************************************************)
EXTENDS MemorySystem, FiniteSetTheorems, SequenceTheorems, WellFoundedInduction, TLAPS

\* A range is filed under its last address,
FiledByLast == \A k \in DOMAIN ranges_by_addr : ranges_by_addr[k].last = k

\* the ranges do not overlap,
RangesApart ==
    \A k, l \in DOMAIN ranges_by_addr : k < l => k < ranges_by_addr[l].start

\* both maps hold the same ranges, each once,
ByDeviceKnown ==
    \A d \in Devices : \A i \in 1 .. Len(ranges_by_device[d]) :
        /\ ranges_by_device[d][i].device = d
        /\ ranges_by_device[d][i].last \in DOMAIN ranges_by_addr
        /\ ranges_by_addr[ranges_by_device[d][i].last] = ranges_by_device[d][i]

ByAddrListed ==
    \A k \in DOMAIN ranges_by_addr : \E d \in Devices : \E i \in 1 .. Len(ranges_by_device[d]) :
        ranges_by_device[d][i] = ranges_by_addr[k]

ListedOnce ==
    \A d \in Devices : \A i, j \in 1 .. Len(ranges_by_device[d]) :
        ranges_by_device[d][i] = ranges_by_device[d][j] => i = j

\* and the owning range of a device is its oldest one, so that it is the last
\* to be removed.
OwnerOldest ==
    \A d \in Devices : \A i \in 1 .. Len(ranges_by_device[d]) :
        ranges_by_device[d][i].owns => i = Len(ranges_by_device[d])

BusInv == /\ BusTypeOK
          /\ FiledByLast /\ RangesApart
          /\ ByDeviceKnown /\ ByAddrListed /\ ListedOnce
          /\ OwnerOldest
          /\ NoDanglingRange

LEMMA MappingFacts ==
    ASSUME NEW m \in Mappings
    PROVE  /\ m.device \in Devices /\ m.start \in Nat /\ m.last \in Nat
           /\ m.owns \in BOOLEAN /\ m.start <= m.last
BY MappingsAssumption DEF MappingsAssumption

LEMMA FiledFacts ==
    ASSUME BusInv, NEW k \in DOMAIN ranges_by_addr
    PROVE  /\ k \in Nat
           /\ ranges_by_addr[k] \in Mappings
           /\ ranges_by_addr[k].last = k
           /\ ranges_by_addr[k].start \in Nat
           /\ ranges_by_addr[k].start <= k
           /\ ranges_by_addr[k].device \in Devices
<1>1. ranges_by_addr[k] \in Mappings /\ ranges_by_addr[k].last = k
  BY DEF BusInv, BusTypeOK, FiledByLast
<1> QED
  BY <1>1, MappingFacts

LEMMA LeastNatural ==
    ASSUME NEW S, S \subseteq Nat, S # {}
    PROVE  \E n \in S : \A m \in S : n <= m
<1> DEFINE R == OpToRel(<, Nat)
<1>1. IsWellFoundedOn(R, Nat)
  BY NatLessThanWellFounded
<1>2. \A x, y \in Nat : <<y, x>> \in R <=> y < x
  BY DEF OpToRel
<1> HIDE DEF R
<1>3. PICK n \in S : \A y \in S : ~(<<y, n>> \in R)
  BY <1>1, WFMin
<1>4. ASSUME NEW m \in S PROVE n <= m
  <2>1. n \in Nat /\ m \in Nat /\ ~(m < n)
    BY <1>2, <1>3
  <2> QED
    BY <2>1
<1> QED
  BY <1>4

\* QMap::lowerBound finds a range whenever one ends at the address or above.
LEMMA LowerBoundFound ==
    ASSUME BusInv, NEW a \in Nat, NEW k \in DOMAIN ranges_by_addr, k >= a
    PROVE  \E r \in LowerBound(a) : r \in Ranges
<1> DEFINE S == {l \in DOMAIN ranges_by_addr : l >= a}
<1>1. S \subseteq Nat /\ k \in S
  BY FiledFacts
<1>2. PICK n \in S : \A m \in S : n <= m
  <2> HIDE DEF S
  <2> QED
    BY <1>1, LeastNatural
<1>3. ranges_by_addr[n] \in Ranges /\ ranges_by_addr[n].last = n /\ n >= a
  BY <1>2, FiledFacts DEF Ranges
<1>4. \A l \in DOMAIN ranges_by_addr : l >= a => n <= l
  BY <1>2
<1>5. ranges_by_addr[n] \in LowerBound(a)
  BY <1>3, <1>4 DEF LowerBound
<1> QED
  BY <1>3, <1>5

LEMMA LowerBoundFacts ==
    ASSUME BusInv, NEW a \in Nat, NEW r \in LowerBound(a)
    PROVE  /\ r \in Mappings /\ r.last \in DOMAIN ranges_by_addr
           /\ ranges_by_addr[r.last] = r
           /\ r.last >= a
           /\ \A l \in DOMAIN ranges_by_addr : l >= a => r.last <= l
<1>1. PICK k \in DOMAIN ranges_by_addr : r = ranges_by_addr[k]
  BY DEF LowerBound, Ranges
<1>2. r.last = k /\ r \in Mappings
  BY <1>1, FiledFacts
<1> QED
  BY <1>1, <1>2 DEF LowerBound

\* What insert_device_to_range asks of the one range that lowerBound finds
\* keeps the new range apart from all others.
LEMMA NotTakenApart ==
    ASSUME BusInv, NEW m \in Mappings, ~Taken(m), NEW l \in DOMAIN ranges_by_addr
    PROVE  l < m.start \/ m.last < ranges_by_addr[l].start
<1>1. m.start \in Nat /\ m.last \in Nat /\ m.start <= m.last
  BY MappingFacts
<1>2. l \in Nat /\ ranges_by_addr[l].start \in Nat
  BY FiledFacts
<1>3. CASE l >= m.start
  <2>1. PICK r \in LowerBound(m.start) : TRUE
    BY <1>1, <1>3, LowerBoundFound
  <2>2. /\ r \in Mappings /\ r.last \in DOMAIN ranges_by_addr /\ ranges_by_addr[r.last] = r
        /\ r.last >= m.start /\ r.last <= l
    BY <1>1, <1>3, <2>1, LowerBoundFacts
  <2>3. r.start \in Nat /\ r.last \in Nat /\ r.start <= r.last
    BY <2>2, MappingFacts
  <2>4. ~(r.start <= m.start /\ m.start <= r.last) /\ ~(r.start <= m.last /\ m.last <= r.last)
    BY <2>1 DEF Taken, overlaps, contains
  <2>5. m.start < r.start
    BY <1>1, <2>2, <2>3, <2>4
  <2>6. m # r /\ ~(m.start <= r.start /\ r.last <= m.last)
    BY <1>1, <2>2, <2>3, <2>5, MappingsAssumption DEF MappingsAssumption
  <2>7. m.last < r.start
    BY <1>1, <2>3, <2>4, <2>5, <2>6
  <2>8. CASE l = r.last
    BY <2>2, <2>7, <2>8
  <2>9. CASE l # r.last
    <3>1. r.last < l
      BY <1>2, <2>2, <2>3, <2>9
    <3>2. r.last < ranges_by_addr[l].start
      BY <2>2, <3>1 DEF BusInv, RangesApart
    <3> QED
      BY <1>1, <1>2, <2>3, <2>7, <3>2
  <2> QED
    BY <2>8, <2>9
<1> QED
  BY <1>1, <1>2, <1>3

\* Every address of a filed range leads to it and to nothing else.
LEMMA FiledReachable ==
    ASSUME BusInv, NEW k \in DOMAIN ranges_by_addr,
           NEW a \in ranges_by_addr[k].start .. k
    PROVE  find_range(a) = {ranges_by_addr[k]}
<1> DEFINE r == ranges_by_addr[k]
<1>1. k \in Nat /\ r.start \in Nat /\ r.last = k /\ r \in Ranges
  BY FiledFacts DEF Ranges
<1>2. a \in Nat /\ r.start <= a /\ a <= k
  BY <1>1
<1>3. ASSUME NEW l \in DOMAIN ranges_by_addr, l >= a
      PROVE  k <= l
  <2>1. l \in Nat
    BY FiledFacts
  <2>2. l < k => l < r.start
    BY DEF BusInv, RangesApart
  <2> QED
    BY <1>1, <1>2, <1>3, <2>1, <2>2
<1> HIDE DEF r
<1>4. r \in LowerBound(a)
  BY <1>1, <1>2, <1>3 DEF LowerBound
<1>5. r \in find_range(a)
  BY <1>1, <1>2, <1>4 DEF find_range, contains
<1>6. ASSUME NEW q \in find_range(a)
      PROVE  q = r
  <2>1. q \in LowerBound(a)
    BY DEF find_range
  <2>2. q.last \in DOMAIN ranges_by_addr /\ ranges_by_addr[q.last] = q /\ q.last >= a
        /\ q.last <= k
    BY <1>2, <2>1, LowerBoundFacts
  <2>3. q.last \in Nat
    BY <2>2, FiledFacts
  <2>4. q.last = k
    BY <1>1, <1>3, <2>2, <2>3
  <2> QED
    BY <2>2, <2>4 DEF r
<1>7. find_range(a) = {r}
  BY <1>5, <1>6
<1> QED
  BY <1>7 DEF r

LEMMA BusInvSound == BusInv => BusSound
<1> SUFFICES ASSUME BusInv PROVE BusSound
  OBVIOUS
<1>1. ASSUME NEW d \in Devices, NEW i \in 1 .. Len(ranges_by_device[d]),
             NEW a \in ranges_by_device[d][i].start .. ranges_by_device[d][i].last
      PROVE  find_range(a) = {ranges_by_device[d][i]}
  <2> DEFINE r == ranges_by_device[d][i]
  <2>1. r.last \in DOMAIN ranges_by_addr /\ ranges_by_addr[r.last] = r
    BY DEF BusInv, ByDeviceKnown
  <2>2. a \in r.start .. r.last
    OBVIOUS
  <2> HIDE DEF r
  <2>3. find_range(a) = {r}
    BY <2>1, <2>2, FiledReachable
  <2> QED
    BY <2>3 DEF r
<1>2. RangesReachable
  BY <1>1 DEF RangesReachable
<1> QED
  BY <1>2 DEF BusSound, BusInv

-----------------------------------------------------------------------------
LEMMA InsertKeeps ==
    ASSUME BusInv, NEW m \in Mappings, insert_device_to_range(m)
    PROVE  BusInv'
<1>1. CASE UNCHANGED busVars
  BY <1>1 DEF busVars, BusInv, BusTypeOK, FiledByLast, RangesApart, ByDeviceKnown, ByAddrListed,
              ListedOnce, OwnerOldest, NoDanglingRange, Ranges
<1>2. CASE ~Taken(m) /\ ~UNCHANGED busVars
  <2> DEFINE dom == DOMAIN ranges_by_addr
             d0 == m.device
             s == ranges_by_device[d0]
             t == <<m>> \o s
  <2>1. /\ ranges_by_addr' = [k \in dom \cup {m.last} |-> IF k = m.last THEN m ELSE ranges_by_addr[k]]
        /\ ranges_by_device' = [ranges_by_device EXCEPT ![d0] = t]
        /\ alive' = alive /\ d0 \in alive
        /\ Owned(d0) => m.owns = (s = << >>)
    BY <1>2 DEF insert_device_to_range
  <2>2. d0 \in Devices /\ m.start \in Nat /\ m.last \in Nat /\ m.start <= m.last
    BY MappingFacts
  <2>3. s \in Seq(Mappings)
    BY <2>2 DEF BusInv, BusTypeOK
  <2>4. ASSUME NEW l \in dom
        PROVE  l # m.last /\ (l < m.last => l < m.start) /\ (m.last < l => m.last < ranges_by_addr[l].start)
    <3>1. l < m.start \/ m.last < ranges_by_addr[l].start
      BY <1>2, NotTakenApart
    <3>2. l \in Nat /\ ranges_by_addr[l].start \in Nat /\ ranges_by_addr[l].start <= l
      BY FiledFacts
    <3> QED
      BY <2>2, <3>1, <3>2
  <2>5. /\ DOMAIN ranges_by_addr' = dom \cup {m.last}
        /\ ranges_by_addr'[m.last] = m
        /\ \A l \in dom : ranges_by_addr'[l] = ranges_by_addr[l]
    BY <2>1, <2>4
  <2>6. /\ t \in Seq(Mappings) /\ Len(t) = Len(s) + 1 /\ t[1] = m /\ Len(s) \in Nat
        /\ \A i \in 2 .. Len(t) : t[i] = s[i - 1] /\ i - 1 \in 1 .. Len(s)
        /\ \A i \in 1 .. Len(s) : t[i + 1] = s[i] /\ i + 1 \in 1 .. Len(t)
    BY <2>3
  <2>7. /\ \A d \in Devices : d # d0 => ranges_by_device'[d] = ranges_by_device[d]
        /\ ranges_by_device'[d0] = t
        /\ ranges_by_device' \in [Devices -> Seq(Mappings)]
    <3> HIDE DEF t
    <3> QED
      BY <2>1, <2>2, <2>6 DEF BusInv, BusTypeOK
  <2> HIDE DEF dom, d0, s, t
  <2>8. BusTypeOK'
    <3>1. dom \subseteq {n.last : n \in Mappings} /\ \A k \in dom : ranges_by_addr[k] \in Mappings
      BY DEF BusInv, BusTypeOK, dom
    <3>2. alive' \subseteq Devices
      BY <2>1 DEF BusInv, BusTypeOK
    <3>3. (DOMAIN ranges_by_addr)' \subseteq {n.last : n \in Mappings}
      BY <2>5, <3>1
    <3> QED
      BY <2>5, <2>7, <3>1, <3>2, <3>3 DEF BusTypeOK
  <2>9. FiledByLast'
    BY <2>5 DEF FiledByLast, BusInv, dom
  <2>10. RangesApart'
    <3> SUFFICES ASSUME NEW k \in dom \cup {m.last}, NEW l \in dom \cup {m.last}, k < l
                 PROVE  k < ranges_by_addr'[l].start
      BY <2>5 DEF RangesApart
    <3>1. CASE k \in dom /\ l \in dom
      BY <2>5, <3>1 DEF BusInv, RangesApart, dom
    <3>2. CASE k \in dom /\ l = m.last
      BY <2>4, <2>5, <3>2
    <3>3. CASE k = m.last /\ l \in dom
      BY <2>4, <2>5, <3>3
    <3> QED
      BY <2>2, <3>1, <3>2, <3>3
  <2>11. ByDeviceKnown'
    <3> SUFFICES ASSUME NEW d \in Devices, NEW i \in 1 .. Len(ranges_by_device'[d])
                 PROVE  /\ ranges_by_device'[d][i].device = d
                        /\ ranges_by_device'[d][i].last \in dom \cup {m.last}
                        /\ ranges_by_addr'[ranges_by_device'[d][i].last] = ranges_by_device'[d][i]
      BY <2>5 DEF ByDeviceKnown
    <3>0. \A e \in Devices : \A j \in 1 .. Len(ranges_by_device[e]) :
             /\ ranges_by_device[e][j].device = e
             /\ ranges_by_device[e][j].last \in dom
             /\ ranges_by_addr[ranges_by_device[e][j].last] = ranges_by_device[e][j]
      BY DEF BusInv, ByDeviceKnown, dom
    <3>1. CASE d # d0
      BY <2>5, <2>7, <3>0, <3>1
    <3>2. CASE d = d0 /\ i = 1
      BY <2>5, <2>6, <2>7, <3>2 DEF d0
    <3>3. CASE d = d0 /\ i # 1
      <4>1. i \in 2 .. Len(t) /\ ranges_by_device'[d][i] = t[i]
        BY <2>6, <2>7, <3>3
      <4>2. ranges_by_device'[d][i] = s[i - 1] /\ i - 1 \in 1 .. Len(s)
        BY <2>6, <4>1
      <4> QED
        BY <2>2, <2>5, <3>0, <3>3, <4>2 DEF s
    <3> QED
      BY <3>1, <3>2, <3>3
  <2>12. ByAddrListed'
    <3> SUFFICES ASSUME NEW k \in dom \cup {m.last}
                 PROVE  \E d \in Devices : \E i \in 1 .. Len(ranges_by_device'[d]) :
                            ranges_by_device'[d][i] = ranges_by_addr'[k]
      BY <2>5 DEF ByAddrListed
    <3>1. CASE k = m.last
      BY <2>2, <2>5, <2>6, <2>7, <3>1
    <3>2. CASE k \in dom
      <4>0. PICK d \in Devices : \E i \in 1 .. Len(ranges_by_device[d]) :
                ranges_by_device[d][i] = ranges_by_addr[k]
        BY <3>2 DEF BusInv, ByAddrListed, dom
      <4>1. PICK i \in 1 .. Len(ranges_by_device[d]) : ranges_by_device[d][i] = ranges_by_addr[k]
        BY <4>0
      <4>2. CASE d # d0
        BY <2>5, <2>7, <3>2, <4>1, <4>2
      <4>3. CASE d = d0
        <5>1. t[i + 1] = s[i] /\ i + 1 \in 1 .. Len(t)
          BY <2>6, <4>1, <4>3 DEF s
        <5> QED
          BY <2>2, <2>5, <2>7, <3>2, <4>1, <4>3, <5>1 DEF s
      <4> QED
        BY <4>2, <4>3
    <3> QED
      BY <3>1, <3>2
  <2>13. ListedOnce'
    <3> SUFFICES ASSUME NEW d \in Devices, NEW i \in 1 .. Len(ranges_by_device'[d]),
                        NEW j \in 1 .. Len(ranges_by_device'[d]),
                        ranges_by_device'[d][i] = ranges_by_device'[d][j]
                 PROVE  i = j
      BY DEF ListedOnce
    <3>0. \A n \in 1 .. Len(s) : s[n] # m
      BY <2>2, <2>4 DEF BusInv, ByDeviceKnown, s, dom
    <3>1. CASE d # d0
      BY <2>7, <3>1 DEF BusInv, ListedOnce
    <3>2. CASE d = d0
      <4>1. \A x, y \in 1 .. Len(s) : s[x] = s[y] => x = y
        BY <2>2 DEF BusInv, ListedOnce, s
      <4>2. t[i] = t[j] /\ i \in 1 .. Len(t) /\ j \in 1 .. Len(t)
        BY <2>7, <3>2
      <4>3. (i = 1) <=> (j = 1)
        BY <2>6, <3>0, <4>2
      <4>4. CASE i # 1 /\ j # 1
        <5>1. i \in 2 .. Len(t) /\ j \in 2 .. Len(t)
          BY <2>6, <4>2, <4>4
        <5> DEFINE x == i - 1
                   y == j - 1
        <5>a. s[x] = s[y] /\ x \in 1 .. Len(s) /\ y \in 1 .. Len(s)
          BY <2>6, <4>2, <5>1
        <5> HIDE DEF x, y
        <5>b. x = y
          BY <4>1, <5>a
        <5>2. i - 1 = j - 1
          BY <5>b DEF x, y
        <5> QED
          BY <2>6, <4>2, <5>2
      <4> QED
        BY <4>3, <4>4
    <3> QED
      BY <3>1, <3>2
  <2>14. OwnerOldest'
    <3> SUFFICES ASSUME NEW d \in Devices, NEW i \in 1 .. Len(ranges_by_device'[d]),
                        ranges_by_device'[d][i].owns
                 PROVE  i = Len(ranges_by_device'[d])
      BY DEF OwnerOldest
    <3>1. CASE d # d0
      BY <2>7, <3>1 DEF BusInv, OwnerOldest
    <3>2. CASE d = d0 /\ i = 1
      <4>1. m.owns
        BY <2>6, <2>7, <3>2
      <4>2. Owned(d0)
        BY <4>1 DEF Owned, d0
      <4>3. s = << >>
        BY <2>1, <4>1, <4>2
      <4> QED
        BY <2>6, <2>7, <3>2, <4>3
    <3>3. CASE d = d0 /\ i # 1
      <4>1. i \in 2 .. Len(t) /\ t[i].owns
        BY <2>6, <2>7, <3>3
      <4>2. s[i - 1].owns /\ i - 1 \in 1 .. Len(s)
        BY <2>6, <4>1
      <4>3. i - 1 = Len(s)
        BY <2>2, <4>2 DEF BusInv, OwnerOldest, s
      <4> QED
        BY <2>6, <2>7, <3>3, <4>1, <4>3
    <3> QED
      BY <3>1, <3>2, <3>3
  <2>15. NoDanglingRange'
    <3> SUFFICES ASSUME NEW k \in dom \cup {m.last}
                 PROVE  ranges_by_addr'[k].device \in alive'
      BY <2>5 DEF NoDanglingRange, Ranges
    <3>1. CASE k = m.last
      BY <2>1, <2>5, <3>1 DEF d0
    <3>2. CASE k \in dom
      BY <2>1, <2>5, <3>2 DEF BusInv, NoDanglingRange, Ranges, dom
    <3> QED
      BY <3>1, <3>2
  <2> QED
    BY <2>8, <2>9, <2>10, <2>11, <2>12, <2>13, <2>14, <2>15 DEF BusInv
<1> QED
  BY <1>1, <1>2 DEF insert_device_to_range

\* Ranges are taken out from the most recent on: a device that is destroyed
\* with its owning range has no range left.
LEMMA TakeKeeps ==
    ASSUME BusInv, NEW n \in [Devices -> Nat],
           \A d \in Devices : n[d] <= Len(ranges_by_device[d]),
           TakeRanges(n)
    PROVE  BusInv'
<1> DEFINE dom == DOMAIN ranges_by_addr
           taken == UNION {{ranges_by_device[d][i] : i \in 1 .. n[d]} : d \in Devices}
           left == dom \ {r.last : r \in taken}
<1>1. /\ ranges_by_addr' = [k \in left |-> ranges_by_addr[k]]
      /\ ranges_by_device' =
            [d \in Devices |-> SubSeq(ranges_by_device[d], n[d] + 1, Len(ranges_by_device[d]))]
      /\ alive' = alive \ {r.device : r \in {q \in taken : q.owns}}
  BY DEF TakeRanges
<1>2. DOMAIN ranges_by_addr' = left /\ \A k \in left : ranges_by_addr'[k] = ranges_by_addr[k]
  BY <1>1
<1>3. \A r : r \in taken <=> \E d \in Devices : \E i \in 1 .. n[d] : r = ranges_by_device[d][i]
  OBVIOUS
<1>4. ASSUME NEW d \in Devices
      PROVE  /\ ranges_by_device'[d] \in Seq(Mappings)
             /\ Len(ranges_by_device[d]) \in Nat /\ n[d] \in Nat
             /\ Len(ranges_by_device'[d]) = Len(ranges_by_device[d]) - n[d]
             /\ \A i \in 1 .. (Len(ranges_by_device[d]) - n[d]) :
                   /\ ranges_by_device'[d][i] = ranges_by_device[d][n[d] + i]
                   /\ n[d] + i \in 1 .. Len(ranges_by_device[d])
  <2> DEFINE s == ranges_by_device[d]
             c == n[d]
             u == SubSeq(s, c + 1, Len(s))
  <2>1. s \in Seq(Mappings) /\ c \in Nat /\ c <= Len(s) /\ Len(s) \in Nat
    BY DEF BusInv, BusTypeOK
  <2>2. ranges_by_device'[d] = u
    BY <1>1
  <2> HIDE DEF s, c
  <2>3. u \in Seq(Mappings) /\ Len(u) = Len(s) - c
        /\ \A i \in 1 .. (Len(s) - c) : u[i] = s[c + i] /\ c + i \in 1 .. Len(s)
    <3>1. u \in Seq(Mappings) /\ Len(u) = Len(s) - c
      BY <2>1
    <3>2. ASSUME NEW i \in 1 .. (Len(s) - c)
          PROVE  u[i] = s[c + i] /\ c + i \in 1 .. Len(s)
      <4>1. i \in 1 .. Len(u) /\ c + i \in 1 .. Len(s) /\ (c + 1) + (i - 1) = c + i
        BY <2>1, <3>1
      <4>2. u[i] = s[(c + 1) + (i - 1)]
        BY <2>1, <4>1
      <4> QED
        BY <4>1, <4>2
    <3> QED
      BY <3>1, <3>2
  <2> QED
    BY <2>1, <2>2, <2>3 DEF s, c
<1>5. \A d \in Devices : \A i \in 1 .. Len(ranges_by_device[d]) :
          /\ ranges_by_device[d][i].device = d
          /\ ranges_by_device[d][i].last \in dom
          /\ ranges_by_addr[ranges_by_device[d][i].last] = ranges_by_device[d][i]
  BY DEF BusInv, ByDeviceKnown
<1>6. ASSUME NEW d \in Devices, NEW i \in 1 .. Len(ranges_by_device[d])
      PROVE  ranges_by_device[d][i] \in taken <=> i <= n[d]
  <2>1. ASSUME NEW e \in Devices, NEW j \in 1 .. n[e], ranges_by_device[d][i] = ranges_by_device[e][j]
        PROVE  i <= n[d]
    <3>1. j \in 1 .. Len(ranges_by_device[e])
      BY <1>4
    <3>2. d = e
      BY <1>5, <2>1, <3>1
    <3>3. i = j
      BY <2>1, <3>1, <3>2 DEF BusInv, ListedOnce
    <3> QED
      BY <1>4, <3>2, <3>3
  <2>2. i <= n[d] => i \in 1 .. n[d]
    BY <1>4
  <2> QED
    BY <1>3, <2>1, <2>2
<1>7. ASSUME NEW d \in Devices, NEW i \in 1 .. Len(ranges_by_device[d])
      PROVE  ranges_by_device[d][i].last \in left <=> i > n[d]
  <2> DEFINE r == ranges_by_device[d][i]
  <2>1. r.last \in dom /\ ranges_by_addr[r.last] = r
    BY <1>5
  <2>2. ASSUME NEW q \in taken, q.last = r.last
        PROVE  q = r
    <3>1. PICK e \in Devices : \E j \in 1 .. n[e] : q = ranges_by_device[e][j]
      BY <1>3
    <3>2. PICK j \in 1 .. n[e] : q = ranges_by_device[e][j]
      BY <3>1
    <3>3. j \in 1 .. Len(ranges_by_device[e])
      BY <1>4
    <3> QED
      BY <1>5, <2>1, <2>2, <3>2, <3>3
  <2>3. r \in taken <=> i <= n[d]
    BY <1>6
  <2>4. i \in Nat /\ n[d] \in Nat
    BY <1>4
  <2> HIDE DEF r, taken
  <2>5. r.last \in left <=> r \notin taken
    BY <2>1, <2>2
  <2>6. r.last \in left <=> i > n[d]
    BY <2>3, <2>4, <2>5
  <2> QED
    BY <2>6 DEF r
<1> HIDE DEF taken, left
<1>8. left \subseteq dom
  BY DEF left
<1>9. BusTypeOK'
  <2>1. (DOMAIN ranges_by_addr)' \subseteq {m.last : m \in Mappings}
    BY <1>2, <1>8 DEF BusInv, BusTypeOK
  <2>2. \A k \in left : ranges_by_addr'[k] \in Mappings
    BY <1>2, <1>8 DEF BusInv, BusTypeOK
  <2>3. ranges_by_device' \in [Devices -> Seq(Mappings)]
    BY <1>1, <1>4
  <2>4. alive' \subseteq Devices
    BY <1>1 DEF BusInv, BusTypeOK
  <2> QED
    BY <1>2, <2>1, <2>2, <2>3, <2>4 DEF BusTypeOK
<1>10. FiledByLast' /\ RangesApart'
  BY <1>2, <1>8 DEF BusInv, FiledByLast, RangesApart
<1>11. ByDeviceKnown'
  <2> SUFFICES ASSUME NEW d \in Devices, NEW i \in 1 .. Len(ranges_by_device'[d])
               PROVE  /\ ranges_by_device'[d][i].device = d
                      /\ ranges_by_device'[d][i].last \in left
                      /\ ranges_by_addr'[ranges_by_device'[d][i].last] = ranges_by_device'[d][i]
    BY <1>2 DEF ByDeviceKnown
  <2>1. i \in 1 .. (Len(ranges_by_device[d]) - n[d])
    BY <1>4
  <2>2. ranges_by_device'[d][i] = ranges_by_device[d][n[d] + i]
        /\ n[d] + i \in 1 .. Len(ranges_by_device[d]) /\ n[d] + i > n[d]
    BY <1>4, <2>1
  <2> QED
    BY <1>2, <1>5, <1>7, <2>2
<1>12. ASSUME NEW k \in left
       PROVE  \E d \in Devices : \E i \in 1 .. Len(ranges_by_device'[d]) :
                  ranges_by_device'[d][i] = ranges_by_addr[k] /\ d = ranges_by_addr[k].device
  <2>1. PICK d \in Devices : \E i \in 1 .. Len(ranges_by_device[d]) :
            ranges_by_device[d][i] = ranges_by_addr[k]
    BY <1>8 DEF BusInv, ByAddrListed
  <2>2. PICK i \in 1 .. Len(ranges_by_device[d]) : ranges_by_device[d][i] = ranges_by_addr[k]
    BY <2>1
  <2>3. ranges_by_addr[k].last = k
    BY <1>8 DEF BusInv, FiledByLast
  <2>4. i > n[d]
    BY <1>7, <2>2, <2>3
  <2>5. i - n[d] \in 1 .. (Len(ranges_by_device[d]) - n[d]) /\ n[d] + (i - n[d]) = i
    BY <1>4, <2>4
  <2>6. ranges_by_device'[d][i - n[d]] = ranges_by_addr[k]
    BY <1>4, <2>2, <2>5
  <2>7. i - n[d] \in 1 .. Len(ranges_by_device'[d])
    BY <1>4, <2>5
  <2>8. d = ranges_by_addr[k].device
    BY <1>5, <2>2
  <2> QED
    BY <2>6, <2>7, <2>8
<1>13. ByAddrListed'
  BY <1>2, <1>12 DEF ByAddrListed
<1>14. ListedOnce'
  <2> SUFFICES ASSUME NEW d \in Devices, NEW i \in 1 .. Len(ranges_by_device'[d]),
                      NEW j \in 1 .. Len(ranges_by_device'[d]),
                      ranges_by_device'[d][i] = ranges_by_device'[d][j]
               PROVE  i = j
    BY DEF ListedOnce
  <2>1. /\ ranges_by_device[d][n[d] + i] = ranges_by_device[d][n[d] + j]
        /\ n[d] + i \in 1 .. Len(ranges_by_device[d]) /\ n[d] + j \in 1 .. Len(ranges_by_device[d])
    BY <1>4
  <2>2. n[d] + i = n[d] + j
    BY <2>1 DEF BusInv, ListedOnce
  <2> QED
    BY <1>4, <2>2
<1>15. OwnerOldest'
  <2> SUFFICES ASSUME NEW d \in Devices, NEW i \in 1 .. Len(ranges_by_device'[d]),
                      ranges_by_device'[d][i].owns
               PROVE  i = Len(ranges_by_device'[d])
    BY DEF OwnerOldest
  <2>1. ranges_by_device[d][n[d] + i].owns /\ n[d] + i \in 1 .. Len(ranges_by_device[d])
    BY <1>4
  <2>2. n[d] + i = Len(ranges_by_device[d])
    BY <2>1 DEF BusInv, OwnerOldest
  <2> QED
    BY <1>4, <2>2
<1>16. NoDanglingRange'
  <2> SUFFICES ASSUME NEW k \in left
               PROVE  ranges_by_addr[k].device \in alive'
    BY <1>2 DEF NoDanglingRange, Ranges
  <2>1. ranges_by_addr[k].device \in alive
    BY <1>8 DEF BusInv, NoDanglingRange, Ranges
  <2>2. ASSUME NEW q \in taken, q.owns, q.device = ranges_by_addr[k].device
        PROVE  FALSE
    <3>1. PICK e \in Devices : \E j \in 1 .. n[e] : q = ranges_by_device[e][j]
      BY <1>3 DEF taken
    <3>2. PICK j \in 1 .. n[e] : q = ranges_by_device[e][j]
      BY <3>1
    <3>3. j \in 1 .. Len(ranges_by_device[e])
      BY <1>4
    <3>4. e = q.device /\ j = Len(ranges_by_device[e])
      BY <1>5, <2>2, <3>2, <3>3 DEF BusInv, OwnerOldest
    <3>5. PICK d \in Devices : \E i \in 1 .. Len(ranges_by_device'[d]) : d = ranges_by_addr[k].device
      BY <1>12
    <3>6. Len(ranges_by_device'[e]) > 0
      BY <1>4, <2>2, <3>4, <3>5
    <3>7. j <= n[e] /\ Len(ranges_by_device[e]) \in Nat /\ n[e] \in Nat
          /\ Len(ranges_by_device'[e]) = Len(ranges_by_device[e]) - n[e]
      BY <1>4, <3>2
    <3> QED
      BY <3>4, <3>6, <3>7
  <2>3. ranges_by_addr[k].device \notin {r.device : r \in {q \in taken : q.owns}}
    BY <2>2
  <2> QED
    BY <1>1, <2>1, <2>3
<1> QED
  BY <1>9, <1>10, <1>11, <1>13, <1>14, <1>15, <1>16 DEF BusInv

LEMMA RemoveKeeps ==
    ASSUME BusInv, NEW d \in Devices, remove_device(d)
    PROVE  BusInv'
<1> DEFINE n == [e \in Devices |-> IF e = d THEN 1 ELSE 0]
<1>1. TakeRanges(n) /\ n \in [Devices -> Nat] /\ ranges_by_device[d] # << >>
  BY DEF remove_device
<1>2. ASSUME NEW e \in Devices PROVE n[e] <= Len(ranges_by_device[e])
  BY <1>1 DEF BusInv, BusTypeOK
<1> HIDE DEF n
<1> QED
  BY <1>1, <1>2, TakeKeeps

\* A device has as many ranges in the map by address as in its own list.
LEMMA FewOfDevice ==
    ASSUME BusInv, NEW d \in Devices, NEW S \in SUBSET {r \in Ranges : r.device = d}
    PROVE  Cardinality(S) \in Nat /\ Cardinality(S) <= Len(ranges_by_device[d])
<1> DEFINE s == ranges_by_device[d]
           T == {s[i] : i \in 1 .. Len(s)}
           f == [i \in 1 .. Len(s) |-> s[i]]
<1>1. Len(s) \in Nat
  BY DEF BusInv, BusTypeOK
<1>2. IsFiniteSet(1 .. Len(s)) /\ Cardinality(1 .. Len(s)) = Len(s)
  BY <1>1, FS_Interval
<1>3. f \in Surjection(1 .. Len(s), T)
  BY DEF Surjection
<1> HIDE DEF f
<1>4. IsFiniteSet(T) /\ Cardinality(T) <= Len(s)
  <2> HIDE DEF T
  <2> QED
    BY <1>2, <1>3, FS_Surjection
<1>5. S \subseteq T
  <2> SUFFICES ASSUME NEW r \in S PROVE r \in T
    OBVIOUS
  <2>1. PICK k \in DOMAIN ranges_by_addr : r = ranges_by_addr[k]
    BY DEF Ranges
  <2>2. PICK e \in Devices : \E i \in 1 .. Len(ranges_by_device[e]) : ranges_by_device[e][i] = r
    BY <2>1 DEF BusInv, ByAddrListed
  <2>3. e = d
    BY <2>2 DEF BusInv, ByDeviceKnown
  <2> QED
    BY <2>2, <2>3
<1> HIDE DEF T, s
<1>6. IsFiniteSet(S) /\ Cardinality(S) <= Cardinality(T)
  BY <1>4, <1>5, FS_Subset
<1>7. Cardinality(S) \in Nat /\ Cardinality(T) \in Nat
  BY <1>4, <1>6, FS_CardinalityType
<1>8. Cardinality(S) <= Len(s)
  BY <1>1, <1>4, <1>6, <1>7
<1> QED
  BY <1>7, <1>8 DEF s

\* Whatever ranges the loop of clean_range meets after its first removal.
LEMMA CleanKeeps ==
    ASSUME BusInv, NEW start_addr, NEW last_addr, clean_range(start_addr, last_addr)
    PROVE  BusInv'
<1> DEFINE hit == {r \in Ranges : r.last >= start_addr /\ r.start <= last_addr}
<1>1. PICK first \in LowerBound(start_addr) \cap hit :
          \E more \in SUBSET (hit \ {first}) :
              TakeRanges([d \in Devices |-> Cardinality({r \in more \cup {first} : r.device = d})])
  BY DEF clean_range
<1>2. PICK more \in SUBSET (hit \ {first}) :
          TakeRanges([d \in Devices |-> Cardinality({r \in more \cup {first} : r.device = d})])
  BY <1>1
<1> DEFINE met == more \cup {first}
           n == [d \in Devices |-> Cardinality({r \in met : r.device = d})]
<1>3. met \subseteq Ranges /\ TakeRanges(n)
  BY <1>1, <1>2
<1> HIDE DEF met
<1>4. ASSUME NEW d \in Devices
      PROVE  n[d] \in Nat /\ n[d] <= Len(ranges_by_device[d])
  <2> DEFINE S == {r \in met : r.device = d}
  <2>1. S \in SUBSET {r \in Ranges : r.device = d} /\ n[d] = Cardinality(S)
    BY <1>3
  <2> HIDE DEF S, n
  <2> QED
    BY <2>1, FewOfDevice
<1>5. n \in [Devices -> Nat]
  BY <1>4
<1> HIDE DEF n
<1> QED
  BY <1>3, <1>4, <1>5, TakeKeeps

LEMMA BusStutter ==
    ASSUME BusInv, UNCHANGED <<ranges_by_addr, ranges_by_device>>, alive \subseteq alive',
           alive' \subseteq Devices
    PROVE  BusInv'
<1>1. BusTypeOK'
  BY DEF BusInv, BusTypeOK
<1>2. FiledByLast' /\ RangesApart' /\ ByDeviceKnown' /\ ByAddrListed' /\ ListedOnce' /\ OwnerOldest'
  BY DEF BusInv, FiledByLast, RangesApart, ByDeviceKnown, ByAddrListed, ListedOnce, OwnerOldest
<1>3. NoDanglingRange'
  BY DEF BusInv, NoDanglingRange, Ranges
<1> QED
  BY <1>1, <1>2, <1>3 DEF BusInv

LEMMA BusNextKeeps ==
    ASSUME BusInv, [Next]_vars
    PROVE  BusInv'
<1>1. CASE UNCHANGED busVars
  <2>1. UNCHANGED <<ranges_by_addr, ranges_by_device>> /\ alive' = alive /\ alive \subseteq Devices
    BY <1>1 DEF busVars, BusInv, BusTypeOK
  <2> QED
    BY <2>1, BusStutter
<1>2. CASE BusStep
  <2>1. CASE \E m \in Mappings : insert_device_to_range(m)
    BY <2>1, InsertKeeps
  <2>2. CASE \E d \in Devices : remove_device(d)
    BY <2>2, RemoveKeeps
  <2>3. CASE \E d \in Devices : NewDevice(d)
    <3>1. UNCHANGED <<ranges_by_addr, ranges_by_device>> /\ alive \subseteq alive' /\ alive' \subseteq Devices
      BY <2>3 DEF NewDevice, BusInv, BusTypeOK
    <3> QED
      BY <3>1, BusStutter
  <2>4. CASE \E area \in setup.use.areas : clean_range(area[1], area[2])
    BY <2>4, CleanKeeps
  <2> QED
    BY <1>2, <2>1, <2>2, <2>3, <2>4 DEF BusStep
<1>3. [Next]_vars => BusStep \/ UNCHANGED busVars
  BY DEF Next, vars, busVars, write_ctl, read_ctl, knob_update_notify, Restart
<1> QED
  BY <1>1, <1>2, <1>3

LEMMA BusInitHolds == Init => BusInv
<1> SUFFICES ASSUME Init PROVE BusInv
  OBVIOUS
<1>1. PICK use \in Uses :
        /\ ranges_by_addr = [k \in {m.last : m \in use.plugged} |-> CHOOSE m \in use.plugged : m.last = k]
        /\ ranges_by_device \in {f \in [Devices -> UNION {Inserted(use, d) : d \in Devices}] :
                                  \A d \in Devices : f[d] \in Inserted(use, d)}
        /\ alive = Devices
  BY DEF Init
<1> DEFINE P == use.plugged
           dom == {m.last : m \in P}
<1>2. P \subseteq Mappings /\ IsFiniteSet(Mappings)
      /\ \A m, n \in P : m # n => ~overlaps(m, n)
  BY <1>1, UsesAssumption, MappingsAssumption DEF UsesAssumption, MappingsAssumption
<1>3. ASSUME NEW m \in P, NEW n \in P, m.last >= n.start, n.last >= m.start
      PROVE  m = n
  <2>1. /\ m.start \in Nat /\ m.last \in Nat /\ m.start <= m.last
        /\ n.start \in Nat /\ n.last \in Nat /\ n.start <= n.last
    BY <1>2, MappingFacts
  <2>2. contains(m, n.start) \/ contains(n, m.start)
    BY <1>3, <2>1 DEF contains
  <2> QED
    BY <1>2, <2>2 DEF overlaps
<1>4. ASSUME NEW m \in P PROVE m.last \in dom /\ ranges_by_addr[m.last] = m
  <2> DEFINE c == CHOOSE n \in P : n.last = m.last
  <2>1. c \in P /\ c.last = m.last
    OBVIOUS
  <2>2. ranges_by_addr[m.last] = c
    BY <1>1
  <2> HIDE DEF c, P
  <2>3. c.last >= m.start /\ m.last >= c.start
    BY <1>2, <2>1, MappingFacts
  <2>4. c = m
    BY <1>3, <2>1, <2>3
  <2> QED
    BY <2>2, <2>4 DEF dom
<1>5. DOMAIN ranges_by_addr = dom
  BY <1>1
<1>6. ASSUME NEW k \in dom
      PROVE  ranges_by_addr[k] \in P /\ ranges_by_addr[k].last = k
  BY <1>4
<1>7. ASSUME NEW d \in Devices
      PROVE  /\ ranges_by_device[d] \in Seq(Mappings)
             /\ \A i \in 1 .. Len(ranges_by_device[d]) :
                   /\ ranges_by_device[d][i] \in P /\ ranges_by_device[d][i].device = d
                   /\ ranges_by_device[d][i].owns => i = Len(ranges_by_device[d])
             /\ \A i, j \in 1 .. Len(ranges_by_device[d]) :
                   ranges_by_device[d][i] = ranges_by_device[d][j] => i = j
             /\ \A m \in P : m.device = d =>
                   \E i \in 1 .. Len(ranges_by_device[d]) : ranges_by_device[d][i] = m
  <2> DEFINE R == {m \in P : m.device = d}
             c == Cardinality(R)
             s == ranges_by_device[d]
  <2>1. c \in Nat
    <3>1. R \in SUBSET Mappings
      BY <1>2
    <3> HIDE DEF R
    <3> QED
      BY <1>2, <3>1, FS_Subset, FS_CardinalityType
  <2>2. s \in Bijection(1 .. c, R) /\ \A i \in 1 .. c : s[i].owns => i = c
    BY <1>1 DEF Inserted
  <2> HIDE DEF c, s
  <2>3. s \in [1 .. c -> R] /\ (\A m \in R : \E i \in 1 .. c : s[i] = m)
        /\ \A i, j \in 1 .. c : s[i] = s[j] => i = j
    BY <2>2 DEF Bijection, Injection, Surjection, IsInjective
  <2>4. s \in Seq(R) /\ Len(s) = c
    BY <2>1, <2>3
  <2>5. s \in Seq(Mappings)
    BY <1>2, <2>4
  <2> QED
    BY <2>2, <2>3, <2>4, <2>5 DEF s
<1> HIDE DEF P, dom
<1>8. BusTypeOK
  <2>1. ranges_by_device \in [Devices -> Seq(Mappings)]
    BY <1>1, <1>7
  <2>2. dom \subseteq {m.last : m \in Mappings} /\ \A k \in dom : ranges_by_addr[k] \in Mappings
    BY <1>2, <1>6 DEF dom
  <2> QED
    BY <1>1, <1>5, <2>1, <2>2 DEF BusTypeOK
<1>9. FiledByLast
  BY <1>5, <1>6 DEF FiledByLast
<1>10. RangesApart
  <2> SUFFICES ASSUME NEW k \in dom, NEW l \in dom, k < l
               PROVE  k < ranges_by_addr[l].start
    BY <1>5 DEF RangesApart
  <2> DEFINE m == ranges_by_addr[k]
             n == ranges_by_addr[l]
  <2>1. m \in P /\ n \in P /\ m.last = k /\ n.last = l
    BY <1>6
  <2> HIDE DEF m, n
  <2>2. /\ m.start \in Nat /\ m.last \in Nat /\ m.start <= m.last
        /\ n.start \in Nat /\ n.last \in Nat /\ n.start <= n.last
    BY <1>2, <2>1, MappingFacts
  <2>3. m # n
    BY <2>1, <2>2
  <2>4. ~(m.last >= n.start /\ n.last >= m.start)
    BY <1>3, <2>1, <2>3
  <2>5. k < n.start
    BY <2>1, <2>2, <2>4
  <2> QED
    BY <2>5 DEF n
<1>11. ByDeviceKnown
  BY <1>4, <1>5, <1>7 DEF ByDeviceKnown
<1>12. ByAddrListed
  <2> SUFFICES ASSUME NEW k \in dom
               PROVE  \E d \in Devices : \E i \in 1 .. Len(ranges_by_device[d]) :
                          ranges_by_device[d][i] = ranges_by_addr[k]
    BY <1>5 DEF ByAddrListed
  <2>1. ranges_by_addr[k] \in P /\ ranges_by_addr[k].device \in Devices
    BY <1>2, <1>6, MappingFacts
  <2> QED
    BY <1>7, <2>1
<1>13. ListedOnce /\ OwnerOldest
  BY <1>7 DEF ListedOnce, OwnerOldest
<1>14. NoDanglingRange
  <2>1. \A k \in dom : ranges_by_addr[k].device \in Devices
    BY <1>2, <1>6, MappingFacts
  <2> QED
    BY <1>1, <1>5, <2>1 DEF NoDanglingRange, Ranges
<1> QED
  BY <1>8, <1>9, <1>10, <1>11, <1>12, <1>13, <1>14 DEF BusInv

\* Whatever devices are plugged in and removed, in whatever order, and wherever
\* the loop of clean_range goes after it has erased the element its iterator
\* stands on: every address of an inserted range is led to that range, and no
\* range leads to a device that was destroyed (insert_device_to_range,
\* remove_device, clean_range).
THEOREM BusStaysSound == Spec => []BusSound
<1>1. BusInv /\ [Next]_vars => BusInv'
  BY BusNextKeeps
<1> QED
  BY <1>1, BusInitHolds, BusInvSound, PTL DEF Spec

-----------------------------------------------------------------------------
(* The memory behind the bus is one array of bytes.  Both recursive         *)
(* functions of the model, the bytes below a row of the tree and the tree   *)
(* that is loaded, are given by a first value and a step.                   *)

Steps(f, n, base, step) ==
    f = [k \in 0 .. n |-> IF k = 0 THEN base ELSE step[<<k, f[k - 1]>>]]

LEMMA OneMoreStep ==
    ASSUME NEW n \in Nat, NEW base, NEW step, NEW f, Steps(f, n, base, step)
    PROVE  Steps([k \in 0 .. n + 1 |-> IF k = n + 1 THEN step[<<n + 1, f[n]>>] ELSE f[k]],
                 n + 1, base, step)
<1> DEFINE g == [k \in 0 .. n + 1 |-> IF k = n + 1 THEN step[<<n + 1, f[n]>>] ELSE f[k]]
           h == [k \in 0 .. n + 1 |-> IF k = 0 THEN base ELSE step[<<k, g[k - 1]>>]]
<1>1. \A k \in 0 .. n : f[k] = IF k = 0 THEN base ELSE step[<<k, f[k - 1]>>]
  BY DEF Steps
<1>2. \A k \in 0 .. n + 1 : g[k] = IF k = n + 1 THEN step[<<n + 1, f[n]>>] ELSE f[k]
  OBVIOUS
<1>3. \A k \in 0 .. n + 1 : h[k] = IF k = 0 THEN base ELSE step[<<k, g[k - 1]>>]
  OBVIOUS
<1>4. g = h
  <2>1. ASSUME NEW k \in 0 .. n + 1
        PROVE  g[k] = h[k]
    <3> HIDE DEF g, h
    <3>1. CASE k = 0
      <4>1. k # n + 1 /\ k \in 0 .. n
        BY <3>1
      <4> QED
        BY <1>1, <1>2, <1>3, <3>1, <4>1
    <3>2. CASE k = n + 1
      <4>1. k # 0 /\ k - 1 = n /\ n \in 0 .. n + 1 /\ n # n + 1
        BY <3>2
      <4>2. g[k - 1] = f[n]
        BY <1>2, <4>1
      <4> QED
        BY <1>2, <1>3, <3>2, <4>1, <4>2
    <3>3. CASE k # 0 /\ k # n + 1
      <4>1. k \in 0 .. n /\ k - 1 \in 0 .. n + 1 /\ k - 1 # n + 1
        BY <3>3
      <4>2. g[k] = f[k] /\ g[k - 1] = f[k - 1]
        BY <1>2, <3>3, <4>1
      <4> QED
        BY <1>1, <1>3, <3>3, <4>1, <4>2
    <3> QED
      BY <3>1, <3>2, <3>3
  <2>2. g = [k \in 0 .. n + 1 |-> g[k]] /\ h = [k \in 0 .. n + 1 |-> h[k]]
    OBVIOUS
  <2> HIDE DEF g, h
  <2> QED
    BY <2>1, <2>2
<1> QED
  BY <1>4 DEF Steps

LEMMA StepsExist ==
    ASSUME NEW n \in Nat, NEW base, NEW step
    PROVE  \E f : Steps(f, n, base, step)
<1> DEFINE Bad == {k \in Nat : ~\E f : Steps(f, k, base, step)}
<1>1. ASSUME Bad # {} PROVE FALSE
  <2>1. PICK k \in Bad : \A j \in Bad : k <= j
    <3>1. Bad \subseteq Nat
      OBVIOUS
    <3> HIDE DEF Bad
    <3> QED
      BY <1>1, <3>1, LeastNatural
  <2>2. CASE k = 0
    <3> DEFINE f == [i \in 0 .. 0 |-> base]
    <3>1. f = [i \in 0 .. 0 |-> IF i = 0 THEN base ELSE step[<<i, f[i - 1]>>]]
      OBVIOUS
    <3>2. Steps(f, 0, base, step)
      BY <3>1 DEF Steps
    <3> QED
      BY <2>2, <3>2
  <2>3. CASE k # 0
    <3>1. k - 1 \in Nat /\ ~(k <= k - 1) /\ (k - 1) + 1 = k
      BY <2>3
    <3>2. PICK f : Steps(f, k - 1, base, step)
      BY <2>1, <3>1
    <3>3. \E g : Steps(g, (k - 1) + 1, base, step)
      BY <3>1, <3>2, OneMoreStep
    <3> QED
      BY <3>1, <3>3
  <2> QED
    BY <2>2, <2>3
<1> QED
  BY <1>1

LEMMA MemoryFacts ==
    /\ MEMORY_SECTION_SIZE \in Nat /\ MEMORY_SECTION_SIZE # 0
    /\ MEMORY_TREE_ROW_SIZE \in Nat /\ MEMORY_TREE_ROW_SIZE # 0
    /\ MEMORY_TREE_DEPTH \in Nat /\ MEMORY_TREE_DEPTH # 0
    /\ FbWidth \in Nat /\ FbHeight \in Nat
    /\ CounterMod \in Nat /\ CounterMod > 1
BY MemoryAssumption DEF MemoryAssumption

\* A function that keeps to its step on a set stays in that set.
KeepsTo(f, n, S, base, step) ==
    /\ f = [k \in 0 .. n |-> f[k]]
    /\ f[0] = base
    /\ \A k \in 1 .. n : f[k - 1] \in S => f[k] = step[<<k, f[k - 1]>>]

LEMMA StepsStay ==
    ASSUME NEW n \in Nat, NEW S, NEW base \in S, NEW step \in [(1 .. n) \X S -> S],
           NEW f, KeepsTo(f, n, S, base, step)
    PROVE  f \in [0 .. n -> S]
<1>0. f = [k \in 0 .. n |-> f[k]] /\ f[0] = base
      /\ \A k \in 1 .. n : f[k - 1] \in S => f[k] = step[<<k, f[k - 1]>>]
  BY DEF KeepsTo
<1> DEFINE Bad == {k \in 0 .. n : f[k] \notin S}
<1>1. ASSUME Bad # {} PROVE FALSE
  <2>1. PICK k \in Bad : \A j \in Bad : k <= j
    <3>1. Bad \subseteq Nat
      OBVIOUS
    <3> HIDE DEF Bad
    <3> QED
      BY <1>1, <3>1, LeastNatural
  <2>2. k \in 0 .. n /\ f[k] \notin S
    OBVIOUS
  <2>3. k # 0
    BY <1>0, <2>2
  <2>4. k \in 1 .. n /\ k - 1 \in 0 .. n /\ ~(k <= k - 1)
    BY <2>2, <2>3
  <2>5. f[k - 1] \in S
    BY <2>1, <2>4
  <2>6. step[<<k, f[k - 1]>>] \in S
    BY <2>4, <2>5
  <2> QED
    BY <1>0, <2>2, <2>4, <2>5, <2>6
<1>2. \A k \in 0 .. n : f[k] \in S
  BY <1>1
<1> QED
  BY <1>0, <1>2

LEMMA StepsFacts ==
    ASSUME NEW n \in Nat, NEW S, NEW base \in S, NEW step \in [(1 .. n) \X S -> S],
           NEW f, Steps(f, n, base, step)
    PROVE  /\ f \in [0 .. n -> S] /\ f[0] = base
           /\ \A k \in 1 .. n : f[k] = step[<<k, f[k - 1]>>]
<1>1. \A k \in 0 .. n : f[k] = IF k = 0 THEN base ELSE step[<<k, f[k - 1]>>]
  BY DEF Steps
<1>2. 0 \in 0 .. n /\ \A k \in 1 .. n : k \in 0 .. n /\ k # 0
  OBVIOUS
<1>3. f[0] = base /\ \A k \in 1 .. n : f[k] = step[<<k, f[k - 1]>>]
  BY <1>1, <1>2
<1>4. f = [k \in 0 .. n |-> f[k]]
  BY DEF Steps
<1>5. KeepsTo(f, n, S, base, step)
  BY <1>3, <1>4 DEF KeepsTo
<1>6. f \in [0 .. n -> S]
  BY <1>5, StepsStay
<1> QED
  BY <1>3, <1>6

LEMMA TreeBytesFacts ==
    /\ TreeBytes \in [0 .. MEMORY_TREE_DEPTH -> Nat \ {0}]
    /\ TreeBytes[0] = MEMORY_SECTION_SIZE
    /\ \A k \in 1 .. MEMORY_TREE_DEPTH : TreeBytes[k] = MEMORY_TREE_ROW_SIZE * TreeBytes[k - 1]
<1> DEFINE n == MEMORY_TREE_DEPTH
           S == Nat \ {0}
           step == [x \in (1 .. n) \X S |-> MEMORY_TREE_ROW_SIZE * x[2]]
           Eqn(f) == f = [k \in 0 .. n |-> IF k = 0 THEN MEMORY_SECTION_SIZE
                                           ELSE MEMORY_TREE_ROW_SIZE * f[k - 1]]
<1>1. MEMORY_SECTION_SIZE \in S /\ n \in Nat
  BY MemoryFacts
<1>2. step \in [(1 .. n) \X S -> S]
  <2>1. \A a \in S : MEMORY_TREE_ROW_SIZE * a \in S
    BY MemoryFacts
  <2>2. \A x \in (1 .. n) \X S : x[2] \in S
    OBVIOUS
  <2> HIDE DEF S, n
  <2> QED
    BY <2>1, <2>2
<1>3. \A k \in 1 .. n, a \in S : step[<<k, a>>] = MEMORY_TREE_ROW_SIZE * a
  OBVIOUS
<1>4. \E f : Eqn(f)
  <2> HIDE DEF step, S, n
  <2>1. PICK f : Steps(f, n, MEMORY_SECTION_SIZE, step)
    BY <1>1, StepsExist
  <2>2. f \in [0 .. n -> S] /\ f[0] = MEMORY_SECTION_SIZE
        /\ \A k \in 1 .. n : f[k] = step[<<k, f[k - 1]>>]
    BY <1>1, <1>2, <2>1, StepsFacts
  <2>3. \A k \in 1 .. n : k - 1 \in 0 .. n
    BY <1>1
  <2>4. \A k \in 1 .. n : f[k] = MEMORY_TREE_ROW_SIZE * f[k - 1]
    BY <1>3, <2>2, <2>3
  <2>5. \A k \in 0 .. n : k = 0 \/ k \in 1 .. n
    BY <1>1
  <2>6. \A k \in 0 .. n : f[k] = IF k = 0 THEN MEMORY_SECTION_SIZE
                                 ELSE MEMORY_TREE_ROW_SIZE * f[k - 1]
    BY <2>2, <2>4, <2>5
  <2>7. Eqn(f)
    BY <2>2, <2>6
  <2> QED
    BY <2>7
<1>5. TreeBytes = CHOOSE f : Eqn(f)
  BY DEF TreeBytes
<1>6. Eqn(TreeBytes)
  <2> HIDE DEF Eqn
  <2> QED
    BY <1>4, <1>5
<1>7. /\ TreeBytes = [k \in 0 .. n |-> TreeBytes[k]]
      /\ \A k \in 0 .. n : TreeBytes[k] = IF k = 0 THEN MEMORY_SECTION_SIZE
                                          ELSE MEMORY_TREE_ROW_SIZE * TreeBytes[k - 1]
  BY <1>6
<1>8. 0 \in 0 .. n /\ \A k \in 1 .. n : k \in 0 .. n /\ k # 0
  BY <1>1
<1>9. TreeBytes[0] = MEMORY_SECTION_SIZE
      /\ \A k \in 1 .. n : TreeBytes[k] = MEMORY_TREE_ROW_SIZE * TreeBytes[k - 1]
  BY <1>7, <1>8
<1> HIDE DEF step, S, n
<1>10. KeepsTo(TreeBytes, n, S, MEMORY_SECTION_SIZE, step)
  BY <1>3, <1>7, <1>9 DEF KeepsTo
<1>11. TreeBytes \in [0 .. n -> S]
  BY <1>1, <1>2, <1>10, StepsStay
<1> QED
  BY <1>9, <1>11 DEF n, S

\* The prefix of a path tells which tree an address lies in: two addresses on
\* the same path lie in the same section.
LEMMA DivMod ==
    ASSUME NEW a \in Nat, NEW m \in Nat, m # 0
    PROVE  /\ a \div m \in Nat /\ a % m \in 0 .. (m - 1)
           /\ a = (m * (a \div m)) + (a % m)
OBVIOUS

LEMMA DivTwice ==
    ASSUME NEW a \in Nat, NEW r \in Nat, r # 0, NEW m \in Nat, m # 0
    PROVE  a \div (r * m) = (a \div m) \div r
OBVIOUS

LEMMA SameSection ==
    ASSUME NEW a \in RamAddr, NEW b \in RamAddr
    PROVE  Path[a] = Path[b] <=> a \div MEMORY_SECTION_SIZE = b \div MEMORY_SECTION_SIZE
<1> DEFINE n == MEMORY_TREE_DEPTH
           r == MEMORY_TREE_ROW_SIZE
           Q(c, k) == c \div TreeBytes[k]
<1>1. n \in Nat /\ n # 0 /\ r \in Nat /\ r # 0
      /\ \A k \in 0 .. n : TreeBytes[k] \in Nat /\ TreeBytes[k] # 0
  BY MemoryFacts, TreeBytesFacts
<1>2. a \in Nat /\ b \in Nat /\ a < TreeBytes[n] /\ b < TreeBytes[n]
  BY <1>1 DEF RamAddr, RamSize
<1>3. ASSUME NEW c \in Nat, NEW k \in 1 .. n
      PROVE  Q(c, k) = Q(c, k - 1) \div r
  <2>1. k - 1 \in 0 .. n /\ TreeBytes[k] = r * TreeBytes[k - 1]
    BY <1>1, TreeBytesFacts
  <2>2. TreeBytes[k - 1] \in Nat /\ TreeBytes[k - 1] # 0
    BY <1>1, <2>1
  <2> HIDE DEF r
  <2> QED
    BY <1>1, <2>1, <2>2, DivTwice
<1>4. \A c \in Nat, k \in 0 .. n : Q(c, k) \in Nat
  BY <1>1, DivMod
<1>5. TreeBytes[0] = MEMORY_SECTION_SIZE
  BY TreeBytesFacts
<1>6. \A c \in RamAddr : Path[c] = [i \in 1 .. n |-> Q(c, n - i) % r]
  BY DEF Path, get_tree_row
<1>7. ASSUME Path[a] = Path[b] PROVE Q(a, 0) = Q(b, 0)
  <2>1. \A i \in 1 .. n : Q(a, n - i) % r = Q(b, n - i) % r
    <3> DEFINE pa == Path[a]
               pb == Path[b]
    <3>1. pa = [i \in 1 .. n |-> Q(a, n - i) % r] /\ pb = [i \in 1 .. n |-> Q(b, n - i) % r]
      BY <1>6
    <3>2. pa = pb
      BY <1>7
    <3> HIDE DEF pa, pb, Q, r, n
    <3>3. \A i \in 1 .. n : pa[i] = Q(a, n - i) % r /\ pb[i] = Q(b, n - i) % r
      BY <3>1
    <3> QED
      BY <3>2, <3>3
  <2> DEFINE Bad == {j \in 0 .. n : Q(a, n - j) # Q(b, n - j)}
  <2>2. ASSUME Bad # {} PROVE FALSE
    <3>1. PICK j \in Bad : \A i \in Bad : j <= i
      <4>1. Bad \subseteq Nat
        OBVIOUS
      <4> HIDE DEF Bad
      <4> QED
        BY <2>2, <4>1, LeastNatural
    <3>2. j \in 0 .. n /\ Q(a, n - j) # Q(b, n - j)
      OBVIOUS
    <3>3. Q(a, n) = 0 /\ Q(b, n) = 0
      <4>1. TreeBytes[n] \in Nat /\ TreeBytes[n] # 0
        BY <1>1
      <4> HIDE DEF n
      <4> QED
        BY <1>2, <4>1
    <3>4. j # 0
      <4> HIDE DEF Q
      <4> QED
        BY <1>1, <3>2, <3>3
    <3> DEFINE k == n - j
    <3>5. j \in 1 .. n /\ j - 1 \in 0 .. n /\ ~(j <= j - 1) /\ k \in Nat /\ k \in 0 .. n
          /\ k + 1 \in 1 .. n /\ (k + 1) - 1 = k /\ n - (j - 1) = k + 1
      BY <1>1, <3>2, <3>4
    <3>6. Q(a, n - (j - 1)) = Q(b, n - (j - 1))
      <4>1. j - 1 \notin Bad
        BY <3>1, <3>5
      <4> HIDE DEF Q
      <4> QED
        BY <3>5, <4>1
    <3> HIDE DEF k
    <3>7. Q(a, k + 1) = Q(a, k) \div r /\ Q(b, k + 1) = Q(b, k) \div r
      <4>1. Q(a, k + 1) = Q(a, (k + 1) - 1) \div r
        BY <1>2, <1>3, <3>5
      <4>2. Q(b, k + 1) = Q(b, (k + 1) - 1) \div r
        BY <1>2, <1>3, <3>5
      <4> QED
        BY <3>5, <4>1, <4>2
    <3>8. Q(a, k) % r = Q(b, k) % r
      BY <2>1, <3>5 DEF k
    <3>9. Q(a, k) \in Nat /\ Q(b, k) \in Nat
      BY <1>2, <1>4, <3>5
    <3> HIDE DEF Q, r
    <3>10. Q(a, k) \div r = Q(b, k) \div r
      BY <3>5, <3>6, <3>7
    <3>11. Q(a, k) = Q(b, k)
      <4>1. Q(a, k) = (r * (Q(a, k) \div r)) + (Q(a, k) % r)
        BY <1>1, <3>9, DivMod
      <4>2. Q(b, k) = (r * (Q(b, k) \div r)) + (Q(b, k) % r)
        BY <1>1, <3>9, DivMod
      <4> QED
        BY <3>8, <3>10, <4>1, <4>2
    <3> QED
      BY <3>2, <3>11 DEF k
  <2>3. n \in 0 .. n /\ n - n = 0
    BY <1>1
  <2>4. n \notin Bad
    BY <2>2
  <2> HIDE DEF Q
  <2> QED
    BY <2>3, <2>4
<1>8. ASSUME Q(a, 0) = Q(b, 0) PROVE Path[a] = Path[b]
  <2> DEFINE Bad == {k \in 0 .. n : Q(a, k) # Q(b, k)}
  <2>1. ASSUME Bad # {} PROVE FALSE
    <3>1. PICK k \in Bad : \A i \in Bad : k <= i
      <4>1. Bad \subseteq Nat
        OBVIOUS
      <4> HIDE DEF Bad
      <4> QED
        BY <2>1, <4>1, LeastNatural
    <3>2. k \in 0 .. n /\ Q(a, k) # Q(b, k)
      OBVIOUS
    <3>3. k # 0
      <4> HIDE DEF Q
      <4> QED
        BY <1>8, <3>2
    <3>4. k \in 1 .. n /\ k - 1 \in 0 .. n /\ ~(k <= k - 1)
      BY <1>1, <3>2, <3>3
    <3>5. Q(a, k - 1) = Q(b, k - 1)
      BY <3>1, <3>4
    <3>6. Q(a, k) = Q(a, k - 1) \div r /\ Q(b, k) = Q(b, k - 1) \div r
      BY <1>2, <1>3, <3>4
    <3> HIDE DEF Q
    <3> QED
      BY <3>2, <3>5, <3>6
  <2>2. \A k \in 0 .. n : Q(a, k) = Q(b, k)
    BY <2>1
  <2>3. \A i \in 1 .. n : n - i \in 0 .. n
    BY <1>1
  <2> HIDE DEF Q, n, r
  <2>4. [i \in 1 .. n |-> Q(a, n - i) % r] = [i \in 1 .. n |-> Q(b, n - i) % r]
    BY <2>2, <2>3
  <2> QED
    BY <1>6, <2>4
<1> QED
  BY <1>5, <1>7, <1>8

LEMMA RamFacts ==
    /\ RamSize \in Nat
    /\ \A a \in RamAddr : a \in Nat /\ a < RamSize
    /\ \A a \in Nat : a < RamSize => a \in RamAddr
<1>1. RamSize \in Nat
  BY MemoryFacts, TreeBytesFacts DEF RamSize
<1> QED
  BY <1>1 DEF RamAddr

LEMMA PathFacts ==
    ASSUME NEW a \in RamAddr
    PROVE  /\ Path[a] \in Paths
           /\ get_section_offset_mask(a) \in 0 .. (MEMORY_SECTION_SIZE - 1)
<1>1. a \in Nat
  BY RamFacts
<1>2. \A i \in 1 .. MEMORY_TREE_DEPTH : get_tree_row(a, i) \in 0 .. (MEMORY_TREE_ROW_SIZE - 1)
  <2> SUFFICES ASSUME NEW i \in 1 .. MEMORY_TREE_DEPTH
               PROVE  get_tree_row(a, i) \in 0 .. (MEMORY_TREE_ROW_SIZE - 1)
    OBVIOUS
  <2> DEFINE m == TreeBytes[MEMORY_TREE_DEPTH - i]
  <2>1. m \in Nat /\ m # 0
    <3>1. MEMORY_TREE_DEPTH - i \in 0 .. MEMORY_TREE_DEPTH
      BY MemoryFacts
    <3> QED
      BY <3>1, TreeBytesFacts
  <2> HIDE DEF m
  <2>2. a \div m \in Nat
    BY <1>1, <2>1, DivMod
  <2>3. (a \div m) % MEMORY_TREE_ROW_SIZE \in 0 .. (MEMORY_TREE_ROW_SIZE - 1)
    BY <2>2, MemoryFacts, DivMod
  <2> QED
    BY <2>3 DEF get_tree_row, m
<1>3. Path[a] = [i \in 1 .. MEMORY_TREE_DEPTH |-> get_tree_row(a, i)]
  BY DEF Path
<1>4. a % MEMORY_SECTION_SIZE \in 0 .. (MEMORY_SECTION_SIZE - 1)
  BY <1>1, MemoryFacts, DivMod
<1> QED
  BY <1>2, <1>3, <1>4 DEF Paths, get_section_offset_mask

\* A path and an offset in its section make up one address.
LEMMA OneAddress ==
    ASSUME NEW a \in RamAddr, NEW b \in RamAddr, Path[a] = Path[b],
           get_section_offset_mask(a) = get_section_offset_mask(b)
    PROVE  a = b
<1> DEFINE s == MEMORY_SECTION_SIZE
<1>1. a \div s = b \div s /\ a % s = b % s
  BY SameSection DEF get_section_offset_mask
<1>2. a \in Nat /\ b \in Nat /\ s \in Nat /\ s # 0
  BY RamFacts, MemoryFacts
<1> HIDE DEF s
<1>3. a = (s * (a \div s)) + (a % s) /\ b = (s * (b \div s)) + (b % s)
  BY <1>2, DivMod
<1> QED
  BY <1>1, <1>3

-----------------------------------------------------------------------------
(* A byte of the memory, allocated or not.                                  *)
At(t, a) ==
    IF Path[a] \in DOMAIN t.sections THEN t.sections[Path[a]][get_section_offset_mask(a)] ELSE 0

SectionBytes == [0 .. (MEMORY_SECTION_SIZE - 1) -> Byte]
RowPaths == {SubSeq(p, 1, i) : p \in Paths, i \in 1 .. (MEMORY_TREE_DEPTH - 1)}

LEMMA TreeFacts ==
    ASSUME NEW t, IsTree(t)
    PROVE  /\ t = [subtrees |-> t.subtrees, sections |-> t.sections]
           /\ t.subtrees \subseteq RowPaths
           /\ DOMAIN t.sections \subseteq Paths
           /\ t.sections \in [DOMAIN t.sections -> SectionBytes]
           /\ \A p \in DOMAIN t.sections, i \in 1 .. (MEMORY_TREE_DEPTH - 1) :
                 SubSeq(p, 1, i) \in t.subtrees
<1>1. PICK P \in SUBSET Paths :
          /\ t \in [subtrees : SUBSET RowPaths, sections : [P -> SectionBytes]]
          /\ \A p \in P, i \in 1 .. (MEMORY_TREE_DEPTH - 1) : SubSeq(p, 1, i) \in t.subtrees
  BY DEF IsTree, SectionBytes, RowPaths
<1>2. t.sections \in [P -> SectionBytes]
  BY <1>1
<1>3. DOMAIN t.sections = P
  BY <1>2
<1> HIDE DEF RowPaths, SectionBytes, Paths
<1> QED
  BY <1>1, <1>2, <1>3

LEMMA TreeMade ==
    ASSUME NEW rows, NEW P, NEW secs, rows \subseteq RowPaths, P \subseteq Paths,
           secs \in [P -> SectionBytes],
           \A p \in P, i \in 1 .. (MEMORY_TREE_DEPTH - 1) : SubSeq(p, 1, i) \in rows
    PROVE  IsTree([subtrees |-> rows, sections |-> secs])
<1> DEFINE t == [subtrees |-> rows, sections |-> secs]
<1>1. t.subtrees = rows
  OBVIOUS
<1>2. t \in [subtrees : SUBSET RowPaths, sections : [P -> SectionBytes]]
  OBVIOUS
<1> HIDE DEF t
<1>3. \A p \in P, i \in 1 .. (MEMORY_TREE_DEPTH - 1) : SubSeq(p, 1, i) \in t.subtrees
  BY <1>1
<1>4. IsTree(t)
  BY <1>2, <1>3 DEF IsTree, SectionBytes, RowPaths
<1> QED
  BY <1>4 DEF t

\* Sections that are allocated hold zeros.
LEMMA AllocatedKeeps ==
    ASSUME NEW t, IsTree(t), NEW ps \in SUBSET Paths
    PROVE  /\ IsTree(Allocated(t, ps))
           /\ DOMAIN Allocated(t, ps).sections = DOMAIN t.sections \cup ps
           /\ \A a \in RamAddr : At(Allocated(t, ps), a) = At(t, a)
<1> DEFINE P == DOMAIN t.sections \cup ps
           zero == [i \in 0 .. (MEMORY_SECTION_SIZE - 1) |-> 0]
           rows == t.subtrees \cup {SubSeq(p, 1, i) : p \in ps, i \in 1 .. (MEMORY_TREE_DEPTH - 1)}
           secs == [p \in P |-> IF p \in DOMAIN t.sections THEN t.sections[p] ELSE zero]
           made == [subtrees |-> rows, sections |-> secs]
<1>1. Allocated(t, ps) = made
  BY DEF Allocated
<1>2. zero \in SectionBytes
  BY DEF SectionBytes, Byte
<1>3. /\ t.subtrees \subseteq RowPaths /\ DOMAIN t.sections \subseteq Paths
      /\ t.sections \in [DOMAIN t.sections -> SectionBytes]
      /\ \A p \in DOMAIN t.sections, i \in 1 .. (MEMORY_TREE_DEPTH - 1) : SubSeq(p, 1, i) \in t.subtrees
  BY TreeFacts
<1>4. rows \subseteq RowPaths /\ P \subseteq Paths
  BY <1>3 DEF RowPaths
<1>5. secs \in [P -> SectionBytes]
  <2> HIDE DEF zero, SectionBytes
  <2> QED
    BY <1>2, <1>3
<1>6. \A p \in P, i \in 1 .. (MEMORY_TREE_DEPTH - 1) : SubSeq(p, 1, i) \in rows
  BY <1>3
<1>7. made.sections = secs /\ DOMAIN secs = P
  OBVIOUS
<1>8. ASSUME NEW a \in RamAddr
      PROVE  At(made, a) = At(t, a)
  <2>1. Path[a] \in Paths /\ zero[get_section_offset_mask(a)] = 0
    BY PathFacts
  <2>2. \A p \in P : secs[p] = IF p \in DOMAIN t.sections THEN t.sections[p] ELSE zero
    OBVIOUS
  <2> HIDE DEF made, secs, zero
  <2> QED
    BY <1>7, <2>1, <2>2 DEF At, P
<1> HIDE DEF rows, P, secs
<1>9. IsTree(made)
  BY <1>4, <1>5, <1>6, TreeMade
<1> HIDE DEF made
<1> QED
  BY <1>1, <1>7, <1>8, <1>9 DEF P

LEMMA CountUpTo ==
    ASSUME NEW n \in Nat
    PROVE  Cardinality(0 .. (n - 1)) = n
<1>1. 0 \in Int /\ n - 1 \in Int
  OBVIOUS
<1>2. Cardinality(0 .. (n - 1)) = IF 0 > n - 1 THEN 0 ELSE (n - 1) - 0 + 1
  BY <1>1, FS_Interval
<1> QED
  BY <1>2

\* Memory::write puts the bytes in place, in as many sections as they meet, and
\* changes nothing else.
LEMMA WriteKeeps ==
    ASSUME NEW t, IsTree(t), NEW n \in Nat, NEW dst \in Nat, dst + n <= RamSize,
           NEW bytes \in [0 .. (n - 1) -> Byte]
    PROVE  /\ IsTree(memory_write(t, dst, bytes))
           /\ \A a \in RamAddr : At(memory_write(t, dst, bytes), a) =
                 IF a \in Covered(dst, n) THEN bytes[a - dst] ELSE At(t, a)
<1> DEFINE covered == Covered(dst, n)
           ps == {Path[o] : o \in covered}
           u == Allocated(t, ps)
           at(p, i) == {o \in covered : Path[o] = p /\ get_section_offset_mask(o) = i}
           sec(p) == [i \in 0 .. (MEMORY_SECTION_SIZE - 1) |->
                         IF at(p, i) = {} THEN u.sections[p][i]
                         ELSE bytes[(CHOOSE o \in at(p, i) : TRUE) - dst]]
           secs == [p \in DOMAIN u.sections |-> sec(p)]
           made == [subtrees |-> u.subtrees, sections |-> secs]
<1>1. covered \subseteq RamAddr /\ \A o \in covered : o \in Nat /\ o - dst \in 0 .. (n - 1)
  <2>1. RamSize \in Nat
    BY RamFacts
  <2> QED
    BY <2>1 DEF Covered, RamAddr
<1>2. ps \in SUBSET Paths
  <2> HIDE DEF covered
  <2> QED
    BY <1>1, PathFacts
<1> HIDE DEF ps
<1>3. /\ IsTree(u) /\ DOMAIN u.sections = DOMAIN t.sections \cup ps
      /\ \A a \in RamAddr : At(u, a) = At(t, a)
  BY <1>2, AllocatedKeeps
<1>4. /\ u = [subtrees |-> u.subtrees, sections |-> u.sections]
      /\ u.subtrees \subseteq RowPaths /\ DOMAIN u.sections \subseteq Paths
      /\ u.sections \in [DOMAIN u.sections -> SectionBytes]
      /\ \A p \in DOMAIN u.sections, i \in 1 .. (MEMORY_TREE_DEPTH - 1) : SubSeq(p, 1, i) \in u.subtrees
  <2> HIDE DEF u
  <2> QED
    BY <1>3, TreeFacts
<1>5. memory_write(t, dst, bytes) = made
  <2>1. DOMAIN bytes = 0 .. (n - 1)
    OBVIOUS
  <2>2. Cardinality(DOMAIN bytes) = n
    BY <2>1, CountUpTo
  <2> DEFINE W(c) ==
                 LET cov == Covered(dst, c)
                     v == Allocated(t, {Path[o] : o \in cov})
                     here(p, i) == {o \in cov : Path[o] = p /\ get_section_offset_mask(o) = i}
                 IN  [v EXCEPT !.sections = [p \in DOMAIN v.sections |->
                         [i \in 0 .. (MEMORY_SECTION_SIZE - 1) |->
                             IF here(p, i) = {} THEN v.sections[p][i]
                             ELSE bytes[(CHOOSE o \in here(p, i) : TRUE) - dst]]]]
  <2>3. memory_write(t, dst, bytes) = W(Cardinality(DOMAIN bytes))
    BY DEF memory_write
  <2>4. W(n) = [u EXCEPT !.sections = secs]
    BY DEF ps
  <2> HIDE DEF W
  <2>5. memory_write(t, dst, bytes) = [u EXCEPT !.sections = secs]
    BY <2>2, <2>3, <2>4
  <2> HIDE DEF u, secs
  <2> QED
    BY <1>4, <2>5
<1> HIDE DEF u
<1>6. ASSUME NEW p \in DOMAIN u.sections
      PROVE  sec(p) \in SectionBytes
  <2>1. u.sections[p] \in SectionBytes
    BY <1>4
  <2>2. ASSUME NEW i \in 0 .. (MEMORY_SECTION_SIZE - 1), at(p, i) # {}
        PROVE  bytes[(CHOOSE o \in at(p, i) : TRUE) - dst] \in Byte
    <3> DEFINE c == CHOOSE o \in at(p, i) : TRUE
    <3>1. c \in at(p, i)
      BY <2>2
    <3>2. c \in covered
      BY <3>1
    <3> HIDE DEF c
    <3>3. c - dst \in 0 .. (n - 1)
      BY <1>1, <3>2
    <3>4. bytes[c - dst] \in Byte
      BY <3>3
    <3> QED
      BY <3>4 DEF c
  <2> HIDE DEF at
  <2>3. \A i \in 0 .. (MEMORY_SECTION_SIZE - 1) : u.sections[p][i] \in Byte
    BY <2>1 DEF SectionBytes
  <2> QED
    BY <2>2, <2>3 DEF SectionBytes
<1>7. secs \in [DOMAIN u.sections -> SectionBytes]
  <2> HIDE DEF sec
  <2> QED
    BY <1>6
<1>8. IsTree(made)
  <2> HIDE DEF secs
  <2> QED
    BY <1>4, <1>7, TreeMade
<1>9. made.sections = secs /\ DOMAIN secs = DOMAIN u.sections
  OBVIOUS
<1>10. ASSUME NEW a \in RamAddr
       PROVE  At(made, a) = IF a \in covered THEN bytes[a - dst] ELSE At(u, a)
  <2> DEFINE p == Path[a]
             i == get_section_offset_mask(a)
  <2>1. i \in 0 .. (MEMORY_SECTION_SIZE - 1)
    BY PathFacts
  <2>2. ASSUME NEW o \in at(p, i)
        PROVE  o = a
    <3>1. o \in covered /\ Path[o] = Path[a]
          /\ get_section_offset_mask(o) = get_section_offset_mask(a)
      OBVIOUS
    <3>2. o \in RamAddr
      BY <1>1, <3>1
    <3> QED
      BY <3>1, <3>2, OneAddress
  <2>3. a \in covered => a \in at(p, i) /\ p \in DOMAIN u.sections
    BY <1>3 DEF ps
  <2>4. CASE a \in covered
    <3>1. at(p, i) # {} /\ (CHOOSE o \in at(p, i) : TRUE) = a
      BY <2>2, <2>3, <2>4
    <3>2. p \in DOMAIN u.sections
      BY <2>3, <2>4
    <3>3. sec(p)[i] = bytes[a - dst]
      <4> HIDE DEF at, p, i
      <4> QED
        BY <2>1, <3>1
    <3>4. secs[p] = sec(p)
      BY <3>2
    <3> HIDE DEF sec, secs, made
    <3> QED
      BY <1>9, <2>4, <3>2, <3>3, <3>4 DEF At
  <2>5. CASE a \notin covered
    <3>1. at(p, i) = {}
      BY <2>2, <2>5
    <3>2. sec(p)[i] = u.sections[p][i]
      <4> HIDE DEF at, p, i
      <4> QED
        BY <2>1, <3>1
    <3>3. p \in DOMAIN u.sections => secs[p] = sec(p)
      OBVIOUS
    <3> HIDE DEF sec, secs, made
    <3> QED
      BY <1>9, <2>5, <3>2, <3>3 DEF At
  <2> QED
    BY <2>4, <2>5
<1> HIDE DEF made
<1> QED
  BY <1>3, <1>5, <1>8, <1>10

LEMMA WriteIsTree ==
    ASSUME NEW t, IsTree(t), NEW n \in Nat, NEW dst \in Nat, dst + n <= RamSize,
           NEW bytes \in [0 .. (n - 1) -> Byte]
    PROVE  IsTree(memory_write(t, dst, bytes))
BY WriteKeeps

LEMMA WriteAt ==
    ASSUME NEW t, IsTree(t), NEW n \in Nat, NEW dst \in Nat, dst + n <= RamSize,
           NEW bytes \in [0 .. (n - 1) -> Byte]
    PROVE  \A a \in RamAddr : At(memory_write(t, dst, bytes), a) =
              IF a \in Covered(dst, n) THEN bytes[a - dst] ELSE At(t, a)
BY WriteKeeps

LEMMA ReadByte ==
    ASSUME NEW t, NEW a \in RamAddr
    PROVE  memory_read(t, a, 1)[0] = At(t, a)
<1>1. 0 .. (1 - 1) = {0} /\ a + 0 = a
  BY RamFacts
<1>2. memory_read(t, a, 1)[0] =
          IF \E k \in 0 .. 0 : Path[a + k] \notin DOMAIN t.sections THEN 0
          ELSE t.sections[Path[a + 0]][get_section_offset_mask(a + 0)]
  BY <1>1 DEF memory_read
<1>3. \A k \in 0 .. 0 : a + k = a
  BY <1>1
<1>4. 0 \in 0 .. 0
  OBVIOUS
<1> QED
  BY <1>1, <1>2, <1>3, <1>4 DEF At

\* What Memory::read gives: the bytes that are there up to the first section that is not.
UpToGap(t, o, n) ==
    [j \in 0 .. (n - 1) |-> IF \E k \in 0 .. j : ~IsAllocated(t, o + k) THEN 0 ELSE At(t, o + j)]

LEMMA ReadUpToAGap ==
    ASSUME NEW t, NEW o \in Nat, NEW n \in Nat
    PROVE  memory_read(t, o, n) = UpToGap(t, o, n)
<1> SUFFICES ASSUME NEW j \in 0 .. (n - 1)
             PROVE  (IF \E k \in 0 .. j : Path[o + k] \notin DOMAIN t.sections THEN 0
                     ELSE t.sections[Path[o + j]][get_section_offset_mask(o + j)])
                    = (IF \E k \in 0 .. j : ~IsAllocated(t, o + k) THEN 0 ELSE At(t, o + j))
  BY DEF memory_read, UpToGap
<1>1. j \in 0 .. j
  OBVIOUS
<1> QED
  BY <1>1 DEF At, IsAllocated

\* Without a section that is missing in front of one that is there, that is all of it.
LEMMA NoGapAllThere ==
    ASSUME NEW t, NEW o \in Nat, NEW n \in Nat,
           ~\E a, b \in Covered(o, n) : a < b /\ ~IsAllocated(t, a) /\ IsAllocated(t, b)
    PROVE  UpToGap(t, o, n) = [j \in 0 .. (n - 1) |-> At(t, o + j)]
<1> SUFFICES ASSUME NEW j \in 0 .. (n - 1), NEW k \in 0 .. j, ~IsAllocated(t, o + k)
             PROVE  At(t, o + j) = 0
  BY DEF UpToGap
<1>1. o + k \in Covered(o, n) /\ o + j \in Covered(o, n) /\ o + k <= o + j
  BY DEF Covered
<1>2. CASE o + k = o + j
  BY <1>2 DEF At, IsAllocated
<1>3. CASE o + k < o + j
  <2>1. ~IsAllocated(t, o + j)
    BY <1>1, <1>3
  <2> QED
    BY <2>1 DEF At, IsAllocated
<1> QED
  BY <1>1, <1>2, <1>3 DEF Covered

\* A write allocates the sections it meets and no others.
Allocates(t, dst, n, u) ==
    \A a \in RamAddr :
        IsAllocated(u, a) <=>
            \/ IsAllocated(t, a)
            \/ \E b \in Covered(dst, n) :
                  a \div MEMORY_SECTION_SIZE = b \div MEMORY_SECTION_SIZE

LEMMA WriteAllocates ==
    ASSUME NEW t, IsTree(t), NEW n \in Nat, NEW dst \in Nat, dst + n <= RamSize,
           NEW bytes \in [0 .. (n - 1) -> Byte]
    PROVE  Allocates(t, dst, n, memory_write(t, dst, bytes))
<1> DEFINE ps == {Path[o] : o \in Covered(dst, n)}
<1>1. Covered(dst, n) \subseteq RamAddr
  BY RamFacts DEF Covered, RamAddr
<1>2. ps \in SUBSET Paths
  BY <1>1, PathFacts
<1>3. DOMAIN bytes = 0 .. (n - 1) /\ Cardinality(0 .. (n - 1)) = n
  BY CountUpTo
<1> HIDE DEF ps
<1> DEFINE u == Allocated(t, ps)
<1>4. DOMAIN u.sections = DOMAIN t.sections \cup ps /\ IsTree(u)
  BY <1>2, AllocatedKeeps
<1>5. u = [subtrees |-> u.subtrees, sections |-> u.sections]
  <2> HIDE DEF u
  <2> QED
    BY <1>4, TreeFacts
<1>6. DOMAIN memory_write(t, dst, bytes).sections = DOMAIN u.sections
  <2> DEFINE W(c) ==
                 LET cov == Covered(dst, c)
                     v == Allocated(t, {Path[o] : o \in cov})
                     here(p, i) == {o \in cov : Path[o] = p /\ get_section_offset_mask(o) = i}
                 IN  [v EXCEPT !.sections = [p \in DOMAIN v.sections |->
                         [i \in 0 .. (MEMORY_SECTION_SIZE - 1) |->
                             IF here(p, i) = {} THEN v.sections[p][i]
                             ELSE bytes[(CHOOSE o \in here(p, i) : TRUE) - dst]]]]
             at(p, i) == {o \in Covered(dst, n) : Path[o] = p /\ get_section_offset_mask(o) = i}
             secs == [p \in DOMAIN u.sections |->
                         [i \in 0 .. (MEMORY_SECTION_SIZE - 1) |->
                             IF at(p, i) = {} THEN u.sections[p][i]
                             ELSE bytes[(CHOOSE o \in at(p, i) : TRUE) - dst]]]
  <2>1. memory_write(t, dst, bytes) = W(Cardinality(DOMAIN bytes))
    BY DEF memory_write
  <2>2. W(n) = [u EXCEPT !.sections = secs]
    BY DEF ps
  <2>3. DOMAIN secs = DOMAIN u.sections
    OBVIOUS
  <2> HIDE DEF W, u, secs
  <2>4. memory_write(t, dst, bytes) = [u EXCEPT !.sections = secs]
    BY <1>3, <2>1, <2>2
  <2>5. [u EXCEPT !.sections = secs].sections = secs
    BY <1>5
  <2> QED
    BY <2>3, <2>4, <2>5
<1>7. ASSUME NEW a \in RamAddr
      PROVE  Path[a] \in ps <=> \E b \in Covered(dst, n) :
                 a \div MEMORY_SECTION_SIZE = b \div MEMORY_SECTION_SIZE
  <2>1. \A b \in Covered(dst, n) : Path[a] = Path[b] <=>
            a \div MEMORY_SECTION_SIZE = b \div MEMORY_SECTION_SIZE
    BY <1>1, SameSection
  <2> QED
    BY <2>1 DEF ps
<1> HIDE DEF u
<1> QED
  BY <1>4, <1>6, <1>7 DEF Allocates, IsAllocated

\* What a write compares with: the sections are allocated by then.
LEMMA HeldBytes ==
    ASSUME NEW t, IsTree(t), NEW o \in Nat, NEW n \in Nat, o + n <= RamSize
    PROVE  Held(t, o, n) = [j \in 0 .. (n - 1) |-> At(t, o + j)]
<1> DEFINE ps == {Path[a] : a \in Covered(o, n)}
           u == Allocated(t, ps)
<1>1. RamSize \in Nat
  BY RamFacts
<1>2. Covered(o, n) \subseteq RamAddr
  BY <1>1 DEF Covered, RamAddr
<1>3. ps \in SUBSET Paths
  BY <1>2, PathFacts
<1>4. \A j \in 0 .. (n - 1) : o + j \in Covered(o, n) /\ \A k \in 0 .. j : o + k \in Covered(o, n)
  BY DEF Covered
<1>5. \A a \in Covered(o, n) : Path[a] \in ps
  OBVIOUS
<1> HIDE DEF ps
<1>6. DOMAIN u.sections = DOMAIN t.sections \cup ps /\ \A a \in RamAddr : At(u, a) = At(t, a)
  BY <1>3, AllocatedKeeps
<1>7. Held(t, o, n) = memory_read(u, o, n)
  BY DEF Held, ps
<1> HIDE DEF u
<1>8. \A j \in 0 .. (n - 1) :
          (IF \E k \in 0 .. j : Path[o + k] \notin DOMAIN u.sections THEN 0
           ELSE u.sections[Path[o + j]][get_section_offset_mask(o + j)]) = At(t, o + j)
  <2> SUFFICES ASSUME NEW j \in 0 .. (n - 1)
               PROVE  (IF \E k \in 0 .. j : Path[o + k] \notin DOMAIN u.sections THEN 0
                       ELSE u.sections[Path[o + j]][get_section_offset_mask(o + j)]) = At(t, o + j)
    OBVIOUS
  <2>1. \A k \in 0 .. j : Path[o + k] \in DOMAIN u.sections
    BY <1>4, <1>5, <1>6
  <2>2. o + j \in RamAddr /\ Path[o + j] \in DOMAIN u.sections
    BY <1>2, <1>4, <1>5, <1>6
  <2>3. At(u, o + j) = At(t, o + j)
    BY <1>6, <2>2
  <2> QED
    BY <2>1, <2>2, <2>3 DEF At
<1>9. memory_read(u, o, n) = [j \in 0 .. (n - 1) |-> At(t, o + j)]
  BY <1>8 DEF memory_read
<1> QED
  BY <1>7, <1>9

\* What ProgramLoader leaves is a tree.
TreeSet == {t \in [subtrees : SUBSET RowPaths,
                   sections : UNION {[P -> SectionBytes] : P \in SUBSET Paths}] : IsTree(t)}

LEMMA TreesAreASet == \A t : t \in TreeSet <=> IsTree(t)
<1> SUFFICES ASSUME NEW t, IsTree(t) PROVE t \in TreeSet
  BY DEF TreeSet
<1> DEFINE rows == t.subtrees
           secs == t.sections
           P == DOMAIN secs
<1>1. t = [subtrees |-> rows, sections |-> secs] /\ rows \in SUBSET RowPaths
      /\ P \in SUBSET Paths /\ secs \in [P -> SectionBytes]
  BY TreeFacts
<1> HIDE DEF rows, secs, P
<1>2. secs \in UNION {[Q -> SectionBytes] : Q \in SUBSET Paths}
  BY <1>1
<1> QED
  BY <1>1, <1>2 DEF TreeSet

LEMMA EmptyIsTree == IsTree(EmptyTree)
<1> DEFINE none == [p \in {} |-> 0]
<1>1. none \in [{} -> SectionBytes]
  OBVIOUS
<1> HIDE DEF none
<1>2. IsTree([subtrees |-> {}, sections |-> none])
  BY <1>1, TreeMade
<1> QED
  BY <1>2 DEF EmptyTree, none

LEMMA SegmentKeeps ==
    ASSUME NEW k \in 1 .. Len(Segments), NEW t, IsTree(t)
    PROVE  IsTree(memory_write(t, Segments[k].vaddr, Segments[k].bytes))
<1> DEFINE a == Segments[k].vaddr
           b == Segments[k].bytes
<1>1. PICK n \in 1 .. RamSize :
          Segments[k] \in [vaddr : 0 .. (RamSize - n), bytes : [0 .. (n - 1) -> Byte]]
  BY MemoryAssumption DEF MemoryAssumption
<1>2. RamSize \in Nat
  BY RamFacts
<1>3. n \in Nat /\ a \in 0 .. (RamSize - n) /\ b \in [0 .. (n - 1) -> Byte]
  BY <1>1, <1>2
<1> HIDE DEF a, b
<1>4. a \in Nat /\ a + n <= RamSize
  BY <1>2, <1>3
<1>5. IsTree(memory_write(t, a, b))
  BY <1>3, <1>4, WriteIsTree
<1> QED
  BY <1>5 DEF a, b

LEMMA LoadedIsTree == IsTree(to_memory(Segments))
<1> DEFINE n == Len(Segments)
           S == TreeSet
           W(t, k) == memory_write(t, Segments[k].vaddr, Segments[k].bytes)
           step == [x \in (1 .. n) \X S |-> W(x[2], x[1])]
           Eqn(f) == f = [k \in 0 .. n |-> IF k = 0 THEN EmptyTree ELSE W(f[k - 1], k)]
<1>1. EmptyTree \in S /\ n \in Nat
  <2>1. Segments \in Seq({Segments[k] : k \in DOMAIN Segments})
    BY MemoryAssumption DEF MemoryAssumption
  <2>2. n \in Nat
    BY <2>1, LenProperties
  <2> QED
    BY <2>2, EmptyIsTree, TreesAreASet
<1>2. \A k \in 1 .. n, t \in S : W(t, k) \in S
  BY SegmentKeeps, TreesAreASet
<1>3. step \in [(1 .. n) \X S -> S]
  <2> HIDE DEF W, S, n
  <2>1. \A x \in (1 .. n) \X S : x[1] \in 1 .. n /\ x[2] \in S
    OBVIOUS
  <2>2. \A x \in (1 .. n) \X S : W(x[2], x[1]) \in S
    BY <1>2, <2>1
  <2> QED
    BY <2>2
<1>a. ASSUME NEW k \in 1 .. n, NEW t \in S
      PROVE  step[<<k, t>>] = W(t, k)
  <2> HIDE DEF W, S, n, step
  <2>1. <<k, t>> \in (1 .. n) \X S
    OBVIOUS
  <2>2. step[<<k, t>>] = W(<<k, t>>[2], <<k, t>>[1])
    BY <2>1 DEF step
  <2> QED
    BY <2>2
<1>4. \E f : Eqn(f)
  <2> HIDE DEF step, S, n, W
  <2>1. PICK f : Steps(f, n, EmptyTree, step)
    BY <1>1, StepsExist
  <2>2. f \in [0 .. n -> S] /\ f[0] = EmptyTree /\ \A k \in 1 .. n : f[k] = step[<<k, f[k - 1]>>]
    BY <1>1, <1>3, <2>1, StepsFacts
  <2>3. \A k \in 1 .. n : k - 1 \in 0 .. n
    BY <1>1
  <2>4. \A k \in 1 .. n : f[k] = W(f[k - 1], k)
    BY <1>a, <2>2, <2>3
  <2>5. \A k \in 0 .. n : k = 0 \/ k \in 1 .. n
    BY <1>1
  <2>6. \A k \in 0 .. n : f[k] = IF k = 0 THEN EmptyTree ELSE W(f[k - 1], k)
    BY <2>2, <2>4, <2>5
  <2>7. Eqn(f)
    BY <2>2, <2>6
  <2> QED
    BY <2>7
<1> DEFINE g == CHOOSE f : Eqn(f)
<1>5. to_memory(Segments) = g[n]
  BY DEF to_memory
<1>6. Eqn(g)
  <2> HIDE DEF Eqn
  <2> QED
    BY <1>4
<1> HIDE DEF g
<1>7. /\ g = [k \in 0 .. n |-> g[k]]
      /\ \A k \in 0 .. n : g[k] = IF k = 0 THEN EmptyTree ELSE W(g[k - 1], k)
  <2> HIDE DEF W
  <2> QED
    BY <1>6
<1>8. n \in 0 .. n /\ 0 \in 0 .. n /\ \A k \in 1 .. n : k \in 0 .. n /\ k # 0
  BY <1>1
<1> HIDE DEF step, S, n, W
<1>9. g[0] = EmptyTree /\ \A k \in 1 .. n : g[k] = W(g[k - 1], k)
  BY <1>7, <1>8
<1>10. KeepsTo(g, n, S, EmptyTree, step)
  BY <1>a, <1>7, <1>9 DEF KeepsTo
<1>11. g \in [0 .. n -> S]
  BY <1>1, <1>3, <1>10, StepsStay
<1>12. g[n] \in TreeSet
  BY <1>8, <1>11 DEF S
<1> QED
  BY <1>5, <1>12, TreesAreASet

-----------------------------------------------------------------------------
(* Byte orders.                                                             *)
SetupOk == /\ setup.use \in Uses
           /\ setup.native \in {"LITTLE", "BIG"}
           /\ setup.simulated \in {"LITTLE", "BIG"}

LEMMA SwapTwice ==
    ASSUME NEW n \in Nat, NEW S, NEW v \in [0 .. (n - 1) -> S]
    PROVE  /\ Swapped(v) \in [0 .. (n - 1) -> S]
           /\ Swapped(Swapped(v)) = v
<1>1. \A w \in [0 .. (n - 1) -> S] : Swapped(w) = [i \in 0 .. (n - 1) |-> w[n - 1 - i]]
  <2> SUFFICES ASSUME NEW w \in [0 .. (n - 1) -> S]
               PROVE  Swapped(w) = [i \in 0 .. (n - 1) |-> w[n - 1 - i]]
    OBVIOUS
  <2>1. DOMAIN w = 0 .. (n - 1)
    OBVIOUS
  <2>2. Cardinality(DOMAIN w) = n
    BY <2>1, CountUpTo
  <2> QED
    BY <2>1, <2>2 DEF Swapped
<1> DEFINE w == [i \in 0 .. (n - 1) |-> v[n - 1 - i]]
<1>2. \A i \in 0 .. (n - 1) : n - 1 - i \in 0 .. (n - 1) /\ n - 1 - (n - 1 - i) = i
  OBVIOUS
<1>3. w \in [0 .. (n - 1) -> S]
  BY <1>2
<1>4. \A i \in 0 .. (n - 1) : w[n - 1 - i] = v[i]
  BY <1>2
<1>5. Swapped(v) = w
  BY <1>1
<1> HIDE DEF w
<1>6. Swapped(w) = [i \in 0 .. (n - 1) |-> v[i]]
  BY <1>1, <1>3, <1>4
<1> QED
  BY <1>3, <1>5, <1>6

\* The corrections of the frontend leave what the simulated machine means.
LEMMA OrderFacts ==
    ASSUME SetupOk, NEW n \in Nat, NEW S, NEW v \in [0 .. (n - 1) -> S]
    PROVE  /\ Native(byteswap_if(v, Foreign)) = Simulated(v)
           /\ byteswap_if(Native(v), Foreign) = Simulated(v)
           /\ Simulated(v) \in [0 .. (n - 1) -> S]
           /\ Native(v) \in [0 .. (n - 1) -> S]
           /\ byteswap_if(v, Foreign) \in [0 .. (n - 1) -> S]
           /\ Simulated(Simulated(v)) = v
           /\ Native(Native(v)) = v
           /\ byteswap_if(byteswap_if(v, Foreign), Foreign) = v
<1>1. Swapped(v) \in [0 .. (n - 1) -> S] /\ Swapped(Swapped(v)) = v
  BY SwapTwice
<1> QED
  BY <1>1 DEF SetupOk, Native, Foreign, Simulated, byteswap_if

LEMMA SimulatedTwice ==
    ASSUME SetupOk, NEW n \in Nat, NEW S, NEW v \in [0 .. (n - 1) -> S]
    PROVE  Simulated(Simulated(v)) = v
<1>1. Swapped(Swapped(v)) = v
  BY SwapTwice
<1> QED
  BY <1>1 DEF Simulated, byteswap_if

LEMMA SizeFacts ==
    ASSUME NEW ctl \in DOMAIN CtlSize
    PROVE  CtlSize[ctl] \in {1, 2, 4, 8}
BY DEF CtlSize

LEMMA LowFacts ==
    ASSUME NEW n \in {1, 2, 4, 8}, NEW S, NEW v \in [0 .. 7 -> S]
    PROVE  Low(v, n) \in [0 .. (n - 1) -> S]
BY DEF Low

LEMMA ExtendedFacts ==
    ASSUME NEW ctl, NEW n \in {1, 2, 4, 8}, NEW v \in [0 .. (n - 1) -> Byte]
    PROVE  Low(Extended(ctl, v), n) = v
<1>1. DOMAIN v = 0 .. (n - 1) /\ n \in Nat
  OBVIOUS
<1>2. Cardinality(DOMAIN v) = n
  BY <1>1, CountUpTo
<1>3. \A i \in 0 .. (n - 1) : i \in 0 .. 7 /\ i < n
  OBVIOUS
<1>4. \A i \in 0 .. (n - 1) : Extended(ctl, v)[i] = v[i]
  BY <1>2, <1>3 DEF Extended
<1> QED
  BY <1>1, <1>4 DEF Low

-----------------------------------------------------------------------------
LEMMA FindOne ==
    ASSUME BusInv, NEW a \in Nat, NEW r \in find_range(a)
    PROVE  /\ find_range(a) = {r}
           /\ r \in Mappings /\ r \in Ranges
           /\ r.start \in Nat /\ r.last \in Nat /\ r.start <= a /\ a <= r.last
           /\ contains(r, a)
<1>1. ASSUME NEW q \in find_range(a)
      PROVE  q \in LowerBound(a) /\ q \in Mappings /\ q.last \in DOMAIN ranges_by_addr
             /\ ranges_by_addr[q.last] = q /\ q.last >= a /\ q.last \in Nat
  <2>1. q \in LowerBound(a)
    BY DEF find_range
  <2> QED
    BY <2>1, LowerBoundFacts, MappingFacts
<1>2. ASSUME NEW q \in find_range(a)
      PROVE  q = r
  <2>1. r.last <= q.last
    BY <1>1, LowerBoundFacts
  <2>2. q.last <= r.last
    BY <1>1, LowerBoundFacts
  <2>3. q.last = r.last
    BY <1>1, <2>1, <2>2
  <2> QED
    BY <1>1, <2>3
<1>3. contains(r, a)
  BY DEF find_range
<1>4. r \in Ranges
  BY <1>1 DEF Ranges
<1> QED
  BY <1>1, <1>2, <1>3, <1>4, MappingFacts DEF contains

-----------------------------------------------------------------------------
(* The steps of the memory behind the bus.                                  *)
RamInv == /\ BusInv /\ SetupOk
          /\ IsTree(ram)
          /\ mem_program_only = to_memory(Segments)

\* the memory's range at an address
AtRam(addr) == {r \in find_range(addr) : r.device = "mem"}

LEMMA UseFacts ==
    ASSUME SetupOk
    PROVE  /\ setup.use.plugged \subseteq Mappings
           /\ setup.use.knobs \subseteq 0 .. 3
           /\ \A r \in setup.use.accesses : r[1] \in DOMAIN CtlSize /\ r[2] \in Nat
           /\ \A v \in setup.use.values : v \in [0 .. 7 -> Byte]
           /\ \A m \in Mappings, r \in setup.use.accesses : m.device = "mem" /\ contains(m, r[2]) =>
                 r[2] - m.start + CtlSize[r[1]] <= RamSize
<1> DEFINE u == setup.use
<1>1. u \in Uses
  BY DEF SetupOk
<1> HIDE DEF u
<1>2. /\ u.plugged \subseteq Mappings /\ u.accesses \subseteq (DOMAIN CtlSize) \X Nat
      /\ u.values \subseteq [0 .. 7 -> Byte] /\ u.knobs \subseteq 0 .. 3
      /\ \A m \in Mappings, r \in u.accesses : m.device = "mem" /\ contains(m, r[2]) =>
            r[2] - m.start + CtlSize[r[1]] <= RamSize
  BY <1>1, UsesAssumption DEF UsesAssumption
<1>3. \A r \in u.accesses : r[1] \in DOMAIN CtlSize /\ r[2] \in Nat
  BY <1>2
<1> QED
  BY <1>2, <1>3 DEF u

\* An access that the bus leads to the memory.
LEMMA RamAccess ==
    ASSUME BusInv, SetupOk, NEW r \in setup.use.accesses, NEW m \in AtRam(r[2])
    PROVE  LET o == r[2] - m.start
               n == CtlSize[r[1]]
           IN  /\ o \in RamAddr /\ o \in Nat /\ n \in {1, 2, 4, 8}
               /\ o + n <= RamSize
               /\ find_range(r[2]) = {m} /\ AtRam(r[2]) = {m}
               /\ [addr |-> o, size |-> n] \in RamRequests
<1> DEFINE o == r[2] - m.start
           n == CtlSize[r[1]]
           u == setup.use
<1>1. r[1] \in DOMAIN CtlSize /\ r[2] \in Nat /\ u \in Uses
  BY UseFacts DEF SetupOk
<1>2. m \in find_range(r[2]) /\ m.device = "mem"
  BY DEF AtRam
<1>3. /\ find_range(r[2]) = {m} /\ m \in Mappings /\ contains(m, r[2])
      /\ m.start \in Nat /\ m.start <= r[2]
  BY <1>1, <1>2, FindOne
<1>4. AtRam(r[2]) = {m}
  BY <1>2, <1>3 DEF AtRam
<1>5. n \in {1, 2, 4, 8}
  BY <1>1, SizeFacts
<1>6. o + n <= RamSize
  BY <1>2, <1>3, UseFacts
<1>7. [addr |-> o, size |-> n] \in RamRequests
  <2> DEFINE Z == {[addr |-> q[2] - m.start, size |-> CtlSize[q[1]]] :
                      q \in {q \in u.accesses : contains(m, q[2])}}
  <2>1. [addr |-> o, size |-> n] \in Z
    BY <1>3
  <2>2. Z \in {{[addr |-> q[2] - k.start, size |-> CtlSize[q[1]]] :
                   q \in {q \in w.accesses : contains(k, q[2])}} :
                  w \in Uses, k \in {k \in Mappings : k.device = "mem"}}
    BY <1>1, <1>2, <1>3
  <2> HIDE DEF Z
  <2> QED
    BY <2>1, <2>2 DEF RamRequests
<1>8. o \in Nat
  BY <1>1, <1>3
<1> HIDE DEF o, n
<1>9. o \in RamAddr
  BY <1>5, <1>6, <1>8, RamFacts
<1> QED
  BY <1>3, <1>4, <1>5, <1>6, <1>7, <1>8, <1>9 DEF o, n

LEMMA EventAfter ==
    ASSUME UNCHANGED <<busVars, setup>>, NEW op \in {"read", "write"}, NEW ctl, NEW addr, NEW v,
           last' = Access(op, ctl, addr, v)
    PROVE  LET o == addr - (CHOOSE r \in AtRam(addr) : TRUE).start
               data == Simulated(Low(v, CtlSize[ctl]))
           IN  /\ last'.op = op /\ last'.ctl = ctl
               /\ RamRange' = AtRam(addr) /\ RamOffset' = o /\ RamData' = data
               /\ RamEvent' = IF AtRam(addr) = {} \/ CutShort' THEN Flat!NoEvent
                              ELSE Flat!Event(op, o, data)
<1> DEFINE o == addr - (CHOOSE r \in AtRam(addr) : TRUE).start
           data == Simulated(Low(v, CtlSize[ctl]))
<1>1. last'.op = op /\ last'.ctl = ctl /\ last'.addr = addr /\ last'.value = v
  BY DEF Access
<1>2. RamRange' = AtRam(addr)
  BY <1>1 DEF RamRange, AtRam, find_range, LowerBound, Ranges, busVars
<1>3. op # "none" /\ op # "restart"
  OBVIOUS
<1>4. RamData' = data
  BY <1>1 DEF RamData, Simulated, byteswap_if
<1>5. RamOffset' = o
  BY <1>1, <1>2 DEF RamOffset
<1> HIDE DEF o, data
<1>6. RamEvent' = IF AtRam(addr) = {} \/ CutShort' THEN Flat!NoEvent
                  ELSE Flat!Event(op, o, data)
  BY <1>1, <1>2, <1>3, <1>4, <1>5 DEF RamEvent, Flat!NoEvent, Flat!Event
<1> QED
  BY <1>1, <1>2, <1>4, <1>5, <1>6 DEF o, data

LEMMA ContentBytes ==
    /\ Content = [a \in RamAddr |-> At(ram, a)]
    /\ Content' = [a \in RamAddr |-> At(ram', a)]
<1>1. \A a \in RamAddr : memory_read(ram, a, 1)[0] = At(ram, a)
  BY ReadByte
<1>2. \A a \in RamAddr : memory_read(ram', a, 1)[0] = At(ram', a)
  BY ReadByte
<1> QED
  BY <1>1, <1>2 DEF Content

\* The bytes a write puts on the bus.
LEMMA BusBytes ==
    ASSUME SetupOk, NEW ctl \in DOMAIN CtlSize, NEW v \in [0 .. 7 -> Byte]
    PROVE  LET n == CtlSize[ctl]
               b == Native(byteswap_if(Low(v, n), Foreign))
           IN  b = Simulated(Low(v, n)) /\ b \in [0 .. (n - 1) -> Byte]
<1> DEFINE n == CtlSize[ctl]
           w == Low(v, n)
<1>1. n \in {1, 2, 4, 8} /\ n \in Nat
  BY SizeFacts
<1>2. w \in [0 .. (n - 1) -> Byte]
  BY <1>1, LowFacts
<1>a. n \in Nat
  BY <1>1
<1> HIDE DEF n, w
<1>b. Native(byteswap_if(w, Foreign)) = Simulated(w)
  BY <1>2, <1>a, OrderFacts
<1>3. Native(byteswap_if(w, Foreign)) = Simulated(w) /\ Simulated(w) \in [0 .. (n - 1) -> Byte]
  BY <1>2, <1>a, <1>b, OrderFacts
<1> QED
  BY <1>3 DEF n, w

LEMMA SameBus ==
    ASSUME BusInv, UNCHANGED busVars
    PROVE  BusInv'
<1>1. UNCHANGED <<ranges_by_addr, ranges_by_device>> /\ alive' = alive /\ alive \subseteq Devices
  BY DEF busVars, BusInv, BusTypeOK
<1> QED
  BY <1>1, BusStutter

\* What a step does to the set of sections.
SectionStep ==
    \A a \in RamAddr :
        IsAllocated(ram', a) <=>
            IF last'.op = "restart" THEN IsAllocated(to_memory(Segments), a)
            ELSE \/ IsAllocated(ram, a)
                 \/ /\ last'.op = "write" /\ RamRange' # {}
                    /\ \E b \in Covered(RamOffset, CtlSize[last.ctl])' :
                          a \div MEMORY_SECTION_SIZE = b \div MEMORY_SECTION_SIZE

LEMMA NoSectionMade ==
    ASSUME ram' = ram, last'.op # "restart", last'.op # "write" \/ RamRange' = {}
    PROVE  SectionStep
BY DEF SectionStep, IsAllocated

LEMMA WriteRamIsFlat ==
    ASSUME RamInv, NEW r \in setup.use.accesses, NEW v \in setup.use.values,
           write_ctl(r[1], r[2], v)
    PROVE  RamInv' /\ Flat!Next /\ ReadUpToGap' /\ SectionStep
<1> DEFINE n == CtlSize[r[1]]
           addr == r[2]
           bytes == Native(byteswap_if(Low(v, n), Foreign))
<1>1. /\ BusInv /\ SetupOk /\ IsTree(ram) /\ mem_program_only = to_memory(Segments)
      /\ r[1] \in DOMAIN CtlSize /\ addr \in Nat /\ v \in [0 .. 7 -> Byte]
  BY UseFacts DEF RamInv
<1>2. bytes = Simulated(Low(v, n)) /\ bytes \in [0 .. (n - 1) -> Byte]
  BY <1>1, BusBytes
<1>3. /\ bus_write(addr, bytes) /\ last' = Access("write", r[1], addr, v)
      /\ UNCHANGED <<busVars, mem_program_only, setup>>
  BY DEF write_ctl
<1>4. BusInv' /\ SetupOk' /\ mem_program_only' = to_memory(Segments)
  <2>1. BusInv'
    BY <1>1, <1>3, SameBus
  <2>2. SetupOk'
    BY <1>1, <1>3 DEF SetupOk
  <2> QED
    BY <1>1, <1>3, <2>1, <2>2
<1>5. /\ last'.op = "write" /\ last'.ctl = r[1] /\ RamRange' = AtRam(addr)
      /\ RamOffset' = addr - (CHOOSE m \in AtRam(addr) : TRUE).start
      /\ RamEvent' = IF AtRam(addr) = {} THEN Flat!NoEvent
                     ELSE Flat!Event("write", addr - (CHOOSE m \in AtRam(addr) : TRUE).start, bytes)
  <2> DEFINE off == addr - (CHOOSE m \in AtRam(addr) : TRUE).start
  <2>1. /\ last'.op = "write" /\ last'.ctl = r[1] /\ RamRange' = AtRam(addr) /\ RamOffset' = off
        /\ RamEvent' = IF AtRam(addr) = {} \/ CutShort' THEN Flat!NoEvent
                       ELSE Flat!Event("write", off, Simulated(Low(v, n)))
    <3>1. "write" \in {"read", "write"}
      OBVIOUS
    <3> QED
      BY <1>3, <3>1, EventAfter
  <2>2. ~CutShort'
    BY <2>1 DEF CutShort
  <2> HIDE DEF off
  <2>3. RamEvent' = IF AtRam(addr) = {} THEN Flat!NoEvent ELSE Flat!Event("write", off, bytes)
    BY <1>2, <2>1, <2>2
  <2> QED
    BY <2>1, <2>3 DEF off
<1>a. ReadUpToGap'
  BY <1>5 DEF ReadUpToGap
<1> HIDE DEF bytes
<1>6. CASE AtRam(addr) = {}
  <2>1. ram' = ram
    <3>1. \A m \in find_range(addr) : m.device # "mem"
      BY <1>6 DEF AtRam
    <3> QED
      BY <1>3, <3>1 DEF bus_write, WriteLed, WriteLcd
  <2>2. Content' = Content
    BY <2>1 DEF Content
  <2>3. Flat!Quiet
    BY <1>5, <1>6, <2>2 DEF Flat!Quiet
  <2>4. SectionStep
    BY <1>5, <1>6, <2>1, NoSectionMade
  <2> QED
    BY <1>1, <1>4, <1>a, <2>1, <2>3, <2>4 DEF RamInv, Flat!Next
<1>7. CASE AtRam(addr) # {}
  <2>1. PICK m \in AtRam(addr) : TRUE
    BY <1>7
  <2> DEFINE o == addr - m.start
             req == [addr |-> o, size |-> n]
  <2>2. /\ o \in RamAddr /\ o \in Nat /\ n \in {1, 2, 4, 8} /\ o + n <= RamSize
        /\ find_range(addr) = {m} /\ AtRam(addr) = {m} /\ req \in RamRequests
    BY <1>1, RamAccess
  <2>3. m.device = "mem"
    BY DEF AtRam
  <2>4. WriteRam(o, bytes)
    BY <1>3, <2>2, <2>3 DEF bus_write
  <2>5. ram' = memory_write(ram, o, bytes)
    BY <2>4 DEF WriteRam
  <2>6. RamEvent' = Flat!Event("write", o, bytes) /\ RamOffset' = o
    <3>1. (CHOOSE k \in AtRam(addr) : TRUE) = m
      BY <2>2
    <3> QED
      BY <1>5, <1>7, <3>1
  <2>a. Covered(RamOffset, CtlSize[last.ctl])' = Covered(o, n)
    BY <1>5, <2>6 DEF Covered
  <2> HIDE DEF o, n
  <2>7. IsTree(ram') /\ \A a \in RamAddr : At(ram', a) =
                            IF a \in Covered(o, n) THEN bytes[a - o] ELSE At(ram, a)
    <3>1. n \in Nat
      BY <2>2
    <3>2. /\ IsTree(ram) /\ o \in Nat /\ o + n <= RamSize
          /\ bytes \in [0 .. (n - 1) -> Byte]
      BY <1>1, <1>2, <2>2
    <3>3. IsTree(memory_write(ram, o, bytes))
      BY <3>1, <3>2, WriteIsTree
    <3>4. \A a \in RamAddr : At(memory_write(ram, o, bytes), a) =
             IF a \in Covered(o, n) THEN bytes[a - o] ELSE At(ram, a)
      BY <3>1, <3>2, WriteAt
    <3> QED
      BY <2>5, <3>3, <3>4
  <2>8. bytes \in [0 .. (n - 1) -> WrittenBytes]
    <3>1. \A i \in 0 .. 7 : v[i] \in WrittenBytes
      BY <1>1 DEF WrittenBytes, SetupOk
    <3>2. v \in [0 .. 7 -> WrittenBytes]
      BY <1>1, <3>1
    <3>3. Low(v, n) \in [0 .. (n - 1) -> WrittenBytes]
      BY <2>2, <3>2, LowFacts
    <3>4. n \in Nat
      BY <2>2
    <3> QED
      BY <1>1, <1>2, <3>3, <3>4, OrderFacts
  <2>9. Content' = [a \in RamAddr |-> IF a \in o .. (o + n - 1) THEN bytes[a - o] ELSE Content[a]]
    BY <2>7, ContentBytes DEF Covered
  <2>10. req.addr = o /\ req.size = n
    OBVIOUS
  <2> HIDE DEF req
  <2>11. Flat!Write(req, bytes)
    BY <2>6, <2>9, <2>10 DEF Flat!Write
  <2>12. Flat!Next
    BY <2>2, <2>8, <2>10, <2>11 DEF Flat!Next
  <2>13. SectionStep
    <3>1. n \in Nat /\ IsTree(ram) /\ o \in Nat /\ o + n <= RamSize /\ bytes \in [0 .. (n - 1) -> Byte]
      BY <1>1, <1>2, <2>2 DEF n
    <3>2. Allocates(ram, o, n, ram')
      BY <2>5, <3>1, WriteAllocates
    <3>3. last'.op = "write" /\ RamRange' # {}
      BY <1>5, <1>7
    <3> QED
      BY <2>a, <3>2, <3>3 DEF Allocates, SectionStep
  <2> QED
    BY <1>1, <1>4, <1>a, <2>7, <2>12, <2>13 DEF RamInv
<1> QED
  BY <1>6, <1>7

LEMMA ReadRamIsFlat ==
    ASSUME RamInv, NEW r \in setup.use.accesses, read_ctl(r[1], r[2])
    PROVE  RamInv' /\ Flat!Next /\ ReadUpToGap' /\ SectionStep
<1> DEFINE n == CtlSize[r[1]]
           addr == r[2]
           value == Extended(r[1], read_generic(addr, n))
<1>1. /\ BusInv /\ SetupOk /\ IsTree(ram) /\ mem_program_only = to_memory(Segments)
      /\ r[1] \in DOMAIN CtlSize /\ addr \in Nat
  BY UseFacts DEF RamInv
<1>2. /\ last' = Access("read", r[1], addr, value)
      /\ UNCHANGED <<busVars, ram, mem_program_only, setup>>
  BY DEF read_ctl
<1>3. RamInv'
  <2>1. BusInv'
    BY <1>1, <1>2, SameBus
  <2>2. SetupOk'
    BY <1>1, <1>2 DEF SetupOk
  <2> QED
    BY <1>1, <1>2, <2>1, <2>2 DEF RamInv
<1>4. Content' = Content
  BY <1>2 DEF Content
<1> HIDE DEF value
<1>5. /\ last'.op = "read" /\ last'.ctl = r[1] /\ RamRange' = AtRam(addr)
      /\ RamOffset' = addr - (CHOOSE m \in AtRam(addr) : TRUE).start
      /\ RamData' = Simulated(Low(value, n))
      /\ RamEvent' = IF AtRam(addr) = {} \/ CutShort' THEN Flat!NoEvent
                     ELSE Flat!Event("read", addr - (CHOOSE m \in AtRam(addr) : TRUE).start,
                                     Simulated(Low(value, n)))
  <2>1. "read" \in {"read", "write"}
    OBVIOUS
  <2> QED
    BY <1>2, <2>1, EventAfter
<1>a. SectionStep
  BY <1>2, <1>5, NoSectionMade
<1>6. CASE AtRam(addr) = {}
  <2>1. Flat!Quiet
    BY <1>4, <1>5, <1>6 DEF Flat!Quiet
  <2>2. ReadUpToGap'
    BY <1>5, <1>6 DEF ReadUpToGap
  <2> QED
    BY <1>3, <1>a, <2>1, <2>2 DEF Flat!Next
<1>7. CASE AtRam(addr) # {}
  <2>1. PICK m \in AtRam(addr) : TRUE
    BY <1>7
  <2> DEFINE o == addr - m.start
             req == [addr |-> o, size |-> n]
             whole == [j \in 0 .. (n - 1) |-> At(ram, o + j)]
             data == UpToGap(ram, o, n)
  <2>2. /\ o \in RamAddr /\ o \in Nat /\ n \in {1, 2, 4, 8} /\ o + n <= RamSize
        /\ find_range(addr) = {m} /\ AtRam(addr) = {m} /\ req \in RamRequests
    BY <1>1, RamAccess
  <2>3. \A j \in 0 .. (n - 1) : o + j \in RamAddr
    BY <2>2, RamFacts
  <2>4. bus_read(addr, n) = data
    <3>1. m.device = "mem"
      BY DEF AtRam
    <3>2. {k \in find_range(addr) : k.device = "mem"} = {m}
      BY <2>2, <3>1
    <3>3. bus_read(addr, n) = memory_read(ram, o, n)
      BY <3>2 DEF bus_read
    <3>4. n \in Nat
      BY <2>2
    <3> HIDE DEF o, n
    <3>5. memory_read(ram, o, n) = UpToGap(ram, o, n)
      BY <2>2, <3>4, ReadUpToAGap
    <3> QED
      BY <3>3, <3>5
  <2>5. data \in [0 .. (n - 1) -> Byte]
    <3>1. \A a \in RamAddr : At(ram, a) \in Byte
      <4> SUFFICES ASSUME NEW a \in RamAddr PROVE At(ram, a) \in Byte
        OBVIOUS
      <4>1. /\ get_section_offset_mask(a) \in 0 .. (MEMORY_SECTION_SIZE - 1)
            /\ ram.sections \in [DOMAIN ram.sections -> SectionBytes]
        BY <1>1, PathFacts, TreeFacts
      <4>2. Path[a] \in DOMAIN ram.sections => ram.sections[Path[a]] \in SectionBytes
        BY <4>1
      <4>3. 0 \in Byte
        BY DEF Byte
      <4> QED
        BY <4>1, <4>2, <4>3 DEF At, SectionBytes
    <3>2. 0 \in Byte
      BY DEF Byte
    <3> QED
      BY <2>3, <3>1, <3>2 DEF UpToGap
  <2>6. /\ RamOffset' = o
        /\ ~CutShort' => RamEvent' = Flat!Event("read", o, Simulated(Low(value, n)))
    <3>1. (CHOOSE k \in AtRam(addr) : TRUE) = m
      BY <2>2
    <3> QED
      BY <1>5, <1>7, <3>1
  <2>7. Simulated(Low(value, n)) = data
    <3> HIDE DEF data, n
    <3>1. n \in Nat
      BY <2>2
    <3>2. byteswap_if(Native(data), Foreign) = Simulated(data) /\ Simulated(data) \in [0 .. (n - 1) -> Byte]
      <4>1. byteswap_if(Native(data), Foreign) = Simulated(data)
        BY <1>1, <2>5, <3>1, OrderFacts
      <4>2. Simulated(data) \in [0 .. (n - 1) -> Byte]
        BY <1>1, <2>5, <3>1, OrderFacts
      <4> QED
        BY <4>1, <4>2
    <3>3. value = Extended(r[1], Simulated(data))
      BY <2>4, <3>2 DEF value, read_generic, n
    <3>4. Low(value, n) = Simulated(data)
      <4> DEFINE w == Simulated(data)
      <4>1. n \in {1, 2, 4, 8} /\ w \in [0 .. (n - 1) -> Byte]
        BY <2>2, <3>2
      <4> HIDE DEF w
      <4>2. Low(Extended(r[1], w), n) = w
        BY <4>1, ExtendedFacts
      <4> QED
        BY <3>3, <4>2 DEF w
    <3>5. Simulated(Simulated(data)) = data
      BY <1>1, <2>5, <3>1, SimulatedTwice
    <3> QED
      BY <3>4, <3>5
  <2>8. whole = [i \in 0 .. (n - 1) |-> Content[o + i]]
    BY <2>3, ContentBytes
  <2>9. req.addr = o /\ req.size = n
    OBVIOUS
  <2>a. CtlSize[last.ctl]' = n
    BY <1>5
  <2>b. RamRange' # {}
    BY <1>5, <1>7
  <2> HIDE DEF req, o, n
  <2>10. ASSUME CutShort' PROVE Flat!Next
    <3>1. RamEvent' = Flat!NoEvent
      BY <1>5, <2>10
    <3> QED
      BY <1>4, <3>1 DEF Flat!Quiet, Flat!Next
  <2>11. ASSUME ~CutShort' PROVE Flat!Next
    <3>1. ~\E a, b \in Covered(o, n) : a < b /\ ~IsAllocated(ram, a) /\ IsAllocated(ram, b)
      <4>1. last'.op = "read" /\ RamRange' # {} /\ ram' = ram
        BY <1>2, <1>5, <2>b
      <4> QED
        BY <2>6, <2>11, <2>a, <4>1 DEF CutShort, Covered, IsAllocated
    <3>2. n \in Nat
      BY <2>2
    <3>3. data = whole
      BY <2>2, <3>1, <3>2, NoGapAllThere
    <3> HIDE DEF data, whole
    <3>4. Flat!Read(req)
      BY <1>4, <2>6, <2>7, <2>8, <2>9, <2>11, <3>3 DEF Flat!Read
    <3> QED
      BY <2>2, <3>4 DEF Flat!Next
  <2>12. ReadUpToGap'
    <3>1. \A j \in 0 .. (n - 1) :
             data[j] = IF \E k \in 0 .. j : ~IsAllocated(ram, o + k) THEN 0 ELSE Content[o + j]
      <4>1. \A j \in 0 .. (n - 1) : Content[o + j] = At(ram, o + j)
        BY <2>3, ContentBytes
      <4> QED
        BY <4>1 DEF UpToGap
    <3>2. RamData' = data
      BY <1>5, <2>7
    <3> HIDE DEF data
    <3>3. ram' = ram
      BY <1>2
    <3> QED
      BY <1>4, <2>6, <2>a, <3>1, <3>2, <3>3 DEF ReadUpToGap, IsAllocated
  <2> QED
    BY <1>3, <1>a, <2>10, <2>11, <2>12
<1> QED
  BY <1>6, <1>7

LEMMA RestartIsFlat ==
    ASSUME RamInv, Restart
    PROVE  RamInv' /\ Flat!Next /\ ReadUpToGap' /\ SectionStep
<1>1. /\ ram' = to_memory(Segments) /\ mem_program_only' = to_memory(Segments)
      /\ last' = [NoAccess EXCEPT !.op = "restart"]
      /\ UNCHANGED <<busVars, setup>> /\ BusInv /\ SetupOk
  BY DEF RamInv, Restart
<1>2. RamInv'
  <2>1. BusInv'
    BY <1>1, SameBus
  <2>2. SetupOk'
    BY <1>1 DEF SetupOk
  <2>3. IsTree(ram')
    BY <1>1, LoadedIsTree
  <2> QED
    BY <1>1, <2>1, <2>2, <2>3 DEF RamInv
<1>3. last'.op = "restart"
  BY <1>1 DEF NoAccess, Access
<1>4. RamEvent' = [op |-> "restart", addr |-> 0, data |-> [i \in {} |-> 0]]
  BY <1>3 DEF RamEvent
<1>5. Content' = Image
  BY <1>1 DEF Content, Image
<1>6. Flat!Restart
  BY <1>4, <1>5 DEF Flat!Restart, Flat!Event
<1>7. ReadUpToGap'
  BY <1>3 DEF ReadUpToGap
<1>8. SectionStep
  BY <1>1, <1>3 DEF SectionStep
<1> QED
  BY <1>2, <1>6, <1>7, <1>8 DEF Flat!Next

LEMMA QuietIsFlat ==
    ASSUME RamInv, BusInv', UNCHANGED <<ram, mem_program_only, setup>>, last' = NoAccess
    PROVE  RamInv' /\ Flat!Next /\ ReadUpToGap' /\ SectionStep
<1>1. SetupOk'
  BY DEF RamInv, SetupOk
<1>2. RamInv'
  BY <1>1 DEF RamInv
<1>3. last'.op = "none"
  BY DEF NoAccess, Access
<1>4. RamEvent' = Flat!NoEvent
  BY <1>3 DEF RamEvent, Flat!NoEvent, Flat!Event
<1>5. Content' = Content
  BY DEF Content
<1>6. Flat!Quiet
  BY <1>4, <1>5 DEF Flat!Quiet
<1>7. ReadUpToGap'
  BY <1>3 DEF ReadUpToGap
<1>8. SectionStep
  BY <1>3, NoSectionMade
<1> QED
  BY <1>2, <1>6, <1>7, <1>8 DEF Flat!Next

LEMMA RamNext ==
    ASSUME RamInv, [Next]_vars
    PROVE  /\ RamInv' /\ [Flat!Next]_<<Content, RamEvent>> /\ (ReadUpToGap => ReadUpToGap')
           /\ SectionStep \/ UNCHANGED vars
<1>1. BusInv'
  BY BusNextKeeps DEF RamInv
<1>2. CASE \E r \in setup.use.accesses, v \in setup.use.values : write_ctl(r[1], r[2], v)
  BY <1>2, WriteRamIsFlat
<1>3. CASE \E r \in setup.use.accesses : read_ctl(r[1], r[2])
  BY <1>3, ReadRamIsFlat
<1>4. CASE \E k \in setup.use.knobs : \E v \in {0, 255} : knob_update_notify(k, v)
  <2>1. UNCHANGED <<ram, mem_program_only, setup>> /\ last' = NoAccess
    BY <1>4 DEF knob_update_notify
  <2> QED
    BY <1>1, <2>1, QuietIsFlat
<1>5. CASE setup.use.restart /\ Restart
  BY <1>5, RestartIsFlat
<1>6. CASE BusStep
  <2>1. UNCHANGED <<ram, mem_program_only, setup>> /\ last' = NoAccess
    BY <1>6 DEF BusStep
  <2> QED
    BY <1>1, <2>1, QuietIsFlat
<1>7. CASE UNCHANGED vars
  <2>1. UNCHANGED <<busVars, ram, mem_program_only, last, setup>>
    BY <1>7 DEF vars
  <2>2. RamInv'
    BY <1>1, <2>1 DEF RamInv, SetupOk
  <2>3. Content' = Content
    BY <2>1 DEF Content
  <2>4. RamRange' = RamRange
    BY <2>1 DEF RamRange, find_range, LowerBound, Ranges, busVars
  <2>5. RamEvent' = RamEvent
    BY <2>1, <2>4 DEF RamEvent, CutShort, IsAllocated, RamOffset, RamData, Simulated, byteswap_if
  <2>6. ReadUpToGap => ReadUpToGap'
    BY <2>1, <2>3, <2>4 DEF ReadUpToGap, IsAllocated, RamOffset, RamData, Simulated, byteswap_if
  <2> QED
    BY <1>7, <2>2, <2>3, <2>5, <2>6
<1> QED
  BY <1>2, <1>3, <1>4, <1>5, <1>6, <1>7 DEF Next

LEMMA RamInit == Init => RamInv /\ Flat!Init /\ ReadUpToGap
<1> SUFFICES ASSUME Init PROVE RamInv /\ Flat!Init /\ ReadUpToGap
  OBVIOUS
<1>1. PICK use \in Uses : \E order \in use.orders :
        setup = [native |-> order[1], simulated |-> order[2], use |-> use]
  BY DEF Init
<1>2. use.orders \subseteq {"LITTLE", "BIG"} \X {"LITTLE", "BIG"}
  BY UsesAssumption DEF UsesAssumption
<1>3. SetupOk
  BY <1>1, <1>2 DEF SetupOk
<1>4. mem_program_only = to_memory(Segments) /\ ram = to_memory(Segments) /\ last = NoAccess
  BY DEF Init
<1>5. RamInv
  BY <1>3, <1>4, BusInitHolds, LoadedIsTree DEF RamInv
<1>6. Content = Image
  BY <1>4 DEF Content, Image
<1>7. RamEvent = Flat!NoEvent
  BY <1>4 DEF RamEvent, NoAccess, Access, Flat!NoEvent, Flat!Event
<1>8. ReadUpToGap
  BY <1>4 DEF ReadUpToGap, NoAccess, Access
<1> QED
  BY <1>5, <1>6, <1>7, <1>8 DEF Flat!Init

\* For every size of the sections and shape of the tree, every program and every byte
\* order of host and machine, with devices coming and going on the bus: the memory behind
\* it is one array of bytes for accesses at any address, within a section or over the end
\* of one, except that a read shows zeros from the first section on that was neither
\* loaded nor written since the restart (Memory::write, Memory::read,
\* FrontendMemory::write_generic, read_generic).
THEOREM MemoryIsFlat == Spec => RamIsFlat
<1>1. RamInv /\ [Next]_vars => RamInv'
  BY RamNext
<1>2. RamInv /\ [Next]_vars => [Flat!Next]_<<Content, RamEvent>>
  BY RamNext
<1>3. RamInv /\ ReadUpToGap /\ [Next]_vars => ReadUpToGap'
  BY RamNext
<1>4. RamInv /\ [Next]_vars =>
        [\A a \in RamAddr :
          IsAllocated(ram', a) <=>
              IF last'.op = "restart" THEN IsAllocated(to_memory(Segments), a)
              ELSE \/ IsAllocated(ram, a)
                   \/ /\ last'.op = "write" /\ RamRange' # {}
                      /\ \E b \in Covered(RamOffset, CtlSize[last.ctl])' :
                            a \div MEMORY_SECTION_SIZE = b \div MEMORY_SECTION_SIZE]_vars
  BY RamNext DEF SectionStep
<1> QED
  BY <1>1, <1>2, <1>3, <1>4, RamInit, PTL DEF Spec, RamIsFlat, Flat!Spec, SectionsFollowWrites

-----------------------------------------------------------------------------
(* A program, the devices and the user agree.                               *)
DevTypes == /\ led \in [LedRegisters -> [0 .. 3 -> Byte]]
            /\ fb_data \in [0 .. (FbBytes - 1) -> Byte]
            /\ change_counter \in 0 .. (CounterMod - 1)

DevInv == RamInv /\ DevTypes /\ DeviceNumbersKept /\ DisplayShowsPixels

\* The two corrections of the byte order, in the frontend and in the device,
\* leave a word what the simulated machine means.
LEMMA WordImageFacts ==
    ASSUME SetupOk, NEW w \in Nat, NEW v \in [0 .. (w - 1) -> Byte]
    PROVE  WordImage(v) = Simulated(v) /\ WordImage(v) \in [0 .. (w - 1) -> Byte]
           /\ FromImage(v) = Simulated(v) /\ FromImage(v) \in [0 .. (w - 1) -> Byte]
           /\ Native(v) \in [0 .. (w - 1) -> Byte] /\ Native(Native(v)) = v
<1>1. Swapped(v) \in [0 .. (w - 1) -> Byte] /\ Swapped(Swapped(v)) = v
  BY SwapTwice
<1> QED
  BY <1>1 DEF SetupOk, WordImage, FromImage, Native, Foreign, Simulated, byteswap_if

\* A word keeps the bytes that are not written, and is the number that is
\* written to the whole of it.
LEMMA WordWrittenFacts ==
    ASSUME SetupOk, NEW w \in Nat, NEW v \in [0 .. (w - 1) -> Byte], NEW o \in Nat,
           NEW offset \in Nat, NEW n \in Nat, NEW bytes \in [0 .. (n - 1) -> Byte]
    PROVE  /\ WordWritten(v, o, offset, bytes) \in [0 .. (w - 1) -> Byte]
           /\ n = w /\ o = offset => WordWritten(v, o, offset, bytes) = Simulated(bytes)
<1> DEFINE old == WordImage(v)
           new == [i \in 0 .. (w - 1) |-> IF o + i \in Covered(offset, n) THEN bytes[o + i - offset] ELSE old[i]]
<1>1. old \in [0 .. (w - 1) -> Byte]
  BY WordImageFacts
<1>2. Cardinality(DOMAIN bytes) = n
  <2>1. DOMAIN bytes = 0 .. (n - 1)
    OBVIOUS
  <2> QED
    BY <2>1, CountUpTo
<1>3. WordWritten(v, o, offset, bytes) = FromImage(new)
  <2>1. DOMAIN old = 0 .. (w - 1)
    BY <1>1
  <2> HIDE DEF old
  <2> QED
    BY <1>2, <2>1 DEF WordWritten, old
<1>4. new \in [0 .. (w - 1) -> Byte]
  <2>1. \A i \in 0 .. (w - 1) : o + i \in Covered(offset, n) => o + i - offset \in 0 .. (n - 1)
    BY DEF Covered
  <2> HIDE DEF old
  <2> QED
    BY <1>1, <2>1
<1>5. ASSUME n = w, o = offset PROVE new = bytes
  <2>1. \A i \in 0 .. (w - 1) : o + i \in Covered(offset, n) /\ o + i - offset = i
    BY <1>5 DEF Covered
  <2> HIDE DEF old
  <2> QED
    BY <1>5, <2>1
<1> HIDE DEF new
<1>6. FromImage(new) \in [0 .. (w - 1) -> Byte] /\ FromImage(new) = Simulated(new)
  <2>1. FromImage(new) = Simulated(new)
    BY <1>4, WordImageFacts
  <2>2. FromImage(new) \in [0 .. (w - 1) -> Byte]
    BY <1>4, WordImageFacts
  <2> QED
    BY <2>1, <2>2
<1> QED
  BY <1>3, <1>5, <1>6

LEMMA WholeWord ==
    ASSUME SetupOk, NEW w \in Nat, NEW v \in [0 .. (w - 1) -> Byte], NEW o \in Nat,
           NEW bytes \in [0 .. (w - 1) -> Byte]
    PROVE  WordWritten(v, o, o, bytes) = Simulated(bytes)
BY WordWrittenFacts

LEMMA PixelTypes ==
    ASSUME SetupOk, DevTypes, NEW o \in Nat
    PROVE  read_raw_pixel(o) \in [0 .. 1 -> Byte]
<1> DEFINE px == [i \in 0 .. 1 |-> fb_data[o + i]]
<1>1. CASE o + 1 >= FbBytes
  BY <1>1 DEF read_raw_pixel, Zero, Byte
<1>2. CASE ~(o + 1 >= FbBytes)
  <2>1. FbBytes \in Nat
    BY MemoryFacts DEF FbBytes
  <2>2. \A i \in 0 .. 1 : o + i \in 0 .. (FbBytes - 1)
    BY <1>2, <2>1
  <2>3. px \in [0 .. 1 -> Byte]
    BY <2>2 DEF DevTypes
  <2>4. px \in [0 .. (2 - 1) -> Byte] /\ 2 \in Nat /\ 2 - 1 = 1
    BY <2>3
  <2>5. read_raw_pixel(o) = Native(px)
    BY <1>2 DEF read_raw_pixel
  <2> HIDE DEF px
  <2>6. Native(px) \in [0 .. (2 - 1) -> Byte]
    BY <2>4, WordImageFacts
  <2> QED
    BY <2>5, <2>6
<1> QED
  BY <1>1, <1>2

\* Where the pixels are in the frame buffer.
LEMMA PixelPlace ==
    ASSUME NEW xy \in Pixels
    PROVE  LET a == get_address_from_pixel(xy[1], xy[2])
           IN  /\ a \in Nat /\ a % 2 = 0 /\ a + 1 < FbBytes
               /\ get_pixel_from_address(a) = xy
<1> DEFINE x == xy[1]
           y == xy[2]
           m == 2 * FbWidth
           a == y * 2 * FbWidth + 2 * x
<1>1. /\ FbWidth \in Nat /\ FbHeight \in Nat
      /\ x \in 0 .. (FbWidth - 1) /\ y \in 0 .. (FbHeight - 1) /\ xy = <<x, y>>
  BY MemoryFacts DEF Pixels
<1> HIDE DEF x, y
<1>2. x \in Nat /\ y \in Nat /\ m \in Nat /\ m # 0 /\ 2 * x + 2 <= m
  BY <1>1
<1>3. a = (m * y) + (2 * x) /\ a \in Nat
  BY <1>1, <1>2
<1>4. FbBytes = m * FbHeight
  BY <1>1 DEF FbBytes
<1>5. a % 2 = 0
  <2> DEFINE h == (FbWidth * y) + x
  <2>1. h \in Nat /\ a = 2 * h
    BY <1>1, <1>2
  <2> HIDE DEF h, a
  <2> QED
    BY <2>1
<1>6. (m * y) + m <= m * FbHeight
  <2>1. y + 1 <= FbHeight
    BY <1>1
  <2>2. m * (y + 1) <= m * FbHeight
    <3> HIDE DEF m
    <3> QED
      BY <1>1, <1>2, <2>1
  <2> HIDE DEF m
  <2>3. m * (y + 1) = (m * y) + m
    BY <1>2
  <2> QED
    BY <2>2, <2>3
<1>7. a \div m = y /\ a % m = 2 * x
  <2> DEFINE r == 2 * x
  <2>1. r \in Nat /\ r < m /\ a = (m * y) + r
    BY <1>2, <1>3
  <2> HIDE DEF a, m, r
  <2>2. a \div m = y /\ a % m = r
    BY <1>2, <1>3, <2>1
  <2> QED
    BY <2>2 DEF r
<1>8. a + 1 < FbBytes
  <2>1. (m * y) \in Nat /\ m * FbHeight \in Nat
    BY <1>1, <1>2
  <2> HIDE DEF a, m
  <2> QED
    BY <1>2, <1>3, <1>4, <1>6, <2>1
<1>9. (2 * x) \div 2 = x
  BY <1>2
<1> QED
  BY <1>1, <1>3, <1>5, <1>7, <1>8, <1>9 DEF get_address_from_pixel, get_pixel_from_address

LEMMA CountFacts ==
    ASSUME change_counter \in 0 .. (CounterMod - 1), NEW c \in BOOLEAN, Count(c)
    PROVE  /\ change_counter' \in 0 .. (CounterMod - 1)
           /\ c => change_counter' # change_counter
<1>1. CounterMod \in Nat /\ CounterMod > 1
  BY MemoryFacts
<1>2. c \in BOOLEAN /\ change_counter' = (change_counter + (IF c THEN 1 ELSE 0)) % CounterMod
  BY DEF Count
<1>3. CASE c
  <2>1. change_counter' = (change_counter + 1) % CounterMod
    BY <1>2, <1>3
  <2>2. CASE change_counter + 1 = CounterMod
    BY <1>1, <2>1, <2>2
  <2>3. CASE change_counter + 1 < CounterMod
    BY <1>1, <2>1, <2>3
  <2> QED
    BY <1>1, <2>2, <2>3
<1>4. CASE ~c
  BY <1>1, <1>2, <1>4
<1> QED
  BY <1>3, <1>4

-----------------------------------------------------------------------------
LEMMA RangeAnswers ==
    ASSUME BusInv, NEW a \in Nat, NEW r \in Ranges, a >= r.start, a <= r.last
    PROVE  find_range(a) = {r} /\ r.start \in Nat /\ a - r.start \in Nat
<1>1. PICK k \in DOMAIN ranges_by_addr : r = ranges_by_addr[k]
  BY DEF Ranges
<1>2. r.last = k /\ k \in Nat /\ r.start \in Nat
  BY <1>1, FiledFacts
<1>3. a \in r.start .. k
  BY <1>2
<1>4. find_range(a) = {r}
  BY <1>1, <1>3, FiledReachable
<1> QED
  BY <1>2, <1>3, <1>4

\* What the properties say of the numbers holds for a step that is no access.
LEMMA NoNumbers ==
    ASSUME last'.ctl = "AC_U8"
    PROVE  DeviceNumbersKept'
<1>1. CtlSize[last'.ctl] = 1
  BY DEF CtlSize
<1> QED
  BY <1>1 DEF DeviceNumbersKept, CtlSize

\* A write to the LED peripheral.
LEMMA LedWritten ==
    ASSUME SetupOk, DevTypes, NEW o \in Nat, NEW n \in {1, 2, 4, 8},
           NEW bytes \in [0 .. (n - 1) -> Byte], WriteLed(o, bytes)
    PROVE  /\ led' \in [LedRegisters -> [0 .. 3 -> Byte]]
           /\ fb_data' = fb_data /\ ram' = ram /\ shown' = shown
           /\ change_counter' \in 0 .. (CounterMod - 1)
           /\ led' # led => change_counter' # change_counter
           /\ led'[KNOBS_8BIT] = led[KNOBS_8BIT]
           /\ n = 4 /\ o \in LedWritable => led'[o] = Simulated(bytes)
<1> DEFINE W(r) == WordWritten(LedReg(r), r, o, bytes)
<1>1. Cardinality(DOMAIN bytes) = n /\ n \in Nat
  <2>1. DOMAIN bytes = 0 .. (n - 1) /\ n \in Nat
    OBVIOUS
  <2> QED
    BY <2>1, CountUpTo
<1>2. /\ led' = [r \in LedRegisters |-> IF r \in LedWritable \cap Words(o, n, 4) THEN W(r) ELSE led[r]]
      /\ Count(led' # led)
      /\ UNCHANGED <<ram, fb_data, shown>>
  BY <1>1 DEF WriteLed
<1>3. ASSUME NEW r \in LedRegisters
      PROVE  /\ led[r] \in [0 .. 3 -> Byte] /\ r \in Nat /\ LedReg(r) = led[r]
             /\ W(r) \in [0 .. 3 -> Byte]
             /\ n = 4 /\ r = o => W(r) = Simulated(bytes)
  <2> DEFINE v == LedReg(r)
  <2>1. led[r] \in [0 .. 3 -> Byte] /\ r \in Nat /\ v = led[r]
    BY DEF DevTypes, LedReg, LedRegisters, LedWritable, LED_LINE, LED_RGB1, LED_RGB2,
           KBDWR_DIRECT, KNOBS_DIRECT, KNOBS_8BIT
  <2>2. v \in [0 .. (4 - 1) -> Byte] /\ 4 \in Nat /\ 4 - 1 = 3
    BY <2>1
  <2> HIDE DEF v
  <2>3. WordWritten(v, r, o, bytes) \in [0 .. (4 - 1) -> Byte]
    BY <1>1, <2>1, <2>2, WordWrittenFacts
  <2>4. n = 4 /\ r = o => WordWritten(v, r, o, bytes) = Simulated(bytes)
    <3> SUFFICES ASSUME n = 4, r = o PROVE WordWritten(v, o, o, bytes) = Simulated(bytes)
      OBVIOUS
    <3>1. bytes \in [0 .. (4 - 1) -> Byte]
      OBVIOUS
    <3> QED
      BY <2>2, <3>1, WholeWord
  <2> QED
    BY <2>1, <2>2, <2>3, <2>4 DEF v
<1> HIDE DEF W
<1>4. led' \in [LedRegisters -> [0 .. 3 -> Byte]]
  BY <1>2, <1>3
<1>5. change_counter' \in 0 .. (CounterMod - 1) /\ (led' # led => change_counter' # change_counter)
  <2> DEFINE c == led' # led
  <2>1. Count(c) /\ c \in BOOLEAN
    BY <1>2
  <2> HIDE DEF c
  <2>2. change_counter' \in 0 .. (CounterMod - 1) /\ (c => change_counter' # change_counter)
    BY <2>1, CountFacts DEF DevTypes
  <2> QED
    BY <2>2 DEF c
<1>6. led'[KNOBS_8BIT] = led[KNOBS_8BIT]
  <2>1. KNOBS_8BIT \in LedRegisters /\ KNOBS_8BIT \notin LedWritable
    BY DEF LedRegisters, LedWritable, LED_LINE, LED_RGB1, LED_RGB2, KBDWR_DIRECT, KNOBS_DIRECT, KNOBS_8BIT
  <2> QED
    BY <1>2, <2>1
<1>7. ASSUME n = 4, o \in LedWritable
      PROVE  led'[o] = Simulated(bytes)
  <2>1. o \in LedRegisters /\ o % 4 = 0 /\ o \in Covered(o, 4) /\ o - 0 = o
    BY <1>7 DEF LedRegisters, LedWritable, LED_LINE, LED_RGB1, LED_RGB2, Covered
  <2>2. o \in Words(o, n, 4)
    BY <1>7, <2>1 DEF Words
  <2> QED
    BY <1>2, <1>3, <1>7, <2>1, <2>2
<1> QED
  BY <1>2, <1>4, <1>5, <1>6, <1>7

\* What a pixel becomes in a write to the display.
LEMMA LcdWritten ==
    ASSUME SetupOk, DevTypes, DisplayShowsPixels, UNCHANGED setup,
           NEW o \in Nat, NEW n \in {1, 2, 4, 8},
           NEW bytes \in [0 .. (n - 1) -> Byte], WriteLcd(o, bytes)
    PROVE  /\ fb_data' \in [0 .. (FbBytes - 1) -> Byte]
           /\ led' = led /\ ram' = ram
           /\ change_counter' \in 0 .. (CounterMod - 1)
           /\ fb_data' # fb_data => change_counter' # change_counter
           /\ DisplayShowsPixels'
           /\ n = 2 /\ o % 2 = 0 /\ o + 1 < FbBytes => read_raw_pixel(o)' = Simulated(bytes)
<1> DEFINE W(p) == WordWritten(read_raw_pixel(p), p, o, bytes)
           changed == PixelsChanged(o, bytes)
           word(a) == a - (a % 2)
<1>1. Cardinality(DOMAIN bytes) = n /\ n \in Nat /\ FbBytes \in Nat
  <2>1. DOMAIN bytes = 0 .. (n - 1) /\ n \in Nat
    OBVIOUS
  <2>2. FbBytes \in Nat
    BY MemoryFacts DEF FbBytes
  <2> QED
    BY <2>1, <2>2, CountUpTo
<1>2. /\ fb_data' = [a \in 0 .. (FbBytes - 1) |->
                        IF word(a) \in changed THEN Native(W(word(a)))[a % 2] ELSE fb_data[a]]
      /\ shown' = [xy \in Pixels |->
            IF \E p \in changed : get_pixel_from_address(p) = xy
            THEN Native([i \in 0 .. 1 |-> fb_data'[get_address_from_pixel(xy[1], xy[2]) + i]])
            ELSE shown[xy]]
      /\ Count(changed # {})
      /\ UNCHANGED <<ram, led>>
  BY DEF WriteLcd, Announced
<1>3. \A p : p \in changed <=> p \in Words(o, n, 2) /\ p + 1 < FbBytes /\ W(p) # read_raw_pixel(p)
  BY <1>1 DEF PixelsChanged
<1> HIDE DEF changed
<1>4. ASSUME NEW p \in Nat
      PROVE  /\ W(p) \in [0 .. 1 -> Byte] /\ Native(W(p)) \in [0 .. 1 -> Byte]
             /\ Native(Native(W(p))) = W(p)
             /\ n = 2 /\ p = o => W(p) = Simulated(bytes)
  <2> DEFINE v == read_raw_pixel(p)
             x == WordWritten(v, p, o, bytes)
  <2>1. v \in [0 .. (2 - 1) -> Byte] /\ 2 \in Nat /\ 2 - 1 = 1
    BY PixelTypes
  <2> HIDE DEF v
  <2>2. x \in [0 .. (2 - 1) -> Byte]
    BY <1>1, <2>1, WordWrittenFacts
  <2>3. n = 2 /\ p = o => x = Simulated(bytes)
    <3> SUFFICES ASSUME n = 2, p = o PROVE WordWritten(v, o, o, bytes) = Simulated(bytes)
      OBVIOUS
    <3>1. bytes \in [0 .. (2 - 1) -> Byte]
      OBVIOUS
    <3> QED
      BY <2>1, <3>1, WholeWord
  <2> HIDE DEF x
  <2>4. Native(x) \in [0 .. (2 - 1) -> Byte]
    BY <2>1, <2>2, WordImageFacts
  <2>5. Native(Native(x)) = x
    BY <2>1, <2>2, WordImageFacts
  <2> QED
    BY <2>1, <2>2, <2>3, <2>4, <2>5 DEF x, v
<1> HIDE DEF W
<1>5. \A a \in 0 .. (FbBytes - 1) : a % 2 \in 0 .. 1 /\ word(a) \in Nat
  BY <1>1
<1>6. fb_data' \in [0 .. (FbBytes - 1) -> Byte]
  <2> HIDE DEF word
  <2>1. \A a \in 0 .. (FbBytes - 1) : Native(W(word(a)))[a % 2] \in Byte
    BY <1>4, <1>5
  <2>2. \A a \in 0 .. (FbBytes - 1) : fb_data[a] \in Byte
    BY DEF DevTypes
  <2> QED
    BY <1>2, <2>1, <2>2
<1>7. change_counter' \in 0 .. (CounterMod - 1) /\ (fb_data' # fb_data => change_counter' # change_counter)
  <2> DEFINE c == changed # {}
  <2>1. Count(c) /\ c \in BOOLEAN
    BY <1>2
  <2>2. ASSUME ~c PROVE fb_data' = fb_data
    <3>1. \A a \in 0 .. (FbBytes - 1) : fb_data'[a] = fb_data[a]
      <4>1. changed = {}
        BY <2>2
      <4> HIDE DEF word
      <4> QED
        BY <1>2, <4>1
    <3> DEFINE A == 0 .. (FbBytes - 1)
    <3>2. fb_data = [a \in A |-> fb_data[a]]
      BY DEF DevTypes
    <3>3. fb_data' = [a \in A |-> fb_data'[a]]
      BY <1>6
    <3>4. \A a \in A : fb_data'[a] = fb_data[a]
      BY <3>1
    <3> HIDE DEF A
    <3> QED
      BY <3>2, <3>3, <3>4
  <2> HIDE DEF c
  <2>3. change_counter' \in 0 .. (CounterMod - 1) /\ (c => change_counter' # change_counter)
    BY <2>1, CountFacts DEF DevTypes
  <2> QED
    BY <2>2, <2>3
\* the pixel at an even address
<1>8. ASSUME NEW a \in Nat, a % 2 = 0, a + 1 < FbBytes
      PROVE  /\ read_raw_pixel(a)' = Native([i \in 0 .. 1 |-> fb_data'[a + i]])
             /\ a \in changed => read_raw_pixel(a)' = W(a)
             /\ a \notin changed => read_raw_pixel(a)' = read_raw_pixel(a)
  <2>1. ~(a + 1 >= FbBytes)
    BY <1>1, <1>8
  <2>2. Native([i \in 0 .. 1 |-> fb_data[a + i]])' = Native([i \in 0 .. 1 |-> fb_data'[a + i]])
    BY DEF Native, byteswap_if, Swapped
  <2>3. read_raw_pixel(a)' = Native([i \in 0 .. 1 |-> fb_data'[a + i]])
    BY <2>1, <2>2 DEF read_raw_pixel
  <2>4. \A i \in 0 .. 1 : a + i \in 0 .. (FbBytes - 1) /\ word(a + i) = a /\ (a + i) % 2 = i
    <3> SUFFICES ASSUME NEW i \in 0 .. 1
                 PROVE  a + i \in 0 .. (FbBytes - 1) /\ word(a + i) = a /\ (a + i) % 2 = i
      OBVIOUS
    <3>1. i = 0 \/ i = 1
      OBVIOUS
    <3> QED
      BY <1>1, <1>8, <3>1
  <2>5. CASE a \in changed
    <3> HIDE DEF word
    <3>1. \A i \in 0 .. 1 : fb_data'[a + i] = Native(W(a))[i]
      BY <1>2, <2>4, <2>5
    <3>2. [i \in 0 .. 1 |-> fb_data'[a + i]] = Native(W(a))
      BY <1>4, <3>1
    <3> QED
      BY <1>4, <2>3, <2>5, <3>2
  <2>6. CASE a \notin changed
    <3> HIDE DEF word
    <3>1. \A i \in 0 .. 1 : fb_data'[a + i] = fb_data[a + i]
      BY <1>2, <2>4, <2>6
    <3>2. [i \in 0 .. 1 |-> fb_data'[a + i]] = [i \in 0 .. 1 |-> fb_data[a + i]]
      BY <3>1
    <3>3. read_raw_pixel(a) = Native([i \in 0 .. 1 |-> fb_data[a + i]])
      BY <2>1 DEF read_raw_pixel
    <3> QED
      BY <2>3, <2>6, <3>2, <3>3
  <2> QED
    BY <2>3, <2>5, <2>6
<1>9. DisplayShowsPixels'
  <2> SUFFICES ASSUME NEW xy \in Pixels
               PROVE  shown'[xy] = read_raw_pixel(get_address_from_pixel(xy[1], xy[2]))'
    BY DEF DisplayShowsPixels
  <2> DEFINE a == get_address_from_pixel(xy[1], xy[2])
  <2>1. a \in Nat /\ a % 2 = 0 /\ a + 1 < FbBytes /\ get_pixel_from_address(a) = xy
    BY PixelPlace
  <2>2. shown[xy] = read_raw_pixel(a)
    BY DEF DisplayShowsPixels
  <2> HIDE DEF a
  <2>3. /\ read_raw_pixel(a)' = Native([i \in 0 .. 1 |-> fb_data'[a + i]])
        /\ a \notin changed => read_raw_pixel(a)' = read_raw_pixel(a)
    BY <1>8, <2>1
  <2>4. shown'[xy] = IF \E p \in changed : get_pixel_from_address(p) = xy
                     THEN Native([i \in 0 .. 1 |-> fb_data'[a + i]]) ELSE shown[xy]
    BY <1>2 DEF a
  <2>5. shown'[xy] = read_raw_pixel(a)'
    BY <2>1, <2>2, <2>3, <2>4
  <2> QED
    BY <2>5 DEF a
<1>10. ASSUME n = 2, o % 2 = 0, o + 1 < FbBytes
       PROVE  read_raw_pixel(o)' = Simulated(bytes)
  <2>1. W(o) = Simulated(bytes)
    BY <1>4, <1>10
  <2>2. o \in Words(o, n, 2)
    <3>1. o \in Covered(o, n) /\ o - (o % 2) = o
      BY <1>10 DEF Covered
    <3> QED
      BY <3>1 DEF Words
  <2>3. o \in changed <=> W(o) # read_raw_pixel(o)
    BY <1>3, <1>10, <2>2
  <2> QED
    BY <1>8, <1>10, <2>1, <2>3
<1> QED
  BY <1>2, <1>6, <1>7, <1>9, <1>10

\* A write to the memory that changes a byte is counted.
LEMMA RamCounted ==
    ASSUME RamInv, DevTypes, NEW o \in Nat, NEW n \in Nat, o + n <= RamSize,
           NEW bytes \in [0 .. (n - 1) -> Byte], WriteRam(o, bytes)
    PROVE  /\ UNCHANGED <<led, fb_data, shown>>
           /\ change_counter' \in 0 .. (CounterMod - 1)
           /\ Content' # Content => change_counter' # change_counter
<1> DEFINE c == \E i \in 0 .. (n - 1) : bytes[i] # Held(ram, o, n)[i]
<1>1. DOMAIN bytes = 0 .. (n - 1) /\ Cardinality(0 .. (n - 1)) = n
  BY CountUpTo
<1>2. Count(c) /\ ram' = memory_write(ram, o, bytes) /\ UNCHANGED <<led, fb_data, shown>>
  <2>1. Count(\E i \in DOMAIN bytes : bytes[i] # Held(ram, o, Cardinality(DOMAIN bytes))[i])
    BY DEF WriteRam
  <2>2. (\E i \in DOMAIN bytes : bytes[i] # Held(ram, o, Cardinality(DOMAIN bytes))[i]) <=> c
    BY <1>1
  <2> HIDE DEF c
  <2> QED
    BY <2>1, <2>2 DEF WriteRam, Count
<1>3. /\ \A a \in RamAddr : At(memory_write(ram, o, bytes), a) =
            IF a \in Covered(o, n) THEN bytes[a - o] ELSE At(ram, a)
      /\ Held(ram, o, n) = [j \in 0 .. (n - 1) |-> At(ram, o + j)]
  <2>1. IsTree(ram)
    BY DEF RamInv
  <2>2. \A a \in RamAddr : At(memory_write(ram, o, bytes), a) =
           IF a \in Covered(o, n) THEN bytes[a - o] ELSE At(ram, a)
    BY <2>1, WriteAt
  <2>3. Held(ram, o, n) = [j \in 0 .. (n - 1) |-> At(ram, o + j)]
    BY <2>1, HeldBytes
  <2> QED
    BY <2>2, <2>3
<1>4. ASSUME Content' # Content PROVE c
  <2>1. PICK a \in RamAddr : At(ram', a) # At(ram, a)
    BY <1>4, ContentBytes
  <2>2. a \in Covered(o, n) /\ bytes[a - o] # At(ram, a)
    BY <1>2, <1>3, <2>1
  <2>3. a - o \in 0 .. (n - 1) /\ o + (a - o) = a
    BY <2>2 DEF Covered
  <2>4. Held(ram, o, n)[a - o] = At(ram, a)
    BY <1>3, <2>3
  <2> QED
    BY <2>2, <2>3, <2>4
<1>5. c \in BOOLEAN
  OBVIOUS
<1> HIDE DEF c
<1>6. change_counter' \in 0 .. (CounterMod - 1) /\ (c => change_counter' # change_counter)
  BY <1>2, <1>5, CountFacts DEF DevTypes
<1> QED
  BY <1>2, <1>4, <1>6

\* What is counted: everything a program sees but the knobs.
Seen == <<Content, fb_data, [led EXCEPT ![KNOBS_8BIT] = 0]>>

LEMMA DevWrite ==
    ASSUME DevInv, NEW r \in setup.use.accesses, NEW v \in setup.use.values,
           write_ctl(r[1], r[2], v)
    PROVE  /\ DevTypes' /\ DeviceNumbersKept' /\ DisplayShowsPixels'
           /\ Seen' # Seen => change_counter' # change_counter
           /\ led'[KNOBS_8BIT] = led[KNOBS_8BIT]
<1> DEFINE n == CtlSize[r[1]]
           addr == r[2]
           bytes == Native(byteswap_if(Low(v, n), Foreign))
<1>1. /\ BusInv /\ SetupOk /\ RamInv /\ DevTypes /\ DisplayShowsPixels
      /\ r[1] \in DOMAIN CtlSize /\ addr \in Nat /\ v \in [0 .. 7 -> Byte]
  BY UseFacts DEF DevInv, RamInv
<1>2. bytes = Simulated(Low(v, n)) /\ bytes \in [0 .. (n - 1) -> Byte]
  BY <1>1, BusBytes
<1>3. /\ bus_write(addr, bytes) /\ last' = Access("write", r[1], addr, v)
      /\ UNCHANGED <<busVars, mem_program_only, setup>>
  BY DEF write_ctl
<1>4. n \in {1, 2, 4, 8} /\ n \in Nat
  BY <1>1, SizeFacts
<1>5. last'.op = "write" /\ last'.addr = addr /\ last'.ctl = r[1] /\ last'.value = v
  BY <1>3 DEF Access
<1>6. Simulated(bytes) = Low(v, n)
  <2> DEFINE w == Low(v, n)
  <2>1. w \in [0 .. (n - 1) -> Byte]
    BY <1>1, <1>4, LowFacts
  <2> HIDE DEF n, w, bytes
  <2>2. Simulated(Simulated(w)) = w
    BY <1>1, <1>4, <2>1, SimulatedTwice
  <2> QED
    BY <1>2, <2>2 DEF w
<1> HIDE DEF bytes
<1>7. ASSUME NEW s \in Ranges, addr >= s.start, addr <= s.last
      PROVE  find_range(addr) = {s} /\ addr - s.start \in Nat
  BY <1>1, <1>7, RangeAnswers
<1>8. Ranges' = Ranges
  BY <1>3 DEF Ranges, busVars
\* what remains to be said of the range that answers
<1> DEFINE Kept(s) ==
             /\ s.device = "spi_led" /\ n = 4 /\ addr - s.start \in LedWritable =>
                   Low(v, n) = led'[addr - s.start]
             /\ s.device = "lcd" /\ n = 2 /\ (addr - s.start) % 2 = 0 /\ addr - s.start + 1 < FbBytes =>
                   Low(v, n) = read_raw_pixel(addr - s.start)'
<1>9. ASSUME \A s \in Ranges : addr >= s.start /\ addr <= s.last => Kept(s)
      PROVE  DeviceNumbersKept'
  BY <1>5, <1>8, <1>9 DEF DeviceNumbersKept
<1>10. CASE find_range(addr) = {}
  <2>1. UNCHANGED <<ram, led, fb_data, shown, change_counter>>
    BY <1>3, <1>10 DEF bus_write
  <2>2. DeviceNumbersKept'
    BY <1>7, <1>9, <1>10
  <2>3. DisplayShowsPixels'
    BY <1>1, <1>3, <2>1 DEF DisplayShowsPixels, read_raw_pixel, Native, byteswap_if
  <2>4. Seen' = Seen
    BY <2>1 DEF Seen, Content
  <2> QED
    BY <1>1, <2>1, <2>2, <2>3, <2>4 DEF DevTypes
<1>11. CASE find_range(addr) # {}
  <2>1. PICK m \in find_range(addr) :
            \/ m.device = "mem" /\ WriteRam(addr - m.start, bytes)
            \/ m.device = "spi_led" /\ WriteLed(addr - m.start, bytes)
            \/ m.device = "lcd" /\ WriteLcd(addr - m.start, bytes)
    BY <1>3, <1>11 DEF bus_write
  <2> DEFINE o == addr - m.start
  <2>2. find_range(addr) = {m} /\ o \in Nat
    <3>1. find_range(addr) = {m} /\ m.start \in Nat /\ m.start <= addr
      BY <1>1, FindOne
    <3> QED
      BY <1>1, <3>1
  <2>3. \A s \in Ranges : addr >= s.start /\ addr <= s.last => s = m
    BY <1>7, <2>2
  <2>4. CASE m.device = "mem" /\ WriteRam(o, bytes)
    <3>1. m \in AtRam(addr)
      BY <2>4 DEF AtRam
    <3>2. o + n <= RamSize
      BY <1>1, <3>1, RamAccess
    <3> HIDE DEF o, n
    <3>3. /\ UNCHANGED <<led, fb_data, shown>>
          /\ change_counter' \in 0 .. (CounterMod - 1)
          /\ Content' # Content => change_counter' # change_counter
      BY <1>1, <1>2, <1>4, <2>2, <2>4, <3>2, RamCounted
    <3>4. DevTypes'
      BY <1>1, <3>3 DEF DevTypes
    <3>5. DisplayShowsPixels'
      BY <1>1, <1>3, <3>3 DEF DisplayShowsPixels, read_raw_pixel, Native, byteswap_if
    <3>6. DeviceNumbersKept'
      BY <1>9, <2>3, <2>4
    <3>7. Seen' # Seen => change_counter' # change_counter
      BY <3>3 DEF Seen
    <3> QED
      BY <3>3, <3>4, <3>5, <3>6, <3>7
  <2>5. CASE m.device = "spi_led" /\ WriteLed(o, bytes)
    <3>1. Kept(m) <=> (n = 4 /\ o \in LedWritable => Low(v, n) = led'[o])
      BY <2>5
    <3> HIDE DEF o, n
    <3>2. /\ led' \in [LedRegisters -> [0 .. 3 -> Byte]]
          /\ fb_data' = fb_data /\ ram' = ram /\ shown' = shown
          /\ change_counter' \in 0 .. (CounterMod - 1)
          /\ led' # led => change_counter' # change_counter
          /\ led'[KNOBS_8BIT] = led[KNOBS_8BIT]
          /\ n = 4 /\ o \in LedWritable => led'[o] = Simulated(bytes)
      BY <1>1, <1>2, <1>4, <2>2, <2>5, LedWritten
    <3>3. DevTypes'
      BY <1>1, <3>2 DEF DevTypes
    <3>4. DisplayShowsPixels'
      BY <1>1, <1>3, <3>2 DEF DisplayShowsPixels, read_raw_pixel, Native, byteswap_if
    <3>5. DeviceNumbersKept'
      <4>1. Kept(m)
        BY <1>6, <3>1, <3>2
      <4> HIDE DEF Kept
      <4> QED
        BY <1>9, <2>3, <4>1
    <3>6. Seen' # Seen => change_counter' # change_counter
      BY <3>2 DEF Seen, Content
    <3> QED
      BY <3>2, <3>3, <3>4, <3>5, <3>6
  <2>6. CASE m.device = "lcd" /\ WriteLcd(o, bytes)
    <3>1. Kept(m) <=> (n = 2 /\ o % 2 = 0 /\ o + 1 < FbBytes => Low(v, n) = read_raw_pixel(o)')
      BY <2>6
    <3> HIDE DEF o, n
    <3>2. /\ fb_data' \in [0 .. (FbBytes - 1) -> Byte]
          /\ led' = led /\ ram' = ram
          /\ change_counter' \in 0 .. (CounterMod - 1)
          /\ fb_data' # fb_data => change_counter' # change_counter
          /\ DisplayShowsPixels'
          /\ n = 2 /\ o % 2 = 0 /\ o + 1 < FbBytes => read_raw_pixel(o)' = Simulated(bytes)
      BY <1>1, <1>2, <1>3, <1>4, <2>2, <2>6, LcdWritten
    <3>3. DevTypes'
      BY <1>1, <3>2 DEF DevTypes
    <3>4. DeviceNumbersKept'
      <4>1. Kept(m)
        BY <1>6, <3>1, <3>2
      <4> HIDE DEF Kept
      <4> QED
        BY <1>9, <2>3, <4>1
    <3>5. Seen' # Seen => change_counter' # change_counter
      BY <3>2 DEF Seen, Content
    <3> QED
      BY <3>2, <3>3, <3>4, <3>5
  <2> QED
    BY <2>1, <2>4, <2>5, <2>6
<1> QED
  BY <1>10, <1>11

\* A word that is read whole.
LEMMA WordRead ==
    ASSUME SetupOk, NEW w \in {2, 4}, NEW o \in Nat, o % w = 0,
           NEW values, values[o] \in [0 .. (w - 1) -> Byte]
    PROVE  ReadBy(w, values, o, w) = Simulated(values[o])
<1> DEFINE v == values[o]
<1>1. \A j \in 0 .. (w - 1) : (o + j) % w = j /\ o + j - j = o
  <2>1. CASE w = 2
    <3>1. \A j \in 0 .. 1 : j = 0 \/ j = 1
      OBVIOUS
    <3> QED
      BY <2>1, <3>1
  <2>2. CASE w = 4
    <3>1. \A j \in 0 .. 3 : j = 0 \/ j = 1 \/ j = 2 \/ j = 3
      OBVIOUS
    <3> QED
      BY <2>2, <3>1
  <2> QED
    BY <2>1, <2>2
<1>2. w \in Nat /\ v \in [0 .. (w - 1) -> Byte]
  OBVIOUS
<1> HIDE DEF v
<1>3. WordImage(v) = Simulated(v)
  BY <1>2, WordImageFacts
<1>4. WordImage(v) \in [0 .. (w - 1) -> Byte]
  BY <1>2, WordImageFacts
<1>5. \A j \in 0 .. (w - 1) :
         WordImage(values[o + j - ((o + j) % w)])[(o + j) % w] = WordImage(v)[j]
  BY <1>1 DEF v
<1>6. ReadBy(w, values, o, w) = [j \in 0 .. (w - 1) |-> WordImage(v)[j]]
  BY <1>5 DEF ReadBy
<1> QED
  BY <1>3, <1>4, <1>6 DEF v

\* A read corrects the order as a write does.
LEMMA ReadOrder ==
    ASSUME SetupOk, NEW n \in Nat, NEW S, NEW v \in [0 .. (n - 1) -> S]
    PROVE  byteswap_if(Native(v), Foreign) = Simulated(v)
BY OrderFacts

\* The register gets the number a word holds.
LEMMA NumberRead ==
    ASSUME SetupOk, NEW ctl, NEW addr, NEW n \in {1, 2, 4, 8}, NEW v \in [0 .. (n - 1) -> Byte],
           bus_read(addr, n) = Simulated(v)
    PROVE  Low(Extended(ctl, read_generic(addr, n)), n) = v
<1> DEFINE b == Simulated(v)
<1>1. n \in Nat
  OBVIOUS
<1>2. b \in [0 .. (n - 1) -> Byte]
  BY <1>1, OrderFacts
<1>3. Simulated(b) = v
  BY <1>1, SimulatedTwice
<1>4. read_generic(addr, n) = byteswap_if(Native(b), Foreign)
  BY DEF read_generic
<1> HIDE DEF b
<1>5. byteswap_if(Native(b), Foreign) = Simulated(b)
  BY <1>1, <1>2, ReadOrder
<1>6. read_generic(addr, n) = v
  BY <1>3, <1>4, <1>5
<1> QED
  BY <1>6, ExtendedFacts

LEMMA DevRead ==
    ASSUME DevInv, NEW r \in setup.use.accesses, read_ctl(r[1], r[2])
    PROVE  /\ DeviceNumbersKept'
           /\ UNCHANGED <<ram, led, fb_data, shown, change_counter>>
<1> DEFINE n == CtlSize[r[1]]
           addr == r[2]
           value == Extended(r[1], read_generic(addr, n))
<1>1. /\ BusInv /\ SetupOk /\ DevTypes /\ r[1] \in DOMAIN CtlSize /\ addr \in Nat
  BY UseFacts DEF DevInv, RamInv
<1>2. n \in {1, 2, 4, 8}
  BY <1>1, SizeFacts
<1>3. /\ last' = Access("read", r[1], addr, value)
      /\ UNCHANGED <<busVars, ram, led, fb_data, shown, change_counter, setup>>
  BY DEF read_ctl
<1> HIDE DEF value
<1>4. last'.op = "read" /\ last'.addr = addr /\ last'.ctl = r[1] /\ last'.value = value
  BY <1>3 DEF Access
<1>5. Ranges' = Ranges
  BY <1>3 DEF Ranges, busVars
<1>6. \A o : read_raw_pixel(o)' = read_raw_pixel(o)
  BY <1>3 DEF read_raw_pixel, Native, byteswap_if
<1>7. ASSUME NEW s \in Ranges, addr >= s.start, addr <= s.last
      PROVE  /\ s.device = "spi_led" /\ n = 4 /\ addr - s.start \in LedRegisters =>
                   Low(value, n) = led[addr - s.start]
             /\ s.device = "lcd" /\ n = 2 /\ (addr - s.start) % 2 = 0 /\ addr - s.start + 1 < FbBytes =>
                   Low(value, n) = read_raw_pixel(addr - s.start)
  <2> DEFINE o == addr - s.start
             of(dev) == {q \in find_range(addr) : q.device = dev}
  <2>1. find_range(addr) = {s} /\ o \in Nat
    BY <1>1, <1>7, RangeAnswers
  <2>2. \A dev : of(dev) = IF s.device = dev THEN {s} ELSE {}
    BY <2>1
  <2>3. ASSUME s.device = "spi_led", n = 4, o \in LedRegisters
        PROVE  Low(value, n) = led[o]
    <3> DEFINE values == [q \in Words(o, 4, 4) |-> LedReg(q)]
    <3>1. (CHOOSE q \in of("spi_led") : TRUE) = s /\ of("spi_led") # {} /\ of("mem") = {}
      BY <2>2, <2>3
    <3>2. bus_read(addr, 4) = ReadBy(4, values, o, 4)
      BY <3>1 DEF bus_read
    <3>3. o % 4 = 0
      BY <2>3 DEF LedRegisters, LedWritable, LED_LINE, LED_RGB1, LED_RGB2, KBDWR_DIRECT,
                  KNOBS_DIRECT, KNOBS_8BIT
    <3> HIDE DEF o
    <3>4. o \in Words(o, 4, 4)
      <4>1. o \in Covered(o, 4) /\ o - (o % 4) = o
        BY <2>1, <3>3 DEF Covered
      <4> QED
        BY <4>1 DEF Words
    <3>5. values[o] = led[o]
      BY <2>3, <3>4 DEF LedReg
    <3>6. led[o] \in [0 .. (4 - 1) -> Byte]
      BY <1>1, <2>3 DEF DevTypes
    <3> HIDE DEF values
    <3>7. ReadBy(4, values, o, 4) = Simulated(led[o])
      BY <1>1, <2>1, <3>3, <3>5, <3>6, WordRead
    <3>8. bus_read(addr, 4) = Simulated(led[o])
      BY <3>2, <3>7
    <3> DEFINE w == led[o]
    <3>9. w \in [0 .. (4 - 1) -> Byte] /\ bus_read(addr, 4) = Simulated(w) /\ 4 \in {1, 2, 4, 8}
      BY <3>6, <3>8
    <3> HIDE DEF w
    <3>10. Low(Extended(r[1], read_generic(addr, 4)), 4) = w
      BY <1>1, <3>9, NumberRead
    <3> QED
      BY <2>3, <3>10 DEF value, w
  <2>4. ASSUME s.device = "lcd", n = 2, o % 2 = 0, o + 1 < FbBytes
        PROVE  Low(value, n) = read_raw_pixel(o)
    <3> DEFINE values == [q \in Words(o, 2, 2) |-> read_raw_pixel(q)]
    <3>1. /\ (CHOOSE q \in of("lcd") : TRUE) = s /\ of("lcd") # {}
          /\ of("mem") = {} /\ of("spi_led") = {}
      BY <2>2, <2>4
    <3>2. bus_read(addr, 2) = ReadBy(2, values, o, 2)
      BY <3>1 DEF bus_read
    <3> HIDE DEF o
    <3>3. o \in Words(o, 2, 2)
      <4>1. o \in Covered(o, 2) /\ o - (o % 2) = o
        BY <2>1, <2>4 DEF Covered
      <4> QED
        BY <4>1 DEF Words
    <3>4. values[o] = read_raw_pixel(o)
      BY <3>3
    <3> DEFINE w == read_raw_pixel(o)
    <3>5. w \in [0 .. (2 - 1) -> Byte]
      <4>1. w \in [0 .. 1 -> Byte]
        BY <1>1, <2>1, PixelTypes
      <4> HIDE DEF w
      <4> QED
        BY <4>1
    <3>6. values[o] = w
      BY <3>4
    <3> HIDE DEF values, w
    <3>7. ReadBy(2, values, o, 2) = Simulated(w)
      BY <1>1, <2>1, <2>4, <3>5, <3>6, WordRead
    <3>8. bus_read(addr, 2) = Simulated(w) /\ 2 \in {1, 2, 4, 8}
      BY <3>2, <3>7
    <3>9. Low(Extended(r[1], read_generic(addr, 2)), 2) = w
      BY <1>1, <3>5, <3>8, NumberRead
    <3> QED
      BY <2>4, <3>9 DEF value, w
  <2> QED
    BY <2>3, <2>4
<1>8. DeviceNumbersKept'
  <2> DEFINE Read(s) ==
               /\ s.device = "spi_led" /\ n = 4 /\ addr - s.start \in LedRegisters =>
                     Low(value, n) = led'[addr - s.start]
               /\ s.device = "lcd" /\ n = 2 /\ (addr - s.start) % 2 = 0 /\ addr - s.start + 1 < FbBytes =>
                     Low(value, n) = read_raw_pixel(addr - s.start)'
  <2>1. \A s \in Ranges : addr >= s.start /\ addr <= s.last => Read(s)
    BY <1>3, <1>6, <1>7
  <2> HIDE DEF addr
  <2> QED
    BY <1>4, <1>5, <2>1 DEF DeviceNumbersKept
<1> QED
  BY <1>3, <1>8

\* A knob is turned; nothing else changes the register of the knobs.
LEMMA DevKnob ==
    ASSUME DevInv, NEW k \in setup.use.knobs, NEW v \in {0, 255}, knob_update_notify(k, v)
    PROVE  /\ DevTypes' /\ DeviceNumbersKept' /\ DisplayShowsPixels' /\ Seen' = Seen
           /\ \A r \in Ranges : r.device = "spi_led" =>
                 Covered(r.start + KNOBS_8BIT, 4) \subseteq notified'
<1>1. SetupOk /\ DevTypes /\ DisplayShowsPixels /\ k \in 0 .. 3 /\ BusInv
  BY UseFacts DEF DevInv, RamInv
<1>2. /\ led' = [led EXCEPT ![KNOBS_8BIT][k] = v] /\ last' = NoAccess
      /\ UNCHANGED <<busVars, ram, fb_data, shown, change_counter, setup>>
  BY DEF knob_update_notify
<1>3. KNOBS_8BIT \in LedRegisters
  BY DEF LedRegisters
<1>4. DevTypes'
  <2>1. v \in Byte
    BY DEF Byte
  <2>2. led \in [LedRegisters -> [0 .. 3 -> Byte]]
    BY <1>1 DEF DevTypes
  <2>3. [led[KNOBS_8BIT] EXCEPT ![k] = v] \in [0 .. 3 -> Byte]
    BY <1>1, <1>3, <2>1, <2>2
  <2>4. led' \in [LedRegisters -> [0 .. 3 -> Byte]]
    BY <1>2, <2>2, <2>3
  <2> QED
    BY <1>1, <1>2, <2>4 DEF DevTypes
<1>5. DeviceNumbersKept'
  <2>1. last'.ctl = "AC_U8"
    BY <1>2 DEF NoAccess, Access
  <2> QED
    BY <2>1, NoNumbers
<1>6. DisplayShowsPixels'
  BY <1>1, <1>2 DEF DisplayShowsPixels, read_raw_pixel, Native, byteswap_if
<1>7. Seen' = Seen
  <2>1. led \in [LedRegisters -> [0 .. 3 -> Byte]]
    BY <1>1 DEF DevTypes
  <2>2. [led' EXCEPT ![KNOBS_8BIT] = 0] = [led EXCEPT ![KNOBS_8BIT] = 0]
    BY <1>2, <1>3, <2>1
  <2>3. Content' = Content
    BY <1>2 DEF Content
  <2> QED
    BY <1>2, <2>2, <2>3 DEF Seen
<1>8. ASSUME NEW r \in Ranges, r.device = "spi_led"
      PROVE  Covered(r.start + KNOBS_8BIT, 4) \subseteq notified'
  <2>1. PICK others \in SUBSET {q \in Ranges : q.device # "spi_led"} :
           notified' = UNION {AnnouncedRange(q, KNOBS_8BIT, KNOBS_8BIT + 3) :
                                q \in others \cup {s \in Ranges : s.device = "spi_led"}}
    BY DEF knob_update_notify
  <2>2. AnnouncedRange(r, KNOBS_8BIT, KNOBS_8BIT + 3) \subseteq notified'
    BY <1>8, <2>1
  <2>3. r.start \in Nat /\ r.last \in Nat
    BY <1>1, FiledFacts DEF Ranges
  <2>4. Covered(r.start + KNOBS_8BIT, 4) \subseteq AnnouncedRange(r, KNOBS_8BIT, KNOBS_8BIT + 3)
    BY <2>3 DEF Covered, AnnouncedRange, KNOBS_8BIT
  <2> QED
    BY <2>2, <2>4
<1> QED
  BY <1>4, <1>5, <1>6, <1>7, <1>8

\* Every byte and every change is where it belongs, after any step.
Counted == last'.op # "restart" /\ Seen' # Seen => change_counter' # change_counter
Announcing == led'[KNOBS_8BIT] # led[KNOBS_8BIT] =>
                 \A r \in Ranges : r.device = "spi_led" =>
                     Covered(r.start + KNOBS_8BIT, 4) \subseteq notified'

\* A step that is no access and leaves the devices alone.
LEMMA DevQuiet ==
    ASSUME DevInv, UNCHANGED <<led, fb_data, shown, change_counter, setup>>, last'.ctl = "AC_U8",
           ram' = ram \/ last'.op = "restart"
    PROVE  DevTypes' /\ DeviceNumbersKept' /\ DisplayShowsPixels' /\ Counted /\ Announcing
<1>1. DevTypes /\ DisplayShowsPixels
  BY DEF DevInv
<1>2. DisplayShowsPixels'
  BY <1>1 DEF DisplayShowsPixels, read_raw_pixel, Native, byteswap_if
<1>3. ram' = ram => Seen' = Seen
  BY DEF Seen, Content
<1> QED
  BY <1>1, <1>2, <1>3, NoNumbers DEF DevTypes, Counted, Announcing

LEMMA DevNext ==
    ASSUME DevInv, [Next]_vars
    PROVE  DevInv' /\ Counted /\ Announcing
<1>1. RamInv'
  BY RamNext DEF DevInv
<1>2. ASSUME DevTypes' /\ DeviceNumbersKept' /\ DisplayShowsPixels'
      PROVE  DevInv'
  BY <1>1, <1>2 DEF DevInv
<1>3. CASE \E r \in setup.use.accesses, v \in setup.use.values : write_ctl(r[1], r[2], v)
  <2>1. PICK r \in setup.use.accesses, v \in setup.use.values : write_ctl(r[1], r[2], v)
    BY <1>3
  <2>2. /\ DevTypes' /\ DeviceNumbersKept' /\ DisplayShowsPixels'
        /\ Seen' # Seen => change_counter' # change_counter
        /\ led'[KNOBS_8BIT] = led[KNOBS_8BIT]
    BY <2>1, DevWrite
  <2> QED
    BY <1>2, <2>2 DEF Counted, Announcing
<1>4. CASE \E r \in setup.use.accesses : read_ctl(r[1], r[2])
  <2>1. PICK r \in setup.use.accesses : read_ctl(r[1], r[2])
    BY <1>4
  <2>2. DeviceNumbersKept' /\ UNCHANGED <<ram, led, fb_data, shown, change_counter>>
    BY <2>1, DevRead
  <2>3. setup' = setup
    BY <2>1 DEF read_ctl
  <2>4. DevTypes'
    BY <2>2 DEF DevInv, DevTypes
  <2>5. DisplayShowsPixels'
    BY <2>2, <2>3 DEF DevInv, DisplayShowsPixels, read_raw_pixel, Native, byteswap_if
  <2>6. Seen' = Seen
    BY <2>2 DEF Seen, Content
  <2> QED
    BY <1>2, <2>2, <2>4, <2>5, <2>6 DEF Counted, Announcing
<1>5. CASE \E k \in setup.use.knobs : \E v \in {0, 255} : knob_update_notify(k, v)
  <2>1. PICK k \in setup.use.knobs, v \in {0, 255} : knob_update_notify(k, v)
    BY <1>5
  <2>2. /\ DevTypes' /\ DeviceNumbersKept' /\ DisplayShowsPixels' /\ Seen' = Seen
        /\ \A r \in Ranges : r.device = "spi_led" =>
              Covered(r.start + KNOBS_8BIT, 4) \subseteq notified'
    BY <2>1, DevKnob
  <2> QED
    BY <1>2, <2>2 DEF Counted, Announcing
<1>6. CASE setup.use.restart /\ Restart
  <2>1. /\ UNCHANGED <<led, fb_data, shown, change_counter, setup>>
        /\ last'.ctl = "AC_U8" /\ last'.op = "restart"
    BY <1>6 DEF Restart, NoAccess, Access
  <2> QED
    BY <1>2, <2>1, DevQuiet
<1>7. CASE BusStep
  <2>1. /\ UNCHANGED <<led, fb_data, shown, change_counter, setup>> /\ ram' = ram
        /\ last'.ctl = "AC_U8"
    BY <1>7 DEF BusStep, NoAccess, Access
  <2> QED
    BY <1>2, <2>1, DevQuiet
<1>8. CASE UNCHANGED vars
  <2>1. /\ UNCHANGED <<busVars, ram, led, fb_data, shown, change_counter, last, setup>>
    BY <1>8 DEF vars
  <2>2. Ranges' = Ranges
    BY <2>1 DEF Ranges, busVars
  <2>3. \A o : read_raw_pixel(o)' = read_raw_pixel(o)
    BY <2>1 DEF read_raw_pixel, Native, byteswap_if
  <2>4. DeviceNumbersKept'
    BY <2>1, <2>2, <2>3 DEF DevInv, DeviceNumbersKept
  <2>5. DevTypes' /\ DisplayShowsPixels'
    BY <2>1, <2>3 DEF DevInv, DevTypes, DisplayShowsPixels
  <2>6. Seen' = Seen
    BY <2>1 DEF Seen, Content
  <2> QED
    BY <1>2, <2>1, <2>4, <2>5, <2>6 DEF Counted, Announcing
<1> QED
  BY <1>3, <1>4, <1>5, <1>6, <1>7, <1>8 DEF Next

LEMMA DevInit == Init => DevInv
<1> SUFFICES ASSUME Init PROVE DevInv
  OBVIOUS
<1>1. RamInv
  BY RamInit
<1>2. SetupOk
  BY <1>1 DEF RamInv
<1>3. /\ led = [r \in LedRegisters |-> Zero(4)] /\ fb_data = [a \in 0 .. (FbBytes - 1) |-> 0]
      /\ shown = [xy \in Pixels |-> Zero(2)] /\ change_counter = 0 /\ last = NoAccess
  BY DEF Init
<1>4. DevTypes
  <2>1. Zero(4) \in [0 .. 3 -> Byte] /\ 0 \in Byte
    BY DEF Zero, Byte
  <2>2. CounterMod \in Nat /\ CounterMod > 1
    BY MemoryFacts
  <2> QED
    BY <1>3, <2>1, <2>2 DEF DevTypes
<1>5. DeviceNumbersKept
  BY <1>3 DEF DeviceNumbersKept, NoAccess, Access, CtlSize
<1>6. Native(Zero(2)) = Zero(2)
  <2>1. DOMAIN Zero(2) = 0 .. (2 - 1)
    BY DEF Zero
  <2>2. Cardinality(DOMAIN Zero(2)) = 2
    BY <2>1, CountUpTo
  <2>3. Swapped(Zero(2)) = Zero(2)
    BY <2>1, <2>2 DEF Swapped, Zero
  <2> QED
    BY <2>3 DEF Native, byteswap_if
<1>7. DisplayShowsPixels
  <2> SUFFICES ASSUME NEW xy \in Pixels
               PROVE  shown[xy] = read_raw_pixel(get_address_from_pixel(xy[1], xy[2]))
    BY DEF DisplayShowsPixels
  <2> DEFINE a == get_address_from_pixel(xy[1], xy[2])
  <2>1. a \in Nat /\ a + 1 < FbBytes
    BY PixelPlace
  <2> HIDE DEF a
  <2>2. FbBytes \in Nat
    BY MemoryFacts DEF FbBytes
  <2>3. \A i \in 0 .. 1 : fb_data[a + i] = 0
    BY <1>3, <2>1, <2>2
  <2>4. [i \in 0 .. 1 |-> fb_data[a + i]] = Zero(2)
    BY <2>3 DEF Zero
  <2>5. read_raw_pixel(a) = Zero(2)
    BY <1>6, <2>1, <2>2, <2>4 DEF read_raw_pixel
  <2> QED
    BY <1>3, <2>5 DEF a
<1> QED
  BY <1>1, <1>4, <1>5, <1>7 DEF DevInv

\* For every display, set of segments and byte order of host and machine, with devices
\* coming and going: a number a program stores in a register of the LED peripheral or in
\* a pixel is the number the device and the program then find there, the display shows
\* the frame buffer, what a program changes is counted and a knob that is turned is
\* announced (peripspiled.cpp, lcddisplay.cpp, memory_bus.cpp).
THEOREM DevicesAgree == Spec => DevicesFaithful
<1>1. DevInv => TypeOK
  BY LoadedIsTree DEF DevInv, RamInv, DevTypes, TypeOK, BusInv
<1>2. DevInv => DeviceNumbersKept /\ DisplayShowsPixels
  BY DEF DevInv
<1>3. DevInv /\ [Next]_vars => DevInv'
  BY DevNext
<1>4. DevInv /\ [Next]_vars =>
        [last'.op # "restart" /\ <<Content, fb_data, [led EXCEPT ![KNOBS_8BIT] = 0]>>'
                             # <<Content, fb_data, [led EXCEPT ![KNOBS_8BIT] = 0]>>
          => change_counter' # change_counter]_vars
  BY DevNext DEF Counted, Seen
<1>5. DevInv /\ [Next]_vars =>
        [led'[KNOBS_8BIT] # led[KNOBS_8BIT] =>
          \A r \in Ranges : r.device = "spi_led" =>
              Covered(r.start + KNOBS_8BIT, 4) \subseteq notified']_vars
  BY DevNext DEF Announcing
<1> QED
  BY <1>1, <1>2, <1>3, <1>4, <1>5, DevInit, PTL DEF Spec, DevicesFaithful, WritesCounted, KnobAnnounced
=============================================================================
