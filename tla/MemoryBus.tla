----------------------------- MODULE MemoryBus -------------------------------
(***************************************************************************)
(* MemoryDataBus (memory_bus.cpp): which device answers at which address.  *)
(* The bus keeps two maps: ranges by their last address, in which an       *)
(* address is looked up, and ranges by device, most recent first, from     *)
(* which a device is removed.                                              *)
(***************************************************************************)
EXTENDS Naturals, Sequences, FiniteSets

CONSTANTS Devices,     \* the device objects that may be plugged in
          Mappings     \* the ranges they are inserted to

\* Devices are plugged in the way Machine does it: no range lies inside of
\* another one, and one range of a device at most owns it.
MappingsAssumption ==
    /\ Mappings \subseteq [device : Devices, start : Nat, last : Nat, owns : BOOLEAN]
    /\ IsFiniteSet(Mappings)
    /\ \A m \in Mappings : m.start <= m.last
    /\ \A m, n \in Mappings : m # n => ~(m.start <= n.start /\ n.last <= m.last)
    /\ \A m, n \in Mappings : m.owns /\ n.owns /\ m.device = n.device => m = n

ASSUME MappingsAssumption

VARIABLES ranges_by_addr,    \* last address -> range
          ranges_by_device,  \* device -> its ranges, the last inserted first
          alive              \* the device objects that exist

busVars == <<ranges_by_addr, ranges_by_device, alive>>

Ranges == {ranges_by_addr[k] : k \in DOMAIN ranges_by_addr}

\* The range with the lowest last address that is not below the address, if any.
LowerBound(a) ==
    {r \in Ranges : r.last >= a /\ \A k \in DOMAIN ranges_by_addr : k >= a => r.last <= k}

contains(r, a) == r.start <= a /\ a <= r.last
overlaps(r, m) == contains(r, m.start) \/ contains(r, m.last)

\* The range that answers for an address: at most one.
find_range(a) == {r \in LowerBound(a) : contains(r, a)}

TakenFirst(m) == \E r \in LowerBound(m.start) : contains(r, m.start)   \* fault: only the start
Taken(m)      == \E r \in LowerBound(m.start) : overlaps(r, m)

\* A device the bus owns is inserted by its owning range first.
Owned(d) == \E m \in Mappings : m.device = d /\ m.owns

insert_device_to_range(m) ==
    /\ m.device \in alive
    /\ Owned(m.device) => m.owns = (ranges_by_device[m.device] = << >>)
    /\ IF Taken(m)
       THEN UNCHANGED busVars
       ELSE /\ ranges_by_addr' = [k \in DOMAIN ranges_by_addr \cup {m.last} |->
                                     IF k = m.last THEN m ELSE ranges_by_addr[k]]
            /\ ranges_by_device' = [ranges_by_device EXCEPT ![m.device] = <<m>> \o @]
            /\ UNCHANGED alive

\* fault: the oldest range of the device is taken out
TakeOldest(n) ==
    LET taken == {ranges_by_device[d][Len(ranges_by_device[d])] : d \in {e \in Devices : n[e] > 0}}
    IN  /\ ranges_by_addr' = [k \in DOMAIN ranges_by_addr \ {r.last : r \in taken} |->
                                 ranges_by_addr[k]]
        /\ ranges_by_device' =
              [d \in Devices |-> SubSeq(ranges_by_device[d], 1, Len(ranges_by_device[d]) - n[d])]
        /\ alive' = alive \ {r.device : r \in {s \in taken : s.owns}}

\* The first n[d] ranges of every device d are taken out, and the devices
\* owned by one of them are destroyed.
TakeRanges(n) ==
    LET taken == UNION {{ranges_by_device[d][i] : i \in 1 .. n[d]} : d \in Devices}
    IN  /\ ranges_by_addr' = [k \in DOMAIN ranges_by_addr \ {r.last : r \in taken} |->
                                 ranges_by_addr[k]]
        /\ ranges_by_device' =
              [d \in Devices |-> SubSeq(ranges_by_device[d], n[d] + 1, Len(ranges_by_device[d]))]
        /\ alive' = alive \ {r.device : r \in {s \in taken : s.owns}}

remove_device(d) ==
    /\ ranges_by_device[d] # << >>
    /\ TakeRanges([e \in Devices |-> IF e = d THEN 1 ELSE 0])

\* The ranges from start_addr on that begin in the area, a device of each of
\* which is removed.  The loop goes on with an iterator whose element it has
\* just erased: after the first removal it may meet any of the others, or none.
clean_range(start_addr, last_addr) ==
    LET hit == {r \in Ranges : r.last >= start_addr /\ r.start <= last_addr}
    IN  \E first \in LowerBound(start_addr) \cap hit :
        \E more \in SUBSET (hit \ {first}) :
            TakeRanges([d \in Devices |-> Cardinality({r \in more \cup {first} : r.device = d})])

\* A new object for a device that was destroyed.
NewDevice(d) == /\ d \notin alive
                /\ alive' = alive \cup {d}
                /\ UNCHANGED <<ranges_by_addr, ranges_by_device>>

BusTypeOK ==
    /\ DOMAIN ranges_by_addr \subseteq {m.last : m \in Mappings}
    /\ \A k \in DOMAIN ranges_by_addr : ranges_by_addr[k] \in Mappings
    /\ ranges_by_device \in [Devices -> Seq(Mappings)]
    /\ alive \subseteq Devices

\* At every address of a range that was inserted and not removed, the bus finds
\* that range and no other: the one probe of lowerBound by the start address
\* is enough to refuse every overlap (insert_device_to_range).
RangesReachable ==
    \A d \in Devices : \A i \in 1 .. Len(ranges_by_device[d]) :
        LET r == ranges_by_device[d][i]
        IN  \A a \in r.start .. r.last : find_range(a) = {r}

\* No range leads to a device that was destroyed, although a device may be
\* inserted to several ranges of which one owns it (remove_device).
NoDanglingRange == \A r \in Ranges : r.device \in alive

\* The bus leads every address of an inserted range to its own, living device, after
\* any sequence of insertions and removals (insert_device_to_range, remove_device).
BusSound == RangesReachable /\ NoDanglingRange
=============================================================================
