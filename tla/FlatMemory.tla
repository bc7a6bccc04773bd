----------------------------- MODULE FlatMemory ------------------------------
(***************************************************************************)
(* What the simulated processor may rely on, whatever lies between it and  *)
(* the backing memory: one array of bytes that changes only by what is     *)
(* written, and in which a read returns what was last written.  Cache.tla  *)
(* is shown to implement it.  The variable io makes every event at the     *)
(* interface visible, so that no change of the memory can pass for another *)
(* event's.                                                                *)
(***************************************************************************)
EXTENDS Naturals

CONSTANTS Addr,           \* the addresses
          Val,            \* the values of a byte
          Requests,       \* the accesses the processor makes
          DebugRequests,  \* the reads the user interface makes
          DeviceAddrs,    \* the addresses a peripheral changes by itself
          Image,          \* the memory image the machine starts from
          ProgramLoaded   \* whether the machine keeps that image for a restart

VARIABLES store,   \* the memory
          io       \* the event at the interface: a write with its data, a
                   \* read with its answer, ...

Event(op, addr, data) == [op |-> op, addr |-> addr, data |-> data]
NoEvent == Event("none", 0, [i \in {} |-> 0])

Init == /\ store = Image
        /\ io = NoEvent

Write(r, buf) ==
    /\ io' = Event("write", r.addr, buf)
    /\ store' = [a \in Addr |-> IF a \in r.addr .. (r.addr + r.size - 1)
                                THEN buf[a - r.addr] ELSE store[a]]

Read(r) ==
    /\ io' = Event("read", r.addr, [i \in 0 .. (r.size - 1) |-> store[r.addr + i]])
    /\ UNCHANGED store

DeviceChange(a, v) ==
    /\ io' = Event("device", a, [i \in {0} |-> v])
    /\ store' = [store EXCEPT ![a] = v]

Restart == /\ store' = IF ProgramLoaded THEN Image ELSE store
           /\ io' = Event("restart", 0, [i \in {} |-> 0])

\* the event is over
Quiet == /\ io' = NoEvent
         /\ UNCHANGED store

Next == \/ \E r \in Requests :
              \/ \E buf \in [0 .. (r.size - 1) -> Val] : Write(r, buf)
              \/ Read(r)
        \/ \E r \in DebugRequests : Read(r)
        \/ \E a \in DeviceAddrs, v \in Val : DeviceChange(a, v)
        \/ Restart \/ Quiet

Spec == Init /\ [][Next]_<<store, io>>

=============================================================================
