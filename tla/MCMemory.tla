------------------------------ MODULE MCMemory -------------------------------
(***************************************************************************)
(* A small machine: sections of four bytes, a display of two by two pixels,*)
(* the peripherals of Machine at addresses of their own.                   *)
(***************************************************************************)
EXTENDS MemorySystem

Map(d, s, l, o) == [device |-> d, start |-> s, last |-> l, owns |-> o]

MCDevices == {"mem", "spi_led", "lcd", "serial"}
\* Machine's mapping, the serial port at two places, and a range over its end
MCMappings ==
    { Map("mem", 0, 15, FALSE), Map("lcd", 24, 31, TRUE), Map("spi_led", 64, 127, TRUE),
      Map("serial", 40, 43, TRUE), Map("serial", 48, 51, FALSE), Map("serial", 50, 53, FALSE) }
MCPlugged == MCMappings \ {Map("serial", 50, 53, FALSE)}

V(f) == [i \in 0 .. 7 |-> IF i \in DOMAIN f THEN f[i] ELSE 0]
MCValues == {V([i \in {0} |-> 255]), V([i \in {1, 3} |-> 255])}

AllOrders == {"LITTLE", "BIG"} \X {"LITTLE", "BIG"}       \* of the host and of the machine

MCUses ==
    { \* the memory: within a section, and over the ends of two, with and without gaps
      [accesses |-> {<<"AC_I32", 4>>, <<"AC_U32", 10>>, <<"AC_I16", 7>>, <<"AC_U8", 5>>, <<"AC_I8", 12>>},
       values |-> MCValues, knobs |-> {}, restart |-> TRUE, plugged |-> MCPlugged, orders |-> AllOrders, areas |-> {}],
      \* the display, and an address where nothing is
      [accesses |-> {<<"AC_U32", 24>>, <<"AC_U16", 26>>, <<"AC_I16", 28>>, <<"AC_U8", 31>>, <<"AC_U32", 32>>},
       values |-> MCValues, knobs |-> {}, restart |-> FALSE, plugged |-> MCPlugged, orders |-> AllOrders, areas |-> {}],
      \* LEDs and knobs
      [accesses |-> {<<"AC_U32", 68>>, <<"AC_U16", 70>>, <<"AC_U8", 80>>, <<"AC_U32", 100>>, <<"AC_U32", 96>>},
       values |-> MCValues, knobs |-> {0, 2}, restart |-> FALSE, plugged |-> MCPlugged, orders |-> AllOrders, areas |-> {}],
      \* devices come and go
      [accesses |-> {<<"AC_U8", 64>>, <<"AC_I16", 6>>}, values |-> {V([i \in {0} |-> 255])}, knobs |-> {0},
       restart |-> FALSE, plugged |-> {}, orders |-> {<<"LITTLE", "BIG">>},
       areas |-> {<<20, 48>>, <<42, 64>>}] }

MCSegments == <<[vaddr |-> 3, bytes |-> [i \in 0 .. 2 |-> 255]], [vaddr |-> 4, bytes |-> [i \in {0} |-> 0]]>>
=============================================================================
