------------------------------ MODULE CharFifo -------------------------------
(***************************************************************************)
(* What a program may rely on when it reads the serial port: the           *)
(* characters typed into the terminal arrive once each and in the order    *)
(* they were typed.  The user may erase the end of what was not received.  *)
(***************************************************************************)
EXTENDS Sequences, Naturals

CONSTANTS Chars, NoChar

VARIABLES waiting,  \* typed and not received
          got       \* what the program received last

Init == waiting = <<>> /\ got = NoChar

Type == /\ \E c \in Chars : waiting' = Append(waiting, c)
        /\ UNCHANGED got

Erase == /\ \E n \in 0 .. Len(waiting) : waiting' = SubSeq(waiting, 1, n)
         /\ UNCHANGED got

Receive == /\ waiting # <<>>
           /\ got' = Head(waiting)
           /\ waiting' = Tail(waiting)

ReceiveNothing == /\ waiting = <<>>
                  /\ got' = NoChar
                  /\ UNCHANGED waiting

Next == Type \/ Erase \/ Receive \/ ReceiveNothing

Spec == Init /\ [][Next]_<<waiting, got>>
=============================================================================
