--------------------------------- MODULE Ble ---------------------------------
(***************************************************************************)
(* The frames of an APDU over Bluetooth (host/ble.py).  A frame has a tag,  *)
(* its number and, if it is the first, the length of the APDU.  The stack   *)
(* of the device is external: it cuts a reply and puts an APDU together by  *)
(* the same rules.                                                          *)
(*                                                                          *)
(* A frame is given by its fields; the header takes 5 bytes in the first    *)
(* one, and 3 in the others.                                                *)
(***************************************************************************)
EXTENDS Integers, Sequences, FiniteSets, SequencesExt

CONSTANT mtu            \* 0x99, which get_client_ble asserts

ASSUME BleAssumption == mtu \in Nat /\ mtu > 5

FirstHeader == 5
NextHeader == 3

\* Faulty variant: the length is forgotten in the first header.
RoomWithoutLength(i) == mtu - NextHeader

\* The bytes of the APDU in chunk i, which counts from 0.
Room(i) == mtu - (IF i = 0 THEN FirstHeader ELSE NextHeader)

\* Where chunk i starts.
Start(i) == IF i = 0 THEN 0 ELSE Room(0) + (i - 1) * Room(1)

\* The loops of async_exchange_ble; the device frames a reply alike.
Frames(apdu) ==
    LET count == Cardinality({i \in 0 .. Len(apdu) : Start(i) < Len(apdu)})
    IN  [k \in 1 .. count |->
            [tag |-> 5, index |-> k - 1, header |-> IF k = 1 THEN FirstHeader ELSE NextHeader,
             total |-> Len(apdu),                       \* in the first only
             data |-> SubSeq(apdu, Start(k - 1) + 1, Min({Start(k), Len(apdu)}))]]

NotAnApdu == [apdu |-> <<>>, left |-> <<>>, ok |-> FALSE]

\* wait_for_apdu: what it takes from the queue of notifications, two frames at most.  Its
\* assertions give ok.
wait_for_apdu(queue) ==
    LET first == queue[1]
        more == Len(first.data) < first.total
        second == queue[2]
        apdu == first.data \o (IF more THEN second.data ELSE <<>>)
        taken == IF more THEN 2 ELSE 1
    IN  IF Len(queue) < taken THEN NotAnApdu
        ELSE [apdu |-> apdu, left |-> SubSeq(queue, taken + 1, Len(queue)),
              ok |-> /\ first.tag = 5 /\ first.index = 0
                     /\ more => second.tag = 5 /\ second.index = 1
                     /\ Len(apdu) = first.total]

\* What the device makes of the frames.
Assembled(frames) == FlattenSeq([k \in DOMAIN frames |-> frames[k].data])
-----------------------------------------------------------------------------
(* Properties. *)

\* Whatever its length, an APDU fits the frames it is cut into and arrives whole; and a reply
\* takes no notification more or less from the queue than it has, so that the next exchange
\* starts with its own.
ArrivesWhole(request, reply) ==
    LET sent == Frames(request)
        got == wait_for_apdu(Frames(reply))
    IN  /\ \A k \in DOMAIN sent : sent[k].header + Len(sent[k].data) =< mtu
        /\ Assembled(sent) = request
        /\ got.ok /\ got.apdu = reply /\ got.left = <<>>
=============================================================================
