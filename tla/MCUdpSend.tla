------------------------------ MODULE MCUdpSend ------------------------------
(* Two concurrent calls. A header is 9 bytes plus the address, so with     *)
(* limits of 11 and 12 the requests need one, two or three datagrams       *)
(* depending on when the limit is read; the last one may need four, which  *)
(* is one more than a u8 of four values can count.                         *)
EXTENDS UdpSend, TLC

MCRequests ==
    {[addr |-> <<1>>, data |-> <<1, 2>>], [addr |-> <<1>>, data |-> <<3, 4, 5>>],
     [addr |-> <<2>>, data |-> <<6, 7, 8, 9>>]}

Symmetry == Permutations(Calls)

(* A payload that needs five datagrams, U8 being four. *)
LongPayload == {[addr |-> <<1>>, data |-> <<1, 2, 3, 4, 5>>]}
=============================================================================
