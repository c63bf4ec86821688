----------------------------- MODULE MCUdpRelay -----------------------------
(* Inbound traffic for the session ids 1 and 0 (which is what 2 wraps to   *)
(* when IdMod is 2): the two fragments of a packet, a fragment of the same *)
(* packet_id for the other session, and an unfragmented message.           *)
EXTENDS UdpRelay

Msg(sid, pid, fid, n) ==
    [session_id |-> sid, packet_id |-> pid, frag_id |-> fid, frag_count |-> n,
     addr |-> <<1>>, data |-> <<10 * sid + fid>>]

MCInbound == {Msg(1, 2, 0, 2), Msg(1, 2, 1, 2), Msg(0, 2, 1, 2)}

OneMessage == {Msg(1, 0, 0, 1)}
=============================================================================
