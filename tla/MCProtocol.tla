----------------------------- MODULE MCProtocol -----------------------------
(***************************************************************************)
(* What the client reads and writes on the wire: the encodings, one        *)
(* Defragger and one TCP stream. They share their parameters and no state, *)
(* so a behaviour exercises one of them. The stream of the others is one   *)
(* on which nothing ever arrives.                                          *)
(***************************************************************************)
EXTENDS Codec, Reassembly, TcpStream, SequencesExt

VARIABLE part    \* codec, defrag or stream

-----------------------------------------------------------------------------
(* LowRange 2 makes a byte 0..7 and moves the edges of the varint lengths  *)
(* to 2, 16 and 1024.                                                      *)

MCNumbers == {0, 1, 2, 3, 15, 16, 17, 1023, 1024, 1025, 100000, FrameType}

Texts == {<< >>, <<1>>, <<3, 2>>, [i \in 1..15 |-> 1], [i \in 1..16 |-> 2]}

MCMessages ==
    [session_id : {0, 9, 4095}, packet_id : {0, 63}, frag_id : {0, 7}, frag_count : {1, 7},
     addr : Texts, data : {<< >>, <<0>>, <<7, 1>>}]

MCDatagrams ==
    BoundedSeq({0, 7}, 3)
      \cup {<<0, 0, 0, 1, 0, 1, 0, 1>> \o s : s \in BoundedSeq({0, 1, 2, 5}, 5)}

-----------------------------------------------------------------------------
(* Packets of one session: two ids, one of them used with two fragment     *)
(* counts, an unfragmented message and two malformed ones. Late copies of  *)
(* a packet of five fragments take the count beyond its last value, 7.     *)

Packet(pid, payload) ==
    [session_id |-> 1, packet_id |-> pid, frag_id |-> 0, frag_count |-> 1,
     addr |-> <<5>>, data |-> payload]

Limit == 12    \* 10 bytes of header and 2 of payload to a datagram

Packets ==
    {Packet(1, <<1, 2, 3>>), Packet(2, <<4, 5, 6, 7>>), Packet(2, [i \in 1..9 |-> 7 + i])}

Malformed ==
    {[Packet(1, <<17>>) EXCEPT !.frag_id = 2, !.frag_count = 2],
     [Packet(1, <<18>>) EXCEPT !.frag_id = 1, !.frag_count = 0]}

MCWire ==
    UNION {Range(FragUdpMessage(p, Limit)) : p \in Packets}
      \cup {Packet(0, <<19>>)} \cup Malformed

(* Packets that differ in id or in fragment count are never mixed: what    *)
(* feed returns for fragments made by frag_udp_message is the message the  *)
(* peer split.                                                             *)
RoundTrip ==
    \A o \in Range(out) : o \in Packets \/ (o \in MCWire /\ Whole(o))

-----------------------------------------------------------------------------
(* 0 and 1 are one-byte varints, 2 and 3 open a two-byte one. The streams  *)
(* are all of up to four such bytes, and longer ones for every kind of     *)
(* header: with a message, with padding, with data behind it, a rejection, *)
(* a length field beyond the guard, and one of four bytes.                 *)

LongStreams ==
    {<<0, 0, 0, 3, 2>>, <<0, 2, 1, 2, 0, 3>>, <<0, 0, 2, 1, 2, 3>>, <<0, 2, 1, 2, 2, 1, 3, 2>>,
     <<1, 2, 1, 2, 0>>, <<0, 0, 2, 3, 1>>, <<0, 1, 5, 1, 6, 7>>, <<0, 4, 0, 0, 1, 7, 0, 3>>}

MCStreams == {w \in BoundedSeq({0, 1, 2, 3}, 4) : w # << >> => w[1] <= 1} \cup LongStreams

-----------------------------------------------------------------------------

MCInit ==
    /\ part \in {"codec", "defrag", "stream"}
    /\ CodecInit /\ DefragInit /\ Init
    /\ part # "defrag" => overflow_checks = FALSE
    /\ part # "stream" => wire = << >> /\ ending = "open" /\ holder = "app"

MCNext ==
    \/ part = "codec" /\ CodecNext /\ UNCHANGED <<defrag_vars, vars, part>>
    \/ part = "defrag" /\ DefragNext /\ UNCHANGED <<cvars, vars, part>>
    \/ Next /\ UNCHANGED <<cvars, defrag_vars, part>>

MCSpec == MCInit /\ [][MCNext]_<<cvars, defrag_vars, vars, part>> /\ Fairness
=============================================================================
