----------------------------- MODULE WireFormat -----------------------------
(***************************************************************************)
(* The byte encodings of protocol.rs: UdpMessage::serialize and parse, and *)
(* the TCPRequest frame. Addresses are ASCII, the part of UTF-8 in which   *)
(* every byte stands for itself.                                           *)
(***************************************************************************)
EXTENDS Fragmentation

CONSTANT MaxAddrLength   \* MAX_MESSAGE_LENGTH (2048)

ASSUME MaxAddrAssumption == MaxAddrLength \in Nat

FrameType == 1025        \* FRAME_TYPE_TCP_REQUEST (0x401)

(* to_be_bytes and from_be_bytes of an integer of n bytes. *)
BigEndian(v, n) == [k \in 1..n |-> Shift(v, n - k) % Radix]

FromBigEndian(s) ==
    LET val[k \in 0..Len(s)] == IF k = 0 THEN 0 ELSE val[k-1] * Radix + s[k]
    IN  val[Len(s)]

Serialize(m) ==
    BigEndian(m.session_id, 4) \o BigEndian(m.packet_id, 2)
      \o <<m.frag_id, m.frag_count>> \o PutVarintSlice(Len(m.addr)) \o m.addr \o m.data

(* String::from_utf8, on ASCII. *)
IsUtf8(s) == \A i \in DOMAIN s : s[i] < 2 * LowRange

Parse_bug_EmptyDataKept(b) ==
    IF Len(b) < 8 THEN None
    ELSE LET len  == GetVarint(SubSeq(b, 9, Len(b)))
             addr == SubSeq(b, 8 + len[2] + 1, 8 + len[2] + len[1])
         IN  IF len = << >> \/ len[1] = 0 \/ len[1] > MaxAddrLength THEN None
             ELSE IF Len(b) < 8 + len[2] + len[1] \/ ~IsUtf8(addr) THEN None
             ELSE [session_id |-> FromBigEndian(SubSeq(b, 1, 4)),
                   packet_id  |-> FromBigEndian(SubSeq(b, 5, 6)),
                   frag_id    |-> b[7],
                   frag_count |-> b[8],
                   addr       |-> addr,
                   data       |-> SubSeq(b, 8 + len[2] + len[1] + 1, Len(b))]

(* UdpMessage::parse: an address and at least one byte of data must follow *)
(* the fixed fields.                                                       *)
Parse(b) ==
    IF Len(b) < 8 THEN None
    ELSE LET len  == GetVarint(SubSeq(b, 9, Len(b)))
             addr == SubSeq(b, 8 + len[2] + 1, 8 + len[2] + len[1])
         IN  IF len = << >> \/ len[1] = 0 \/ len[1] > MaxAddrLength THEN None
             ELSE IF Len(b) <= 8 + len[2] + len[1] \/ ~IsUtf8(addr) THEN None
             ELSE [session_id |-> FromBigEndian(SubSeq(b, 1, 4)),
                   packet_id  |-> FromBigEndian(SubSeq(b, 5, 6)),
                   frag_id    |-> b[7],
                   frag_count |-> b[8],
                   addr       |-> addr,
                   data       |-> SubSeq(b, 8 + len[2] + len[1] + 1, Len(b))]

(* encode_tcp_request, for the random padding pad. *)
EncodeTcpRequest(address, pad) ==
    PutVarint(FrameType) \o PutVarint(Len(address)) \o address
      \o PutVarint(Len(pad)) \o pad

-----------------------------------------------------------------------------
(* The other end, for reference.                                           *)

(* The server's reading of a TCPRequest: the frame type, the address, the  *)
(* padding, and what is left over on the stream for the proxied host.      *)
DecodeTcpRequest(b) ==
    LET ft   == GetVarint(b)
        b1   == SubSeq(b, ft[2] + 1, Len(b))
        alen == GetVarint(b1)
        b2   == SubSeq(b1, alen[2] + alen[1] + 1, Len(b1))
        plen == GetVarint(b2)
    IN  <<ft[1], SubSeq(b1, alen[2] + 1, alen[2] + alen[1]),
          SubSeq(b2, plen[2] + 1, plen[2] + plen[1]), SubSeq(b2, plen[2] + plen[1] + 1, Len(b2))>>

(* What the peer parses of a datagram made from m. *)
Transferred(m) == Parse(Serialize(m))
=============================================================================
