------------------------------- MODULE Codec -------------------------------
(***************************************************************************)
(* Drives the encodings of WireFormat with one input after another: values *)
(* at the edges of the varint lengths, messages, requests, and datagrams   *)
(* that no serialize produced.                                             *)
(***************************************************************************)
EXTENDS WireFormat

CONSTANTS Numbers, Messages, Addresses, Paddings, Datagrams

(* Lengths and other values fit the 62 bits of a varint, session and       *)
(* packet ids are of 32 and of 16 bits, and the address of a message is a  *)
(* String.                                                                 *)
ASSUME CodecAssumption ==
    /\ \A v \in Numbers : v \in Nat /\ Shift(v, 7) < LowRange
    /\ \A m \in Messages :
         /\ m \in UdpMessage /\ {m.addr, m.data} \subseteq Seq(Byte) /\ IsUtf8(m.addr)
         /\ Shift(m.session_id, 4) = 0 /\ Shift(m.packet_id, 2) = 0
         /\ Shift(Len(m.addr), 7) < LowRange
    /\ \A s \in Addresses \cup Paddings : s \in Seq(Byte) /\ Shift(Len(s), 7) < LowRange
    /\ Datagrams \subseteq Seq(Byte)

VARIABLES job, bytes, back    \* an input, its encoding, the tuple of what decodes from it

cvars == <<job, bytes, back>>

CodecInit == job = [kind |-> "none"] /\ bytes = << >> /\ back = << >>

Varints ==
    \E v \in Numbers, rest \in Paddings :
      /\ job' = [kind |-> "varint", value |-> v]
      /\ bytes' = PutVarint(v)
      /\ back' = GetVarint(bytes' \o rest)

UdpMessages ==
    \E m \in Messages :
      /\ job' = [kind |-> "udp", value |-> m]
      /\ bytes' = Serialize(m)
      /\ back' = <<Parse(bytes')>>

TcpRequests ==
    \E a \in Addresses, p \in Paddings :
      /\ job' = [kind |-> "tcp", value |-> <<FrameType, a, p, << >> >>]
      /\ bytes' = EncodeTcpRequest(a, p)
      /\ back' = DecodeTcpRequest(bytes')

RawDatagrams ==
    \E b \in Datagrams :
      /\ job' = [kind |-> "raw", value |-> b]
      /\ bytes' = b
      /\ back' = <<Parse(b)>>

Clear == job' = [kind |-> "none"] /\ bytes' = << >> /\ back' = << >>

CodecNext ==
    \/ job.kind = "none" /\ (Varints \/ UdpMessages \/ TcpRequests \/ RawDatagrams)
    \/ job.kind # "none" /\ Clear

CodecSpec == CodecInit /\ [][CodecNext]_cvars

-----------------------------------------------------------------------------

(* Decoding undoes encoding. get_varint consumes exactly varint_len bytes  *)
(* whatever follows them, at every edge between the four lengths;          *)
(* serialize writes size() bytes, and parse gives the message back unless  *)
(* its address is empty or too long or its payload is empty, which it      *)
(* refuses; and the server reads out of a TCPRequest the frame type, the   *)
(* address and the padding that went in, with no byte left over.           *)
RoundTrips ==
    /\ job.kind = "varint" =>
         back = <<job.value, VarintLen(job.value)>> /\ Len(bytes) = VarintLen(job.value)
    /\ job.kind = "udp" =>
         LET m == job.value
         IN  /\ Len(bytes) = Size(m)
             /\ back = <<IF Len(m.addr) \in 1 .. MaxAddrLength /\ m.data # << >>
                         THEN m ELSE None>>
    /\ job.kind = "tcp" => back = job.value

(* Whatever datagram comes in, a message that parse accepts accounts for   *)
(* every byte of it: its payload and address are where the header says.    *)
ParsedIsAllOfIt ==
    job.kind = "raw" /\ back[1] # None =>
      LET m == back[1]
      IN  /\ m.addr # << >> /\ m.data # << >>
          /\ m.addr \o m.data = SubSeq(bytes, Len(bytes) - Len(m.addr) - Len(m.data) + 1, Len(bytes))
          /\ SubSeq(bytes, 1, 8) = SubSeq(Serialize(m), 1, 8)
          /\ Len(bytes) >= Size(m)
=============================================================================
