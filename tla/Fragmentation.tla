---------------------------- MODULE Fragmentation ----------------------------
(***************************************************************************)
(* UDP relay messages of protocol.rs: their wire size, the splitting of a  *)
(* message into fragments and the Defragger that puts them together again. *)
(*                                                                         *)
(* A message is a record; addr and data are sequences, so that sizes are   *)
(* lengths. A Defragger is a record too, and Feed(d, m) is the pair        *)
(* <<Defragger afterwards, what feed returns>>, the latter << >> for       *)
(* Rust's None and <<m>> for Some(m). None is an empty slot.               *)
(***************************************************************************)
EXTENDS Integers, Sequences, Functions, Vectors, Varint

CONSTANTS
    U8,     \* number of values of a u8: frag_id, frag_count, count (256)
    None    \* Option::None in a slot

ASSUME U8Assumption == U8 \in Nat /\ U8 > 2

UdpMessage ==
    [session_id : Nat, packet_id : Nat, frag_id : 0..U8-1, frag_count : 0..U8-1,
     addr : Seq(Nat), data : Seq(Nat)]

ASSUME NoneAssumption == None \notin UdpMessage

HeaderSize(m) == 4 + 2 + 1 + 1 + VarintLen(Len(m.addr)) + Len(m.addr)

Size(m) == HeaderSize(m) + Len(m.data)

-----------------------------------------------------------------------------
(* frag_udp_message.                                                       *)

SaturatingSub(a, b) == IF a > b THEN a - b ELSE 0

MaxPayload(m, max_size) == SaturatingSub(max_size, HeaderSize(m))

(* Number of fragments (div_ceil), before it is cut down to a u8. *)
FragCount(m, max_size) ==
    (Len(m.data) + MaxPayload(m, max_size) - 1) \div MaxPayload(m, max_size)

(* The k-th turn of the loop; frag_id and frag_count are kept modulo U8.   *)
Fragment(m, max_size, k) ==
    LET p == MaxPayload(m, max_size)
        e == IF k * p < Len(m.data) THEN k * p ELSE Len(m.data)
    IN  [m EXCEPT !.frag_id    = (k - 1) % U8,
                  !.frag_count = FragCount(m, max_size) % U8,
                  !.data       = SubSeq(m.data, (k - 1) * p + 1, e)]

FragUdpMessage(m, max_size) ==
    IF Size(m) <= max_size THEN <<m>>
    ELSE IF MaxPayload(m, max_size) = 0 THEN << >>
    ELSE [k \in 1..FragCount(m, max_size) |-> Fragment(m, max_size, k)]

(* frag_id += 1 runs after every push, so the U8-th push overflows it: a   *)
(* build with overflow checks panics there, one without wraps to 0.        *)
FragIdOverflows(m, max_size) ==
    /\ Size(m) > max_size
    /\ MaxPayload(m, max_size) # 0
    /\ FragCount(m, max_size) >= U8

-----------------------------------------------------------------------------
(* Defragger.                                                              *)

DefraggerState ==
    [pkt_id : Nat, frags : Seq(UdpMessage \cup {None}),
     count : 0..U8-1, size : Nat]

(* Defragger::default() *)
NewDefragger == [pkt_id |-> 0, frags |-> << >>, count |-> 0, size |-> 0]

Whole(m) == m.frag_count <= 1

BadFragId(m) == m.frag_id >= m.frag_count

StartsPacket_bug_SameIdKept(d, m) == m.frag_count # Len(d.frags)

(* m is not of the packet being reassembled: the Defragger starts over. *)
StartsPacket(d, m) == m.packet_id # d.pkt_id \/ m.frag_count # Len(d.frags)

SlotFree(d, m) == d.frags[m.frag_id + 1] = None

Filled(d) == {i \in DOMAIN d.frags : d.frags[i] # None}

(* The wrapping u8 increment of a build without overflow checks. *)
WrapInc(c) == IF c + 1 = U8 THEN 0 ELSE c + 1

StartOver_bug_CountFromId(m) ==
    [pkt_id |-> m.packet_id,
     frags  |-> [i \in 1..m.frag_count |-> IF i = m.frag_id + 1 THEN m ELSE None],
     count  |-> m.frag_id + 1,
     size   |-> Len(m.data)]

StartOver(m) ==
    [pkt_id |-> m.packet_id,
     frags  |-> [i \in 1..m.frag_count |-> IF i = m.frag_id + 1 THEN m ELSE None],
     count  |-> 1,
     size   |-> Len(m.data)]

Store(d, m) ==
    [d EXCEPT !.frags[m.frag_id + 1] = m,
              !.count                = WrapInc(@),
              !.size                 = @ + Len(m.data)]

Drain_bug_CountReset(d) ==
    [d EXCEPT !.frags = [i \in DOMAIN d.frags |-> None], !.count = 0]

(* slot.take() on every slot: count keeps its value. *)
Drain(d) == [d EXCEPT !.frags = [i \in DOMAIN d.frags |-> None]]

(* The payloads in slot order, under the header of the first filled slot.  *)
Assemble(d) ==
    IF Filled(d) = {} THEN << >>
    ELSE <<[d.frags[CHOOSE i \in Filled(d) : \A j \in Filled(d) : i <= j]
              EXCEPT !.data       = Concat([i \in DOMAIN d.frags |->
                                      IF d.frags[i] = None THEN << >>
                                      ELSE d.frags[i].data]),
                     !.frag_id    = 0,
                     !.frag_count = 1]>>

Feed_bug_DuplicateCounted(d, m) ==
    IF Whole(m) THEN <<d, <<m>>>>
    ELSE IF BadFragId(m) THEN <<d, << >>>>
    ELSE IF StartsPacket(d, m) THEN <<StartOver(m), << >>>>
    ELSE LET s == Store(d, m)
         IN  IF s.count = Len(s.frags) THEN <<Drain(s), Assemble(s)>>
             ELSE <<s, << >>>>

Feed(d, m) ==
    IF Whole(m) THEN <<d, <<m>>>>
    ELSE IF BadFragId(m) THEN <<d, << >>>>
    ELSE IF StartsPacket(d, m) THEN <<StartOver(m), << >>>>
    ELSE IF ~SlotFree(d, m) THEN <<d, << >>>>
    ELSE LET s == Store(d, m)
         IN  IF s.count = Len(s.frags) THEN <<Drain(s), Assemble(s)>>
             ELSE <<s, << >>>>

(* m makes Feed run count += 1 on the largest u8. *)
CountOverflows(d, m) ==
    /\ ~Whole(m) /\ ~BadFragId(m) /\ ~StartsPacket(d, m)
    /\ SlotFree(d, m)
    /\ d.count = U8 - 1

-----------------------------------------------------------------------------
(* For the properties of the modules that use this one.                    *)

SameContent(m1, m2) == m1.addr = m2.addr /\ m1.data = m2.data

(* What a Defragger returns for the last message of s. *)
LastFed(s) ==
    LET fed[k \in 0..Len(s)] == IF k = 0 THEN <<NewDefragger, << >>>>
                                         ELSE Feed(fed[k-1][1], s[k])
    IN  fed[Len(s)][2]
=============================================================================
