---------------------------- MODULE UdpSendProofs ----------------------------
(***************************************************************************)
(* What holds of concurrent calls of UdpSession::send, whatever requests,  *)
(* limits and number of calls there are.                                   *)
(***************************************************************************)
EXTENDS UdpSend, ProtocolProofs

(* A message that send may be working on. *)
Sendable ==
    {m \in UdpMessage : /\ m.session_id = 1 /\ m.packet_id \in 0..MaxPacketId
                        /\ m.frag_id = 0 /\ m.frag_count = 1
                        /\ m.addr \in Seq(Byte) /\ m.data \in Seq(Byte)
                        /\ Shift(Len(m.addr), 7) < LowRange}

Frags(c) == queued[c] \o todo[c]

Types ==
    /\ limit \in Limits
    /\ pc \in [Calls -> {"idle", "whole", "split", "fragments", "ok", "err", "panic"}]
    /\ msg \in [Calls -> Sendable \cup {None}]
    /\ todo \in [Calls -> Seq(UdpMessage)]
    /\ queued \in [Calls -> Seq(UdpMessage)]

(* How far a call is. *)
Sending(c) ==
    /\ msg[c] = None <=> pc[c] = "idle"
    /\ msg[c] = None => todo[c] = << >> /\ queued[c] = << >>
    /\ msg[c] # None /\ msg[c].packet_id = 0 =>
         /\ pc[c] \in {"whole", "split", "ok", "err"} /\ todo[c] = << >>
         /\ queued[c] = IF pc[c] = "ok" THEN <<msg[c]>> ELSE << >>
    /\ Fragmented(c) => pc[c] \in {"fragments", "ok", "err", "panic"}
    /\ Fragmented(c) /\ Fits(msg[c]) =>
         /\ pc[c] # "panic" /\ IsSplit(Frags(c), msg[c])
         /\ pc[c] = "ok" => todo[c] = << >>
         /\ pc[c] = "err" => todo[c] # << >>

(* Every datagram on the wire was accepted from some call. *)
WireInv ==
    \A w \in wire : \E c \in Calls : msg[c] # None /\ \E k \in 1..Len(queued[c]) : w = queued[c][k]

PeerInv ==
    /\ peer \in DefraggerState
    /\ \/ peer.frags = << >>
       \/ \E c \in Calls :
            /\ Fragmented(c) /\ IsCut(Frags(c), msg[c])
            /\ Reassembles(peer, Frags(c), Len(queued[c]), msg[c].packet_id, wire)

(* What the peer has is all of a message that was sent to the end. *)
ReceivedInv ==
    \A r \in received : \E c \in Calls :
      /\ msg[c] # None /\ SameContent(r, msg[c]) /\ r.packet_id = msg[c].packet_id
      /\ todo[c] = << >> /\ pc[c] \in {"ok", "fragments"}

IInv ==
    /\ Types
    /\ \A c \in Calls : Sending(c)
    /\ AllFit /\ NoCollision => WireInv /\ PeerInv /\ ReceivedInv

-----------------------------------------------------------------------------
(* Over the wire.                                                          *)

(* session_id and packet_id fit their fields. *)
LEMMA IdsFit == Shift(1, 4) = 0 /\ \A id \in 0..MaxPacketId : Shift(id, 2) = 0
<1> USE RadixType
<1>0. Radix >= 4
  BY DEF Radix
<1>1. \A v \in Nat, j \in Nat, b \in Nat : Shift(v, j) < b * Radix => Shift(v, j+1) < b
  <2> SUFFICES ASSUME NEW v \in Nat, NEW j \in Nat, NEW b \in Nat, Shift(v, j) < b * Radix
               PROVE  Shift(v, j+1) < b
    OBVIOUS
  <2>1. PICK a \in Nat : a = Shift(v, j)
    BY ShiftFacts
  <2>2. a \div Radix < b
    BY <2>1, DivBelow
  <2>3. QED
    BY <2>1, <2>2, ShiftFacts
<1>2. \A v \in Nat, j \in Nat : Shift(v, j) \in Nat
  BY ShiftFacts
<1>3. 1 * Radix = Radix
  OBVIOUS
<1>4. \A v \in Nat, j \in Nat : Shift(v, j) < Radix => Shift(v, j+1) = 0
  <2> SUFFICES ASSUME NEW v \in Nat, NEW j \in Nat, Shift(v, j) < Radix PROVE Shift(v, j+1) = 0
    OBVIOUS
  <2>1. Shift(v, j) < 1 * Radix /\ j+1 \in Nat
    BY <1>3
  <2>2. Shift(v, j+1) < 1 /\ Shift(v, j+1) \in Nat
    BY <1>1, <1>2, <2>1, Zenon
  <2>3. QED
    BY <2>2
<1>5. Shift(1, 4) = 0
  <2>1. 0+1 = 1 /\ 1+1 = 2 /\ 2+1 = 3 /\ 3+1 = 4
    OBVIOUS
  <2>2. Shift(1, 0) = 1
    BY ShiftFacts
  <2>3. Shift(1, 0+1) = 0
    BY <1>0, <1>4, <2>2
  <2>4. Shift(1, 1+1) = 0
    BY <1>0, <1>4, <2>1, <2>3
  <2>5. Shift(1, 2+1) = 0
    BY <1>0, <1>4, <2>1, <2>4
  <2>6. Shift(1, 3+1) = 0
    BY <1>0, <1>4, <2>1, <2>5
  <2>7. QED
    BY <2>1, <2>6
<1>6. ASSUME NEW id \in 0..MaxPacketId PROVE Shift(id, 2) = 0
  <2>1. id \in Nat /\ id < Radix * Radix
    <3>1. Radix * Radix \in Nat
      <4>1. \A a, b \in Nat : a * b \in Nat
        OBVIOUS
      <4>2. QED
        BY <4>1, Zenon
    <3> DEFINE R == Radix * Radix
    <3>2. R \in Nat /\ MaxPacketId < R /\ MaxPacketId \in Nat
      BY <3>1, WidthsAssumption, LimitsAssumption
    <3> HIDE DEF R
    <3>3. id \in Nat /\ id < R
      BY <3>2
    <3>4. QED
      BY <3>3 DEF R
  <2>2. Shift(id, 0) = id
    BY <2>1, ShiftFacts
  <2>3. Shift(id, 0+1) < Radix
    BY <1>1, <2>1, <2>2
  <2>4. Shift(id, 1+1) = 0
    BY <1>4, <2>1, <2>3
  <2>5. QED
    BY <2>4
<1>7. QED
  BY <1>5, <1>6

(* A datagram arrives as it was sent, or parse refuses it. *)
LEMMA ArrivesAsSent ==
    ASSUME NEW m \in UdpMessage, m.session_id = 1, m.packet_id \in 0..MaxPacketId,
           m.addr \in Seq(Byte), m.data \in Seq(Byte), Shift(Len(m.addr), 7) < LowRange
    PROVE  Transferred(m) \in {m, None}
  BY IdsFit, MessageRoundTrip DEF Transferred

-----------------------------------------------------------------------------
(* The calls.                                                              *)

LEMMA InitIInv == Init => IInv
<1> SUFFICES ASSUME Init PROVE IInv
  OBVIOUS
<1>1. Types
  BY DEF Init, Types
<1>2. \A c \in Calls : Sending(c)
  BY DEF Init, Sending, Fragmented
<1>3. WireInv /\ ReceivedInv
  BY DEF Init, WireInv, ReceivedInv
<1>4. PeerInv
  BY NewDefraggerType DEF Init, PeerInv, NewDefragger
<1>5. QED
  BY <1>1, <1>2, <1>3, <1>4 DEF IInv

(* A call that nothing happens to stays as far as it is. *)
LEMMA SendingKept ==
    ASSUME NEW c \in Calls, Sending(c),
           pc'[c] = pc[c], msg'[c] = msg[c], todo'[c] = todo[c], queued'[c] = queued[c]
    PROVE  Sending(c)'
  BY DEF Sending, Fragmented, Frags

LEMMA SendableType ==
    ASSUME NEW m \in Sendable
    PROVE  m \in UdpMessage /\ m \in ByteMessage /\ m # None
  BY NoneAssumption DEF Sendable, ByteMessage

LEMMA NewMessageType ==
    ASSUME NEW r \in Requests
    PROVE  NewMessage(r) \in Sendable /\ NewMessage(r).packet_id = 0
<1>1. r.addr \in Seq(Byte) /\ r.data \in Seq(Byte) /\ Shift(Len(r.addr), 7) < LowRange
  BY WidthsAssumption
<1>2. \A s \in Seq(Byte) : s \in Seq(Nat)
  <2>1. \A x \in Byte : x \in Nat
    BY ByteIsNat
  <2>2. QED
    BY <2>1
<1>3. NewMessage(r) \in UdpMessage
  BY <1>1, <1>2, U8Assumption DEF NewMessage, UdpMessage
<1>4. 0 \in 0..MaxPacketId
  BY LimitsAssumption
<1>5. QED
  BY <1>1, <1>3, <1>4 DEF NewMessage, Sendable

LEMMA SendStep ==
    ASSUME Types, \A c \in Calls : Sending(c), NEW c \in Calls, NEW r \in Requests, Send(c, r)
    PROVE  Types' /\ \A i \in Calls : Sending(i)'
<1>1. /\ pc' = [pc EXCEPT ![c] = "whole"] /\ msg' = [msg EXCEPT ![c] = NewMessage(r)]
      /\ pc[c] = "idle" /\ UNCHANGED <<limit, todo, queued>>
  BY DEF Send, Goto, conn
<1>2. NewMessage(r) \in Sendable /\ NewMessage(r).packet_id = 0 /\ NewMessage(r) # None
  BY NewMessageType, SendableType
<1>3. Types'
  BY <1>1, <1>2 DEF Types
<1>4. msg[c] = None /\ todo[c] = << >> /\ queued[c] = << >>
  BY <1>1, Zenon DEF Sending
<1>5. pc'[c] = "whole" /\ msg'[c] = NewMessage(r) /\ todo'[c] = << >> /\ queued'[c] = << >>
  BY <1>1, <1>4 DEF Types
<1>6. Sending(c)'
  BY <1>2, <1>5 DEF Sending, Fragmented
<1>7. ASSUME NEW i \in Calls, i # c PROVE Sending(i)'
  <2>1. pc'[i] = pc[i] /\ msg'[i] = msg[i] /\ todo'[i] = todo[i] /\ queued'[i] = queued[i]
    BY <1>1, <1>7 DEF Types
  <2>2. QED
    BY <2>1, SendingKept
<1>8. QED
  BY <1>3, <1>6, <1>7

(* Where a call is tells which message it has. *)
LEMMA MessageOf ==
    ASSUME Types, NEW c \in Calls, Sending(c), pc[c] # "idle"
    PROVE  /\ msg[c] \in Sendable /\ msg[c] # None /\ msg[c] \in UdpMessage
           /\ pc[c] \in {"whole", "split"} => /\ msg[c].packet_id = 0 /\ ~Fragmented(c)
                                              /\ todo[c] = << >> /\ queued[c] = << >>
           /\ pc[c] = "fragments" => Fragmented(c)
<1>1. msg[c] \in Sendable /\ msg[c] # None /\ msg[c] \in UdpMessage
  BY SendableType DEF Types, Sending
<1>2. QED
  BY <1>1 DEF Sending, Fragmented

LEMMA SendWholeStep ==
    ASSUME Types, \A c \in Calls : Sending(c), NEW c \in Calls, SendWhole(c)
    PROVE  Types' /\ \A i \in Calls : Sending(i)'
<1>1. /\ pc' = [pc EXCEPT ![c] = "ok"] /\ queued' = [queued EXCEPT ![c] = Append(queued[c], msg[c])]
      /\ pc[c] = "whole" /\ UNCHANGED <<limit, todo, msg>>
  BY DEF SendWhole, SendDatagram, Goto, conn
<1>2. /\ msg[c] # None /\ msg[c] \in UdpMessage /\ msg[c].packet_id = 0
      /\ todo[c] = << >> /\ queued[c] = << >>
  BY <1>1, MessageOf
<1>3. Append(queued[c], msg[c]) \in Seq(UdpMessage) /\ Append(queued[c], msg[c]) = <<msg[c]>>
  BY <1>2 DEF Types
<1>4. Types'
  BY <1>1, <1>3 DEF Types
<1>5. pc'[c] = "ok" /\ msg'[c] = msg[c] /\ todo'[c] = << >> /\ queued'[c] = <<msg[c]>>
  BY <1>1, <1>2, <1>3 DEF Types
<1>6. Sending(c)'
  BY <1>2, <1>5 DEF Sending, Fragmented
<1>7. ASSUME NEW i \in Calls, i # c PROVE Sending(i)'
  <2>1. pc'[i] = pc[i] /\ msg'[i] = msg[i] /\ todo'[i] = todo[i] /\ queued'[i] = queued[i]
    BY <1>1, <1>7 DEF Types
  <2>2. QED
    BY <2>1, SendingKept
<1>8. QED
  BY <1>4, <1>6, <1>7

(* A step that only says where the call goes on. *)
LEMMA GotoStep ==
    ASSUME Types, \A c \in Calls : Sending(c), NEW c \in Calls,
           TooLarge(c) \/ WholeFails(c) \/ FragmentFails(c) \/ AllSent(c)
    PROVE  Types' /\ \A i \in Calls : Sending(i)'
<1>1. /\ UNCHANGED <<limit, msg, todo, queued>>
      /\ \/ pc[c] = "whole" /\ (pc' = [pc EXCEPT ![c] = "split"] \/ pc' = [pc EXCEPT ![c] = "err"])
         \/ pc[c] = "fragments" /\ todo[c] # << >> /\ pc' = [pc EXCEPT ![c] = "err"]
         \/ pc[c] = "fragments" /\ todo[c] = << >> /\ pc' = [pc EXCEPT ![c] = "ok"]
  BY DEF TooLarge, WholeFails, FragmentFails, AllSent, Goto, conn
<1>2. Types'
  BY <1>1, Zenon DEF Types
<1>3. msg'[c] = msg[c] /\ todo'[c] = todo[c] /\ queued'[c] = queued[c] /\ Frags(c)' = Frags(c)
  BY <1>1 DEF Frags
<1>4. Sending(c)'
  <2>1. CASE pc[c] = "whole" /\ pc'[c] \in {"split", "err"}
    <3>1. /\ msg[c] # None /\ msg[c].packet_id = 0 /\ ~Fragmented(c)
          /\ todo[c] = << >> /\ queued[c] = << >>
      BY <2>1, MessageOf
    <3>2. QED
      BY <1>3, <2>1, <3>1 DEF Sending, Fragmented
  <2>2. CASE /\ pc[c] = "fragments"
             /\ \/ todo[c] # << >> /\ pc'[c] = "err"
                \/ todo[c] = << >> /\ pc'[c] = "ok"
    <3>1. Fragmented(c) /\ msg[c] # None /\ msg[c].packet_id # 0
      BY <2>2, MessageOf DEF Fragmented
    <3>2. QED
      BY <1>3, <2>2, <3>1 DEF Sending, Fragmented
  <2>3. QED
    BY <1>1, <2>1, <2>2 DEF Types
<1>5. ASSUME NEW i \in Calls, i # c PROVE Sending(i)'
  <2>1. pc'[i] = pc[i] /\ msg'[i] = msg[i] /\ todo'[i] = todo[i] /\ queued'[i] = queued[i]
    BY <1>1, <1>5 DEF Types
  <2>2. QED
    BY <2>1, SendingKept
<1>6. QED
  BY <1>2, <1>4, <1>5

LEMMA SplitStep ==
    ASSUME Types, \A c \in Calls : Sending(c), NEW c \in Calls, Split(c)
    PROVE  Types' /\ \A i \in Calls : Sending(i)'
<1>1. pc[c] = "split" /\ UNCHANGED <<limit, queued>>
  BY DEF Split, conn
<1>2. PICK id \in PacketIds :
        LET m == [msg[c] EXCEPT !.packet_id = id]
        IN  /\ msg' = [msg EXCEPT ![c] = m]
            /\ IF overflow_checks /\ FragIdOverflows(m, limit)
               THEN Goto(c, "panic") /\ UNCHANGED todo
               ELSE Goto(c, "fragments") /\ todo' = [todo EXCEPT ![c] = FragUdpMessage(m, limit)]
  BY Zenon DEF Split
<1> DEFINE m == [msg[c] EXCEPT !.packet_id = id]
<1>3. /\ msg[c] \in Sendable /\ msg[c] # None /\ msg[c] \in UdpMessage
      /\ todo[c] = << >> /\ queued[c] = << >>
  BY <1>1, MessageOf
<1>4. id \in 0..MaxPacketId /\ id # 0 /\ id \in Nat
  BY LimitsAssumption DEF PacketIds
<1>5. m \in Sendable /\ m \in ByteMessage /\ m.packet_id = id /\ m # None
  <2>1. /\ m \in UdpMessage /\ m.packet_id = id /\ m.session_id = msg[c].session_id
        /\ m.frag_id = msg[c].frag_id /\ m.frag_count = msg[c].frag_count
        /\ m.addr = msg[c].addr /\ m.data = msg[c].data
    BY <1>3, <1>4, Zenon DEF UdpMessage
  <2> HIDE DEF m
  <2>2. m \in Sendable
    BY <1>3, <1>4, <2>1 DEF Sendable
  <2>3. QED
    BY <2>1, <2>2, SendableType
<1>6. /\ msg' = [msg EXCEPT ![c] = m]
      /\ IF overflow_checks /\ FragIdOverflows(m, limit)
         THEN pc' = [pc EXCEPT ![c] = "panic"] /\ todo' = todo
         ELSE /\ pc' = [pc EXCEPT ![c] = "fragments"]
              /\ todo' = [todo EXCEPT ![c] = FragUdpMessage(m, limit)]
  BY <1>2 DEF Goto
<1> HIDE DEF m
<1>7. limit \in Limits /\ limit \in Nat
  BY LimitsAssumption DEF Types
<1>8. FragUdpMessage(m, limit) \in Seq(UdpMessage)
  BY <1>5, <1>7, FragmentsType
<1>9. Types'
  BY <1>1, <1>5, <1>6, <1>8, Zenon DEF Types
<1>10. msg'[c] = m /\ queued'[c] = << >>
  BY <1>1, <1>3, <1>6 DEF Types
<1>11. Sending(c)'
  <2>1. CASE overflow_checks /\ FragIdOverflows(m, limit)
    <3>1. pc'[c] = "panic"
      BY <1>6, <2>1 DEF Types
    <3>2. ~Fits(m)
      <4>1. /\ Size(m) > limit /\ FragCount(m, limit) >= U8 /\ MaxPayload(m, limit) # 0
        BY <2>1 DEF FragIdOverflows
      <4>2. FragCount(m, limit) \in Nat
        BY <1>5, <1>7, <4>1, FragmentFacts, Zenon
      <4>3. QED
        BY <1>7, <4>1, <4>2, U8Assumption DEF Fits
    <3>3. QED
      BY <1>4, <1>5, <1>10, <3>1, <3>2 DEF Sending, Fragmented
  <2>2. CASE ~(overflow_checks /\ FragIdOverflows(m, limit))
    <3>1. pc'[c] = "fragments" /\ todo'[c] = FragUdpMessage(m, limit)
      BY <1>6, <2>2 DEF Types
    <3>2. Frags(c)' = FragUdpMessage(m, limit)
      <4>1. Frags(c)' = << >> \o FragUdpMessage(m, limit)
        BY <1>10, <3>1 DEF Frags
      <4>2. QED
        BY <1>8, <4>1, JoinEmpty
    <3>3. Fits(m) => IsSplit(FragUdpMessage(m, limit), m)
      BY <1>5, <1>7, FragmentsSplit DEF Fits
    <3>4. QED
      BY <1>4, <1>5, <1>10, <3>1, <3>2, <3>3, Zenon DEF Sending, Fragmented
  <2>3. QED
    BY <2>1, <2>2
<1>12. ASSUME NEW i \in Calls, i # c PROVE Sending(i)'
  <2>1. pc'[i] = pc[i] /\ msg'[i] = msg[i] /\ todo'[i] = todo[i] /\ queued'[i] = queued[i]
    BY <1>1, <1>6, <1>12 DEF Types
  <2>2. QED
    BY <2>1, SendingKept
<1>13. QED
  BY <1>9, <1>11, <1>12

(* A fragment that moves from todo to queued. *)
LEMMA MovesOver ==
    ASSUME NEW S, NEW q \in Seq(S), NEW t \in Seq(S), t # << >>
    PROVE  /\ Append(q, Head(t)) \in Seq(S) /\ Tail(t) \in Seq(S) /\ Head(t) \in S
           /\ Append(q, Head(t)) \o Tail(t) = q \o t
           /\ Len(q) + 1 \in 1..Len(q \o t) /\ (q \o t)[Len(q) + 1] = Head(t)
           /\ Len(Append(q, Head(t))) = Len(q) + 1
           /\ \A k \in 1..Len(q) : Append(q, Head(t))[k] = q[k] /\ (q \o t)[k] = q[k]
           /\ Append(q, Head(t))[Len(q) + 1] = Head(t)
<1>1. Append(q, Head(t)) \in Seq(S) /\ Tail(t) \in Seq(S) /\ Head(t) \in S
  OBVIOUS
<1>2. Append(q, Head(t)) = q \o <<Head(t)>> /\ t = <<Head(t)>> \o Tail(t) /\ <<Head(t)>> \in Seq(S)
  OBVIOUS
<1>3. (q \o <<Head(t)>>) \o Tail(t) = q \o (<<Head(t)>> \o Tail(t))
  <2> DEFINE h == <<Head(t)>>
             u == Tail(t)
  <2>1. h \in Seq(S) /\ u \in Seq(S)
    BY <1>1, <1>2
  <2> HIDE DEF h, u
  <2>2. Regroups(q, h, u)
    BY <2>1, JoinAssoc, Zenon
  <2>3. QED
    BY <2>2, Zenon DEF h, u, Regroups
<1>4. Append(q, Head(t)) \o Tail(t) = q \o t
  BY <1>2, <1>3, Zenon
<1>5. Len(q) + 1 \in 1..Len(q \o t) /\ (q \o t)[Len(q) + 1] = Head(t)
  OBVIOUS
<1>6. /\ Len(Append(q, Head(t))) = Len(q) + 1
      /\ \A k \in 1..Len(q) : Append(q, Head(t))[k] = q[k] /\ (q \o t)[k] = q[k]
      /\ Append(q, Head(t))[Len(q) + 1] = Head(t)
  OBVIOUS
<1>7. QED
  BY <1>1, <1>4, <1>5, <1>6, Zenon

LEMMA SendFragmentStep ==
    ASSUME Types, \A c \in Calls : Sending(c), NEW c \in Calls, SendFragment(c)
    PROVE  Types' /\ \A i \in Calls : Sending(i)'
<1>1. /\ pc[c] = "fragments" /\ todo[c] # << >>
      /\ queued' = [queued EXCEPT ![c] = Append(queued[c], Head(todo[c]))]
      /\ todo' = [todo EXCEPT ![c] = Tail(todo[c])]
      /\ UNCHANGED <<limit, msg, pc>>
  BY DEF SendFragment, SendDatagram, conn
<1> DEFINE q == queued[c]
           t == todo[c]
<1>2. q \in Seq(UdpMessage) /\ t \in Seq(UdpMessage)
  BY DEF Types
<1>3. /\ Append(q, Head(t)) \in Seq(UdpMessage) /\ Tail(t) \in Seq(UdpMessage)
      /\ Append(q, Head(t)) \o Tail(t) = q \o t
  <2>1. t # << >>
    BY <1>1
  <2> HIDE DEF q, t
  <2>2. QED
    BY <1>2, <2>1, MovesOver
<1>4. Types'
  BY <1>1, <1>3 DEF Types
<1>5. /\ queued'[c] = Append(q, Head(t)) /\ todo'[c] = Tail(t)
      /\ msg'[c] = msg[c] /\ pc'[c] = "fragments"
  BY <1>1 DEF Types
<1>6. Frags(c)' = Frags(c)
  <2>1. Frags(c)' = Append(q, Head(t)) \o Tail(t)
    BY <1>5, Zenon DEF Frags
  <2>2. Frags(c) = q \o t
    BY Zenon DEF Frags
  <2>3. QED
    BY <1>3, <2>1, <2>2, Zenon
<1>7. msg[c] # None /\ Fragmented(c)
  BY <1>1, MessageOf, Zenon
<1>8. Sending(c)'
  BY <1>1, <1>5, <1>6, <1>7, Zenon DEF Sending, Fragmented
<1>9. ASSUME NEW i \in Calls, i # c PROVE Sending(i)'
  <2>1. pc'[i] = pc[i] /\ msg'[i] = msg[i] /\ todo'[i] = todo[i] /\ queued'[i] = queued[i]
    BY <1>1, <1>9 DEF Types
  <2>2. QED
    BY <2>1, SendingKept
<1>10. QED
  BY <1>4, <1>8, <1>9

(* The connection and the peer change nothing for a call. *)
LEMMA OutsideStep ==
    ASSUME Types, \A c \in Calls : Sending(c),
           LimitChanges \/ ConnectionLost \/ (\E m \in wire : Deliver(m)) \/ UNCHANGED vars
    PROVE  Types' /\ \A i \in Calls : Sending(i)'
<1>1. UNCHANGED <<pc, msg, todo, queued>> /\ limit' \in Limits
  BY DEF LimitChanges, ConnectionLost, Deliver, vars, conn, Types
<1>2. Types'
  BY <1>1 DEF Types
<1>3. QED
  BY <1>1, <1>2, SendingKept

-----------------------------------------------------------------------------
(* What a step of the sending side leaves of what was sent before it.      *)

Accepted(c, w) == msg[c] # None /\ \E k \in 1..Len(queued[c]) : w = queued[c][k]

(* The message is not exchanged once its fragments are under way, what was *)
(* accepted stays accepted, and a call that has sent everything rests.     *)
CallGoesOn(c) ==
    /\ msg[c] # None => msg'[c] # None /\ (Fits(msg'[c]) => Fits(msg[c]))
    /\ \A w : Accepted(c, w) => Accepted(c, w)'
    /\ Fragmented(c) => /\ msg'[c] = msg[c] /\ Frags(c)' = Frags(c)
                        /\ Len(queued[c]) <= Len(queued'[c])
    /\ msg[c] # None /\ todo[c] = << >> /\ pc[c] \in {"ok", "fragments"} =>
         msg'[c] = msg[c] /\ todo'[c] = << >> /\ pc'[c] \in {"ok", "fragments"}

LEMMA CallRests ==
    ASSUME NEW c \in Calls, Types, msg'[c] = msg[c], todo'[c] = todo[c], queued'[c] = queued[c],
           \/ pc'[c] = pc[c]
           \/ pc[c] = "whole"
           \/ pc[c] = "fragments" /\ todo[c] # << >>
           \/ pc[c] = "fragments" /\ pc'[c] = "ok"
    PROVE  CallGoesOn(c)
<1>1. Frags(c)' = Frags(c)
  BY DEF Frags
<1>2. \A w : Accepted(c, w) => Accepted(c, w)'
  BY DEF Accepted
<1>3. Len(queued[c]) <= Len(queued'[c])
  <2>1. Len(queued[c]) \in Nat
    BY DEF Types
  <2>2. QED
    BY <2>1
<1>4. QED
  BY <1>1, <1>2, <1>3 DEF CallGoesOn

LEMMA FitsWhateverId ==
    ASSUME NEW m \in UdpMessage, NEW id
    PROVE  Fits([m EXCEPT !.packet_id = id]) <=> Fits(m)
<1> DEFINE x == [m EXCEPT !.packet_id = id]
<1>1. x.addr = m.addr /\ x.data = m.data
  BY DEF UdpMessage
<1> HIDE DEF x
<1>2. Fits(x) <=> Fits(m)
  BY <1>1 DEF Fits, Size, MaxPayload, FragCount, HeaderSize
<1>3. QED
  BY <1>2 DEF x

LEMMA CallsGoOn ==
    ASSUME Types, \A c \in Calls : Sending(c), Next, ~\E m \in wire : Deliver(m)
    PROVE  \A c \in Calls : CallGoesOn(c)
<1> SUFFICES ASSUME NEW i \in Calls PROVE CallGoesOn(i)
  OBVIOUS
<1>1. ASSUME NEW c \in Calls, NEW r \in Requests, Send(c, r) PROVE CallGoesOn(i)
  <2>1. /\ pc' = [pc EXCEPT ![c] = "whole"] /\ msg' = [msg EXCEPT ![c] = NewMessage(r)]
        /\ pc[c] = "idle" /\ UNCHANGED <<todo, queued>>
    BY <1>1 DEF Send, Goto
  <2>2. CASE i = c
    <3>1. msg[c] = None
      BY <2>1, Zenon DEF Sending
    <3>2. QED
      BY <2>2, <3>1, Zenon DEF CallGoesOn, Accepted, Fragmented
  <2>3. CASE i # c
    <3>1. pc'[i] = pc[i] /\ msg'[i] = msg[i] /\ todo'[i] = todo[i] /\ queued'[i] = queued[i]
      BY <2>1, <2>3 DEF Types
    <3>2. QED
      BY <3>1, CallRests
  <2>4. QED
    BY <2>2, <2>3
<1>2. ASSUME NEW c \in Calls, SendWhole(c) PROVE CallGoesOn(i)
  <2>1. /\ pc' = [pc EXCEPT ![c] = "ok"] /\ queued' = [queued EXCEPT ![c] = Append(queued[c], msg[c])]
        /\ pc[c] = "whole" /\ UNCHANGED <<todo, msg>>
    BY <1>2 DEF SendWhole, SendDatagram, Goto
  <2>2. CASE i = c
    <3>1. msg[c] # None /\ ~Fragmented(c) /\ queued[c] = << >>
      BY <2>1, MessageOf
    <3>2. \A w : ~Accepted(c, w)
      BY <3>1 DEF Accepted
    <3>3. QED
      BY <2>1, <2>2, <3>1, <3>2, Zenon DEF CallGoesOn
  <2>3. CASE i # c
    <3>1. pc'[i] = pc[i] /\ msg'[i] = msg[i] /\ todo'[i] = todo[i] /\ queued'[i] = queued[i]
      BY <2>1, <2>3 DEF Types
    <3>2. QED
      BY <3>1, CallRests
  <2>4. QED
    BY <2>2, <2>3
<1>3. ASSUME NEW c \in Calls, TooLarge(c) \/ WholeFails(c) \/ FragmentFails(c) \/ AllSent(c)
      PROVE  CallGoesOn(i)
  <2>1. /\ UNCHANGED <<msg, todo, queued>>
        /\ \/ pc[c] = "whole" /\ \E l : pc' = [pc EXCEPT ![c] = l]
           \/ pc[c] = "fragments" /\ todo[c] # << >> /\ \E l : pc' = [pc EXCEPT ![c] = l]
           \/ pc[c] = "fragments" /\ pc' = [pc EXCEPT ![c] = "ok"]
    BY <1>3 DEF TooLarge, WholeFails, FragmentFails, AllSent, Goto
  <2>2. \/ pc'[i] = pc[i] \/ pc[i] = "whole"
        \/ pc[i] = "fragments" /\ (todo[i] # << >> \/ pc'[i] = "ok")
    BY <2>1 DEF Types
  <2>3. QED
    BY <2>1, <2>2, CallRests
<1>4. ASSUME NEW c \in Calls, Split(c) PROVE CallGoesOn(i)
  <2>1. PICK id : /\ msg' = [msg EXCEPT ![c] = [msg[c] EXCEPT !.packet_id = id]]
                  /\ [msg[c] EXCEPT !.packet_id = id] \in Sendable
    <3>1. PICK id \in PacketIds : msg' = [msg EXCEPT ![c] = [msg[c] EXCEPT !.packet_id = id]]
      BY <1>4, Zenon DEF Split
    <3>2. Types'
      BY <1>4, SplitStep
    <3>3. msg'[c] \in Sendable \cup {None} /\ msg'[c] = [msg[c] EXCEPT !.packet_id = id]
      BY <3>1, <3>2, Zenon DEF Types
    <3>4. msg'[c] # None
      <4>1. Sending(c)' /\ pc'[c] # "idle"
        <5>1. Sending(c)' /\ pc'[c] \in {"panic", "fragments"}
          BY <1>4, SplitStep, Zenon DEF Split, Goto, Types
        <5>2. QED
          BY <5>1
      <4>2. QED
        BY <4>1 DEF Sending
    <3>5. QED
      BY <3>1, <3>3, <3>4, Zenon
  <2>2. pc[c] = "split" /\ queued' = queued /\ \E l, t : /\ pc' = [pc EXCEPT ![c] = l]
                                                         /\ todo' = [todo EXCEPT ![c] = t]
    <3>1. todo = [todo EXCEPT ![c] = todo[c]]
      BY DEF Types
    <3>2. QED
      BY <1>4, <3>1 DEF Split, Goto
  <2>3. CASE i = c
    <3>1. msg[c] # None /\ msg[c] \in UdpMessage /\ ~Fragmented(c) /\ queued[c] = << >>
      BY <2>2, MessageOf
    <3>2. \A w : ~Accepted(c, w)
      BY <3>1 DEF Accepted
    <3>3. msg'[c] = [msg[c] EXCEPT !.packet_id = id] /\ msg'[c] # None
      BY <2>1, SendableType DEF Types
    <3>4. Fits(msg'[c]) => Fits(msg[c])
      BY <3>1, <3>3, FitsWhateverId, ZenonT(40)
    <3>5. QED
      BY <2>2, <2>3, <3>1, <3>2, <3>3, <3>4 DEF CallGoesOn
  <2>4. CASE i # c
    <3>1. pc'[i] = pc[i] /\ msg'[i] = msg[i] /\ todo'[i] = todo[i] /\ queued'[i] = queued[i]
      BY <2>1, <2>2, <2>4, Zenon DEF Types
    <3>2. QED
      BY <3>1, CallRests
  <2>5. QED
    BY <2>3, <2>4
<1>5. ASSUME NEW c \in Calls, SendFragment(c) PROVE CallGoesOn(i)
  <2>1. /\ pc[c] = "fragments" /\ todo[c] # << >>
        /\ queued' = [queued EXCEPT ![c] = Append(queued[c], Head(todo[c]))]
        /\ todo' = [todo EXCEPT ![c] = Tail(todo[c])]
        /\ UNCHANGED <<msg, pc>>
    BY <1>5, Zenon DEF SendFragment, SendDatagram
  <2>2. CASE i = c
    <3> DEFINE q == queued[c]
               t == todo[c]
    <3>1. q \in Seq(UdpMessage) /\ t \in Seq(UdpMessage) /\ t # << >> /\ Len(q) \in Nat
      BY <2>1 DEF Types
    <3>2. /\ queued'[c] = Append(q, Head(t)) /\ todo'[c] = Tail(t)
          /\ msg'[c] = msg[c] /\ pc'[c] = "fragments"
      BY <2>1 DEF Types
    <3> HIDE DEF q, t
    <3>3. /\ Append(q, Head(t)) \o Tail(t) = q \o t
          /\ Len(Append(q, Head(t))) = Len(q) + 1
          /\ \A k \in 1..Len(q) : Append(q, Head(t))[k] = q[k]
      BY <3>1, MovesOver
    <3>4. Frags(c)' = Frags(c)
      BY <3>2, <3>3, Zenon DEF Frags, q, t
    <3>5. \A w : Accepted(c, w) => Accepted(c, w)'
      <4>1. \A k \in 1..Len(q) : k \in 1..Len(queued'[c]) /\ queued'[c][k] = q[k]
        BY <3>1, <3>2, <3>3
      <4>2. QED
        BY <3>2, <4>1 DEF Accepted, q
    <3>6. Len(queued[c]) <= Len(queued'[c])
      <4>1. Len(queued'[c]) = Len(q) + 1
        BY <3>2, <3>3, Zenon
      <4>2. Len(q) <= Len(q) + 1
        BY <3>1
      <4>3. QED
        BY <4>1, <4>2, Zenon DEF q
    <3>7. QED
      BY <2>1, <2>2, <3>2, <3>4, <3>5, <3>6, ZenonT(40) DEF CallGoesOn, Fragmented, t
  <2>3. CASE i # c
    <3>1. pc'[i] = pc[i] /\ msg'[i] = msg[i] /\ todo'[i] = todo[i] /\ queued'[i] = queued[i]
      BY <2>1, <2>3 DEF Types
    <3>2. QED
      BY <3>1, CallRests
  <2>4. QED
    BY <2>2, <2>3
<1>6. CASE LimitChanges \/ ConnectionLost
  <2>1. UNCHANGED <<pc, msg, todo, queued>>
    BY <1>6 DEF LimitChanges, ConnectionLost
  <2>2. QED
    BY <2>1, CallRests
<1>7. QED
  BY <1>1, <1>2, <1>3, <1>4, <1>5, <1>6, Zenon DEF Next, Step

(* The premises of Integrity only ever stop holding. *)
LEMMA PremisesLast ==
    ASSUME \A c \in Calls : CallGoesOn(c), (AllFit /\ NoCollision)'
    PROVE  AllFit /\ NoCollision
<1>1. AllFit
  <2>1. \A c \in Calls : msg'[c] # None => Fits(msg'[c])
    BY DEF AllFit
  <2>2. QED
    BY <2>1 DEF AllFit, CallGoesOn
<1>2. NoCollision
  <2> SUFFICES ASSUME NEW a \in Calls, NEW b \in Calls, Fragmented(a), Fragmented(b), a # b
               PROVE  msg[a].packet_id # msg[b].packet_id
    BY DEF NoCollision
  <2>1. msg'[a] = msg[a] /\ msg'[b] = msg[b]
    BY DEF CallGoesOn
  <2>2. Fragmented(a)' /\ Fragmented(b)'
    BY <2>1 DEF Fragmented
  <2>3. (msg[a].packet_id # msg[b].packet_id)'
    BY <2>2 DEF NoCollision
  <2>4. QED
    BY <2>1, <2>3
<1>3. QED
  BY <1>1, <1>2

(* What a call puts on the wire. *)
LEMMA CutOfCall ==
    ASSUME NEW c \in Calls, Sending(c), Fits(msg[c]), Fragmented(c)
    PROVE  /\ IsSplit(Frags(c), msg[c])
           /\ \A k \in 1..Len(Frags(c)) : Frags(c)[k].packet_id = msg[c].packet_id
           /\ IsCut(Frags(c), msg[c]) =>
                \A k \in 1..Len(Frags(c)) : Frags(c)[k].frag_id = k - 1
<1>1. IsSplit(Frags(c), msg[c])
  BY DEF Sending
<1> DEFINE s == Frags(c)
<1> HIDE DEF s
<1>2. CASE s = <<msg[c]>>
  BY <1>1, <1>2, U8Assumption, SMTT(30) DEF IsCut, s
<1>3. CASE IsCut(s, msg[c])
  BY <1>1, <1>3, Zenon DEF IsCut, IsPart, s
<1>4. QED
  BY <1>1, <1>2, <1>3 DEF IsSplit, s

(* A datagram that a step adds to the wire was accepted from some call,    *)
(* and is not a fragment of a cut message that was accepted before.        *)
NewOnWire(w) ==
    /\ \E c \in Calls : Accepted(c, w)'
    /\ \A c \in Calls : Fragmented(c) /\ IsCut(Frags(c), msg[c]) =>
         \A i \in 1..Len(queued[c]) : w # Frags(c)[i]

LEMMA NewDatagrams ==
    ASSUME Types, \A c \in Calls : Sending(c), Next, ~\E m \in wire : Deliver(m),
           AllFit, NoCollision, NEW w \in wire', w \notin wire
    PROVE  NewOnWire(w)
<1>1. ASSUME NEW c \in Calls, SendWhole(c) PROVE NewOnWire(w)
  <2>1. /\ pc[c] = "whole" /\ msg' = msg /\ wire' = wire \cup {msg[c]}
        /\ queued' = [queued EXCEPT ![c] = Append(queued[c], msg[c])]
    BY <1>1 DEF SendWhole, SendDatagram
  <2>2. msg[c] # None /\ msg[c].packet_id = 0 /\ queued[c] = << >> /\ msg[c] \in UdpMessage
    BY <2>1, MessageOf
  <2>3. w = msg[c]
    BY <2>1
  <2>4. Accepted(c, w)'
    <3>1. queued'[c] = <<msg[c]>>
      BY <2>1, <2>2 DEF Types
    <3>2. QED
      BY <2>1, <2>2, <2>3, <3>1, SMTT(30) DEF Accepted
  <2>5. ASSUME NEW a \in Calls, Fragmented(a), IsCut(Frags(a), msg[a]), NEW i \in 1..Len(queued[a])
        PROVE  w # Frags(a)[i]
    <3>1. Fits(msg[a]) /\ msg[a].packet_id # 0
      BY <2>5 DEF AllFit, Fragmented
    <3>2. i \in 1..Len(Frags(a))
      BY DEF Types, Frags
    <3>3. Frags(a)[i].packet_id = msg[a].packet_id
      BY <2>5, <3>1, <3>2, CutOfCall, Zenon
    <3>4. QED
      BY <2>2, <2>3, <3>1, <3>3, Zenon
  <2>6. QED
    BY <2>4, <2>5 DEF NewOnWire
<1>2. ASSUME NEW c \in Calls, SendFragment(c) PROVE NewOnWire(w)
  <2>1. /\ pc[c] = "fragments" /\ todo[c] # << >> /\ msg' = msg
        /\ wire' = wire \cup {Head(todo[c])}
        /\ queued' = [queued EXCEPT ![c] = Append(queued[c], Head(todo[c]))]
    BY <1>2 DEF SendFragment, SendDatagram
  <2> DEFINE q == queued[c]
             t == todo[c]
             n == Len(q) + 1
  <2>2. q \in Seq(UdpMessage) /\ t \in Seq(UdpMessage) /\ t # << >> /\ Len(q) \in Nat
    BY <2>1 DEF Types
  <2>3. queued'[c] = Append(q, Head(t)) /\ w = Head(t)
    BY <2>1, Zenon DEF Types
  <2>4. Fragmented(c) /\ msg[c] # None /\ Fits(msg[c])
    BY <2>1, MessageOf DEF AllFit
  <2>5. Frags(c) = q \o t
    BY DEF Frags
  <2> HIDE DEF q, t
  <2>6. /\ n \in 1..Len(q \o t) /\ (q \o t)[n] = Head(t)
        /\ Len(Append(q, Head(t))) = n /\ Append(q, Head(t))[n] = Head(t)
    BY <2>2, MovesOver, SMTT(30)
  <2>7. Accepted(c, w)'
    <3>1. n \in 1..Len(queued'[c]) /\ queued'[c][n] = w
      BY <2>2, <2>3, <2>6
    <3>2. QED
      BY <2>1, <2>4, <3>1 DEF Accepted
  <2>8. n \in 1..Len(Frags(c)) /\ Frags(c)[n] = w
    BY <2>3, <2>5, <2>6, Zenon
  <2>9. w.packet_id = msg[c].packet_id /\ (IsCut(Frags(c), msg[c]) => w.frag_id = n - 1)
    BY <2>4, <2>8, CutOfCall
  <2>10. ASSUME NEW a \in Calls, Fragmented(a), IsCut(Frags(a), msg[a]), NEW i \in 1..Len(queued[a])
         PROVE  w # Frags(a)[i]
    <3>1. Fits(msg[a])
      BY <2>10, Zenon DEF AllFit, Fragmented
    <3>2. i \in 1..Len(Frags(a))
      BY DEF Types, Frags
    <3>3. Frags(a)[i].packet_id = msg[a].packet_id /\ Frags(a)[i].frag_id = i - 1
      BY <2>10, <3>1, <3>2, CutOfCall, Zenon
    <3>4. CASE a = c
      <4>1. i \in 1..Len(q)
        BY <3>4 DEF q
      <4>2. i - 1 # n - 1
        BY <2>2, <4>1
      <4>3. QED
        BY <2>9, <2>10, <3>3, <3>4, <4>2
    <3>5. CASE a # c
      <4>1. msg[a].packet_id # msg[c].packet_id
        BY <2>4, <2>10, <3>5 DEF NoCollision
      <4>2. QED
        BY <2>9, <3>3, <4>1
    <3>6. QED
      BY <3>4, <3>5
  <2>11. QED
    BY <2>7, <2>10 DEF NewOnWire
<1>3. CASE /\ ~\E c \in Calls : SendWhole(c)
           /\ ~\E c \in Calls : SendFragment(c)
  <2>1. wire' = wire
    BY <1>3 DEF Next, Step, Send, TooLarge, WholeFails, Split, FragmentFails, AllSent,
                LimitChanges, ConnectionLost, ends
  <2>2. QED
    BY <2>1
<1>4. QED
  BY <1>1, <1>2, <1>3

LEMMA ReassemblesKept ==
    ASSUME NEW d, NEW s, NEW q \in Nat, NEW id, NEW W, Reassembles(d, s, q, id, W),
           NEW p \in Nat, q <= p, NEW V, Len(s) \in Nat, d.frags \in Seq(UdpMessage \cup {None}),
           \A i \in 1..Len(s) : i <= q /\ s[i] \notin W => s[i] \notin V
    PROVE  Reassembles(d, s, p, id, V)
<1>1. /\ Len(d.frags) = Len(s)
      /\ \A i \in Filled(d) : i <= q /\ s[i] \notin W
  BY DEF Reassembles
<1>2. \A i \in Filled(d) : i \in 1..Len(s)
  BY <1>1 DEF Filled
<1>3. \A i \in Filled(d) : i <= p /\ s[i] \notin V
  BY <1>1, <1>2
<1>4. Len(s) <= q => Len(s) <= p /\ \A i \in 1..Len(s) : i <= q
  OBVIOUS
<1>5. QED
  BY <1>3, <1>4 DEF Reassembles

(* A step of the sending side keeps what the invariant says of the wire    *)
(* and of the peer.                                                        *)
LEMMA PeerRests ==
    ASSUME Types, Types', \A c \in Calls : CallGoesOn(c), WireInv, PeerInv, ReceivedInv,
           peer' = peer, received' = received,
           \A w \in wire' : w \in wire \/ NewOnWire(w)
    PROVE  (WireInv /\ PeerInv /\ ReceivedInv)'
<1>1. WireInv'
  <2>1. \A w \in wire : \E c \in Calls : Accepted(c, w)
    BY DEF WireInv, Accepted
  <2>2. \A w \in wire' : \E c \in Calls : Accepted(c, w)'
    BY <2>1 DEF NewOnWire, CallGoesOn
  <2>3. QED
    BY <2>2 DEF WireInv, Accepted
<1>2. PeerInv'
  <2>1. CASE peer.frags = << >>
    BY <2>1 DEF PeerInv
  <2>2. CASE peer.frags # << >>
    <3>1. PICK c \in Calls :
            /\ Fragmented(c) /\ IsCut(Frags(c), msg[c])
            /\ Reassembles(peer, Frags(c), Len(queued[c]), msg[c].packet_id, wire)
      BY <2>2, ZenonT(40) DEF PeerInv
    <3>2. msg'[c] = msg[c] /\ Frags(c)' = Frags(c) /\ Len(queued[c]) <= Len(queued'[c])
      BY <3>1 DEF CallGoesOn
    <3> DEFINE s == Frags(c)
    <3>3. \A i \in 1..Len(s) : i <= Len(queued[c]) /\ s[i] \notin wire => s[i] \notin wire'
      <4>1. Len(s) \in Nat /\ Len(queued[c]) \in Nat
        BY U8Assumption DEF Types, Frags
      <4>2. \A i \in 1..Len(s) : i <= Len(queued[c]) => i \in 1..Len(queued[c])
        BY <4>1
      <4>3. QED
        BY <3>1, <4>2 DEF NewOnWire
    <3>4. /\ Len(s) \in Nat /\ Len(queued[c]) \in Nat /\ Len(queued'[c]) \in Nat
          /\ peer.frags \in Seq(UdpMessage \cup {None})
      BY DEF Types, Frags, PeerInv, DefraggerState
    <3>5. Reassembles(peer, s, Len(queued'[c]), msg[c].packet_id, wire')
      <4> HIDE DEF s
      <4>1. Reassembles(peer, s, Len(queued[c]), msg[c].packet_id, wire)
        BY <3>1 DEF s
      <4>2. QED
        BY <3>2, <3>3, <3>4, <4>1, ReassemblesKept, Zenon
    <3>6. Reassembles(peer, Frags(c), Len(queued[c]), msg[c].packet_id, wire)'
      BY <3>2, <3>5
    <3>7. Fragmented(c)' /\ IsCut(Frags(c), msg[c])'
      BY <3>1, <3>2, Zenon DEF Fragmented
    <3>8. QED
      BY <3>6, <3>7, Zenon DEF PeerInv
  <2>3. QED
    BY <2>1, <2>2, Zenon
<1>3. ReceivedInv'
  BY Zenon DEF ReceivedInv, CallGoesOn
<1>4. QED
  BY <1>1, <1>2, <1>3

(* What PeerInv says of the call whose packet the peer reassembles. *)
PeerHas(d, c, W) ==
    /\ Fragmented(c) /\ IsCut(Frags(c), msg[c])
    /\ Reassembles(d, Frags(c), Len(queued[c]), msg[c].packet_id, W)

(* What ReceivedInv says of a message and the call it came from. *)
CameFrom(r, c) ==
    /\ msg[c] # None /\ SameContent(r, msg[c]) /\ r.packet_id = msg[c].packet_id
    /\ todo[c] = << >> /\ pc[c] \in {"ok", "fragments"}

(* The peer takes a datagram that is a message of its own. *)
LEMMA WholeArrives ==
    ASSUME NEW c \in Calls, msg[c] # None, msg[c].frag_count = 1,
           todo[c] = << >>, pc[c] \in {"ok", "fragments"}, NEW d
    PROVE  Feed(d, msg[c]) = <<d, <<msg[c]>>>> /\ CameFrom(msg[c], c)
  BY SMTT(30) DEF Feed, Whole, CameFrom, SameContent

(* The peer takes a fragment of a cut message. *)
LEMMA FragmentArrives ==
    ASSUME Types, \A c \in Calls : Sending(c), AllFit, NoCollision, PeerInv,
           NEW c \in Calls, Fragmented(c), IsCut(Frags(c), msg[c]),
           NEW k \in 1..Len(queued[c]), Frags(c)[k] \in wire
    PROVE  LET w   == Frags(c)[k]
               fed == Feed(peer, w)
           IN  /\ fed[1] \in DefraggerState /\ PeerHas(fed[1], c, wire \ {w})
               /\ fed[2] = << >> \/ \E r : fed[2] = <<r>> /\ CameFrom(r, c)
<1> DEFINE s == Frags(c)
           q == Len(queued[c])
           m == msg[c]
           w == s[k]
           W == wire \ {w}
<1>1. q \in Nat /\ k \in 1..Len(s) /\ k <= q /\ peer \in DefraggerState
  <2>1. queued[c] \in Seq(UdpMessage) /\ todo[c] \in Seq(UdpMessage)
    BY DEF Types
  <2>2. Len(s) = q + Len(todo[c]) /\ q \in Nat /\ Len(todo[c]) \in Nat
    BY <2>1, JoinType DEF Frags
  <2>3. k \in 1..Len(s) /\ k <= q
    <3>1. k \in 1..q
      OBVIOUS
    <3>2. PICK l : l = Len(s)
      OBVIOUS
    <3>3. PICK t : t = Len(todo[c])
      OBVIOUS
    <3> HIDE DEF s, q
    <3>4. k \in 1..l /\ k <= q
      BY <2>2, <3>1, <3>2, <3>3
    <3>5. QED
      BY <3>2, <3>4
  <2>4. peer \in DefraggerState
    BY DEF PeerInv
  <2> HIDE DEF s, q
  <2>5. QED
    BY <2>2, <2>3, <2>4, Zenon
<1>2. q >= Len(s) => todo[c] = << >>
  BY DEF Types, Frags
<1>3. IsCut(s, m) /\ w \in wire /\ w \notin W /\ Fragmented(c)
  OBVIOUS
<1>4. CASE \E a \in Calls : a # c /\ PeerHas(peer, a, wire)
  <2>1. PICK a \in Calls : a # c /\ PeerHas(peer, a, wire)
    BY <1>4, Zenon
  <2>2. peer.pkt_id # m.packet_id
    BY <2>1, Zenon DEF PeerHas, Reassembles, NoCollision
  <2> HIDE DEF s, q, m, W
  <2>3. /\ Feed(peer, w) = <<StartOver(w), << >>>>
        /\ StartOver(w) \in DefraggerState
        /\ Reassembles(StartOver(w), s, q, m.packet_id, W)
    BY <1>1, <1>3, <2>2, FeedStarts, Zenon
  <2>4. PeerHas(StartOver(w), c, W)
    BY <1>3, <2>3, Zenon DEF PeerHas, s, q, m
  <2>5. Feed(peer, w)[1] = StartOver(w) /\ Feed(peer, w)[2] = << >>
    BY <2>3
  <2>6. QED
    BY <2>3, <2>4, <2>5, Zenon DEF s, W
<1>5. CASE peer.frags = << >>
  <2>1. Len(peer.frags) # Len(s)
    <3>1. Len(s) >= 2
      BY <1>3, U8Assumption DEF IsCut
    <3>2. Len(peer.frags) = 0
      BY <1>5
    <3>3. QED
      BY <3>1, <3>2
  <2> HIDE DEF s, q, m, W
  <2>2. /\ Feed(peer, w) = <<StartOver(w), << >>>>
        /\ StartOver(w) \in DefraggerState
        /\ Reassembles(StartOver(w), s, q, m.packet_id, W)
    BY <1>1, <1>3, <2>1, FeedStarts, ZenonT(40)
  <2>3. PeerHas(StartOver(w), c, W)
    BY <1>3, <2>2, Zenon DEF PeerHas, s, q, m
  <2>4. Feed(peer, w)[1] = StartOver(w) /\ Feed(peer, w)[2] = << >>
    BY <2>2
  <2>5. QED
    BY <2>2, <2>3, <2>4, Zenon DEF s, W
<1>6. CASE PeerHas(peer, c, wire)
  <2>1. Reassembles(peer, s, q, m.packet_id, wire)
    BY <1>6, Zenon DEF PeerHas
  <2>2. todo[c] = << >> => pc[c] \in {"ok", "fragments"}
    BY Zenon DEF Sending, AllFit, Fragmented
  <2> HIDE DEF s, q, m
  <2>3. /\ Feed(peer, w)[1] \in DefraggerState
        /\ Reassembles(Feed(peer, w)[1], s, q, m.packet_id, W)
        /\ \/ Feed(peer, w)[2] = << >>
           \/ Len(s) <= q /\ \E r : /\ Feed(peer, w)[2] = <<r>> /\ SameContent(r, m)
                                    /\ r.packet_id = m.packet_id
    <3>1. GoesOn(peer, m, s, s[k], q, wire)
      BY <1>1, <1>3, <2>1, FeedGoesOn
    <3>2. QED
      BY <3>1, Zenon DEF GoesOn
  <2>4. Feed(peer, w)[2] = << >> \/ \E r : Feed(peer, w)[2] = <<r>> /\ CameFrom(r, c)
    <3>1. CASE Feed(peer, w)[2] # << >>
      <4>1. PICK r : /\ Feed(peer, w)[2] = <<r>> /\ SameContent(r, m)
                     /\ r.packet_id = m.packet_id /\ Len(s) <= q
        BY <2>3, <3>1
      <4>2. todo[c] = << >>
        BY <1>1, <1>2, <4>1, Zenon
      <4>3. CameFrom(r, c)
        BY <2>2, <4>1, <4>2 DEF CameFrom, Fragmented, m
      <4>4. QED
        BY <4>1, <4>3
    <3>2. QED
      BY <3>1
  <2>5. QED
    BY <1>3, <2>3, <2>4 DEF PeerHas, s, q, m
<1>7. QED
  BY <1>4, <1>5, <1>6, Zenon DEF PeerInv, PeerHas

(* What is taken off the wire leaves what the peer has as it was. *)
LEMMA FewerOnWire ==
    ASSUME Types, PeerInv, NEW w
    PROVE  peer.frags = << >> \/ \E c \in Calls : PeerHas(peer, c, wire \ {w})
<1> SUFFICES ASSUME NEW c \in Calls, PeerHas(peer, c, wire)
             PROVE  PeerHas(peer, c, wire \ {w})
  BY Zenon DEF PeerInv, PeerHas
<1> DEFINE s == Frags(c)
<1>1. /\ Len(s) \in Nat /\ Len(queued[c]) \in Nat
      /\ peer.frags \in Seq(UdpMessage \cup {None})
  BY DEF Types, Frags, PeerInv, DefraggerState
<1>2. Reassembles(peer, s, Len(queued[c]), msg[c].packet_id, wire)
  BY DEF PeerHas
<1> HIDE DEF s
<1>3. Reassembles(peer, s, Len(queued[c]), msg[c].packet_id, wire \ {w})
  <2>1. Len(queued[c]) <= Len(queued[c])
    BY <1>1
  <2>2. \A i \in 1..Len(s) : i <= Len(queued[c]) /\ s[i] \notin wire => s[i] \notin wire \ {w}
    OBVIOUS
  <2>3. QED
    BY <1>1, <1>2, <2>1, <2>2, ReassemblesKept, Zenon
<1>4. QED
  BY <1>3 DEF PeerHas, s

LEMMA DeliverStep ==
    ASSUME Types, \A c \in Calls : Sending(c), AllFit, NoCollision,
           WireInv, PeerInv, ReceivedInv, NEW w \in wire, Deliver(w)
    PROVE  (WireInv /\ PeerInv /\ ReceivedInv)'
<1> DEFINE fed == IF Transferred(w) = None THEN <<peer, << >>>> ELSE Feed(peer, Transferred(w))
<1>1. /\ wire' = wire \ {w} /\ peer' = fed[1] /\ received' = received \cup Range(fed[2])
      /\ UNCHANGED <<pc, msg, todo, queued>>
  BY Zenon DEF Deliver
<1>2. WireInv'
  BY <1>1, ZenonT(40) DEF WireInv
<1>3. PICK c \in Calls : msg[c] # None /\ \E k \in 1..Len(queued[c]) : w = queued[c][k]
  BY DEF WireInv
<1>4. PICK k \in 1..Len(queued[c]) : w = queued[c][k]
  BY <1>3
<1>5. /\ msg[c] \in Sendable /\ msg[c] \in UdpMessage /\ msg[c].frag_count = 1 /\ Fits(msg[c])
      /\ msg[c].session_id = 1 /\ msg[c].packet_id \in 0..MaxPacketId
      /\ msg[c].addr \in Seq(Byte) /\ msg[c].data \in Seq(Byte)
      /\ Shift(Len(msg[c].addr), 7) < LowRange
  BY <1>3, SendableType DEF Types, Sendable, AllFit
<1>6. /\ k \in 1..Len(Frags(c)) /\ Frags(c)[k] = w
      /\ queued[c] \in Seq(UdpMessage) /\ todo[c] \in Seq(UdpMessage) /\ k \in Nat /\ k >= 1
  BY <1>4, SMTT(30) DEF Types, Frags
<1>7. \/ w = msg[c] /\ todo[c] = << >> /\ pc[c] \in {"ok", "fragments"}
      \/ Fragmented(c) /\ IsCut(Frags(c), msg[c])
  <2>1. CASE msg[c].packet_id = 0
    <3>1. queued[c] = (IF pc[c] = "ok" THEN <<msg[c]>> ELSE << >>) /\ todo[c] = << >>
      BY <1>3, <2>1, Zenon DEF Sending
    <3>2. pc[c] = "ok" /\ queued[c] = <<msg[c]>>
      BY <1>4, <3>1
    <3>3. w = msg[c]
      BY <1>4, <3>2
    <3>4. QED
      BY <3>1, <3>2, <3>3, Zenon
  <2>2. CASE Fragmented(c) /\ Frags(c) = <<msg[c]>>
    <3>1. w = msg[c]
      BY <1>6, <2>2
    <3>2. todo[c] = << >>
      <4> DEFINE a == Len(queued[c])
                 b == Len(todo[c])
                 n == Len(queued[c] \o todo[c])
      <4>1. n = a + b /\ a \in Nat /\ b \in Nat /\ k \in 1..a
        BY <1>4, <1>6
      <4>2. n = 1
        BY <2>2 DEF Frags
      <4> HIDE DEF a, b, n
      <4>3. b = 0
        BY <4>1, <4>2, SMTT(30)
      <4>4. QED
        BY <1>6, <4>3 DEF b
    <3>3. pc[c] \in {"ok", "fragments"}
      BY <1>5, <2>2, <3>2, Zenon DEF Sending
    <3>4. QED
      BY <3>1, <3>2, <3>3
  <2>3. CASE Fragmented(c) /\ Frags(c) # <<msg[c]>>
    BY <1>5, <2>3, Zenon DEF Sending, IsSplit
  <2>4. QED
    BY <1>3, <2>1, <2>2, <2>3, Zenon DEF Fragmented
<1>8. Transferred(w) \in {w, None} /\ w # None
  <2>1. CASE w = msg[c]
    BY <1>3, <1>5, <2>1, ArrivesAsSent
  <2>2. CASE IsCut(Frags(c), msg[c])
    <3>1. IsPart(w, msg[c], k, Len(Frags(c)))
      BY <1>6, <2>2, Zenon DEF IsCut
    <3>2. /\ w \in UdpMessage /\ w.session_id = 1 /\ w.packet_id \in 0..MaxPacketId
          /\ w.addr \in Seq(Byte) /\ w.data \in Seq(Byte) /\ Shift(Len(w.addr), 7) < LowRange
      BY <1>5, <3>1, Zenon DEF IsPart
    <3>3. QED
      BY <3>2, ArrivesAsSent, NoneAssumption, Zenon
  <2>3. QED
    BY <1>7, <2>1, <2>2
<1>9. /\ peer' \in DefraggerState
      /\ peer'.frags = << >> \/ \E a \in Calls : PeerHas(peer', a, wire \ {w})
      /\ fed[2] = << >> \/ \E r : fed[2] = <<r>> /\ CameFrom(r, c)
  <2>1. CASE Transferred(w) = None
    <3>1. fed = <<peer, << >>>>
      BY <2>1
    <3> HIDE DEF fed
    <3>2. peer' = peer /\ fed[2] = << >>
      BY <1>1, <3>1
    <3>3. QED
      BY <3>2, FewerOnWire, Zenon DEF PeerInv
  <2>2. CASE Transferred(w) = w /\ w = msg[c] /\ todo[c] = << >> /\ pc[c] \in {"ok", "fragments"}
    <3>1. fed = Feed(peer, msg[c])
      BY <1>8, <2>2, Zenon
    <3>2. fed = <<peer, <<msg[c]>>>> /\ CameFrom(msg[c], c)
      BY <1>3, <1>5, <2>2, <3>1, WholeArrives, Zenon
    <3> HIDE DEF fed
    <3>3. peer' = peer /\ fed[2] = <<msg[c]>>
      BY <1>1, <3>2, Zenon
    <3>4. QED
      BY <3>2, <3>3, FewerOnWire, Zenon DEF PeerInv
  <2>3. CASE Transferred(w) = w /\ Fragmented(c) /\ IsCut(Frags(c), msg[c])
    <3>1. fed = Feed(peer, Frags(c)[k])
      BY <1>6, <1>8, <2>3, Zenon
    <3> HIDE DEF fed
    <3>2. /\ fed[1] \in DefraggerState /\ PeerHas(fed[1], c, wire \ {w})
          /\ fed[2] = << >> \/ \E r : fed[2] = <<r>> /\ CameFrom(r, c)
      BY <1>6, <2>3, <3>1, FragmentArrives, Zenon
    <3>3. QED
      BY <1>1, <3>2, Zenon
  <2>4. QED
    BY <1>7, <1>8, <2>1, <2>2, <2>3, Zenon
<1> HIDE DEF fed
<1>10. PeerInv'
  <2>1. ASSUME NEW a \in Calls, PeerHas(peer', a, wire \ {w})
        PROVE  (/\ Fragmented(a) /\ IsCut(Frags(a), msg[a])
                /\ Reassembles(peer, Frags(a), Len(queued[a]), msg[a].packet_id, wire))'
    BY <1>1, <2>1 DEF PeerHas, Fragmented, Frags
  <2>2. QED
    BY <1>9, <2>1, Zenon DEF PeerInv
<1>11. ReceivedInv'
  <2>1. \A r \in received' : \E a \in Calls : CameFrom(r, a)
    <3>1. \A r \in Range(fed[2]) : CameFrom(r, c)
      <4>1. CASE fed[2] = << >>
        BY <4>1 DEF Range
      <4>2. CASE \E r : fed[2] = <<r>> /\ CameFrom(r, c)
        <5>1. PICK r : fed[2] = <<r>> /\ CameFrom(r, c)
          BY <4>2, Zenon
        <5>2. Range(fed[2]) = {r}
          BY <5>1 DEF Range
        <5>3. QED
          BY <5>1, <5>2, Zenon
      <4>3. QED
        BY <1>9, <4>1, <4>2, Zenon
    <3>2. \A r \in received : \E a \in Calls : CameFrom(r, a)
      BY SMTT(30) DEF ReceivedInv, CameFrom
    <3>3. QED
      BY <1>1, <3>1, <3>2, Zenon
  <2>2. \A r, a : CameFrom(r, a) => CameFrom(r, a)'
    BY <1>1 DEF CameFrom
  <2>3. QED
    BY <2>1, <2>2, Zenon DEF ReceivedInv, CameFrom
<1>12. QED
  BY <1>2, <1>10, <1>11

LEMMA NextIInv == IInv /\ [Next]_vars => IInv'
<1> SUFFICES ASSUME IInv, [Next]_vars PROVE IInv'
  OBVIOUS
<1>1. Types /\ \A c \in Calls : Sending(c)
  BY DEF IInv
<1>2. Types' /\ \A c \in Calls : Sending(c)'
  <2>1. CASE Next
    BY <1>1, <2>1, SendStep, SendWholeStep, GotoStep, SplitStep, SendFragmentStep, OutsideStep, ZenonT(40)
       DEF Next, Step
  <2>2. CASE UNCHANGED vars
    BY <1>1, <2>2, OutsideStep
  <2>3. QED
    BY <2>1, <2>2, Zenon
<1>3. ASSUME (AllFit /\ NoCollision)' PROVE (WireInv /\ PeerInv /\ ReceivedInv)'
  <2>1. ASSUME NEW w \in wire, Deliver(w) PROVE (WireInv /\ PeerInv /\ ReceivedInv)'
    <3>1. msg' = msg
      BY <2>1 DEF Deliver
    <3>2. AllFit /\ NoCollision
      BY <1>3, <3>1 DEF AllFit, NoCollision, Fragmented
    <3>3. WireInv /\ PeerInv /\ ReceivedInv
      BY <3>2 DEF IInv
    <3>4. QED
      BY <1>1, <2>1, <3>2, <3>3, DeliverStep, ZenonT(40)
  <2>2. CASE Next /\ ~\E w \in wire : Deliver(w)
    <3>1. \A c \in Calls : CallGoesOn(c)
      BY <1>1, <2>2, CallsGoOn
    <3>2. AllFit /\ NoCollision
      BY <1>3, <3>1, PremisesLast
    <3>3. WireInv /\ PeerInv /\ ReceivedInv
      BY <3>2, Zenon DEF IInv
    <3>4. peer' = peer /\ received' = received
      BY <2>2 DEF Next, Step, Send, SendWhole, TooLarge, WholeFails, Split, SendFragment,
                  FragmentFails, AllSent, LimitChanges, ConnectionLost, ends
    <3>5. \A w \in wire' : w \in wire \/ NewOnWire(w)
      BY <1>1, <2>2, <3>2, NewDatagrams, ZenonT(40)
    <3>6. QED
      BY <1>1, <1>2, <3>1, <3>3, <3>4, <3>5, PeerRests, Zenon
  <2>3. CASE UNCHANGED vars
    <3>1. UNCHANGED <<pc, msg, todo, queued, wire, peer, received>>
      BY <2>3, Zenon DEF vars, ends
    <3>2. WireInv /\ PeerInv /\ ReceivedInv
      BY <1>3, <3>1 DEF IInv, AllFit, NoCollision, Fragmented
    <3>3. QED
      BY <3>1, <3>2 DEF WireInv, PeerInv, ReceivedInv, Fragmented, Frags
  <2>4. QED
    BY <2>1, <2>2, <2>3
<1>4. QED
  BY <1>2, <1>3 DEF IInv

LEMMA AlwaysIInv == Spec => []IInv
  BY InitIInv, NextIInv, PTL DEF Spec

-----------------------------------------------------------------------------
(* The theorems.                                                           *)

(* When UdpSession::send returns Ok for a message that fits, the datagrams *)
(* quinn accepted from it are enough to rebuild the payload: for every     *)
(* request and every sequence of max_datagram_size values, whatever the    *)
(* other calls do meanwhile.                                               *)
THEOREM OkMeansComplete == Spec => []OkIsComplete
<1>1. IInv => OkIsComplete
  <2> SUFFICES ASSUME IInv, NEW c \in Calls, pc[c] = "ok", Fits(msg[c])
               PROVE  \E full \in Range(LastFed(queued[c])) : SameContent(full, msg[c])
    BY DEF OkIsComplete
  <2>1. Types /\ Sending(c)
    BY DEF IInv
  <2>2. msg[c] \in Sendable /\ msg[c] \in UdpMessage /\ msg[c] # None
    BY <2>1, MessageOf, Zenon
  <2>3. IsSplit(queued[c], msg[c])
    <3>1. CASE ~Fragmented(c)
      BY <2>1, <2>2, <3>1, Zenon DEF Sending, Fragmented, IsSplit
    <3>2. CASE Fragmented(c)
      <4>1. IsSplit(Frags(c), msg[c]) /\ todo[c] = << >>
        BY <2>1, <3>2 DEF Sending
      <4>2. Frags(c) = queued[c]
        BY <2>1, <4>1 DEF Types, Frags
      <4>3. QED
        BY <4>1, <4>2, Zenon
    <3>3. QED
      BY <3>1, <3>2, Zenon
  <2>4. msg[c].frag_count = 1
    BY <2>2, Zenon DEF Sendable
  <2>5. QED
    BY <2>2, <2>3, <2>4, LastFedComplete, Zenon
<1>2. QED
  BY <1>1, AlwaysIInv, PTL

(* Calls of UdpSession::send that run at once do not corrupt each other:   *)
(* as long as their messages fit and their packet_ids differ, the peer's   *)
(* Defragger returns only payloads that were passed to send, for any       *)
(* number of calls and any loss and reordering of their datagrams.         *)
THEOREM SendsKeepIntegrity == Spec => []Integrity
<1>1. IInv => Integrity
  BY DEF IInv, Integrity, ReceivedInv
<1>2. QED
  BY <1>1, AlwaysIInv, PTL

(* When UdpSession::send returns an error, the peer never gets the message *)
(* it gave up, from the fragments already accepted or with those of other  *)
(* calls.                                                                  *)
THEOREM ErrMeansNotDelivered == Spec => []ErrIsNotDelivered
<1>1. IInv => ErrIsNotDelivered
  <2> SUFFICES ASSUME IInv, AllFit, NoCollision, NEW c \in Calls, pc[c] = "err"
               PROVE  IF Fragmented(c) THEN \A r \in received : r.packet_id # msg[c].packet_id
                                       ELSE queued[c] = << >>
    BY DEF ErrIsNotDelivered
  <2>1. Types /\ Sending(c) /\ ReceivedInv
    BY DEF IInv
  <2>2. msg[c] # None
    BY <2>1, MessageOf, Zenon
  <2>3. CASE ~Fragmented(c)
    BY <2>1, <2>2, <2>3, Zenon DEF Sending, Fragmented
  <2>4. ASSUME Fragmented(c), NEW r \in received PROVE r.packet_id # msg[c].packet_id
    <3>1. PICK a \in Calls : /\ msg[a] # None /\ r.packet_id = msg[a].packet_id
                             /\ pc[a] \in {"ok", "fragments"}
      BY <2>1 DEF ReceivedInv
    <3>2. a # c
      BY <3>1
    <3>3. Fragmented(a) => msg[a].packet_id # msg[c].packet_id
      BY <2>4, <3>2 DEF NoCollision
    <3>4. QED
      BY <2>4, <3>1, <3>3, Zenon DEF Fragmented
  <2>5. QED
    BY <2>3, <2>4
<1>2. QED
  BY <1>1, AlwaysIInv, PTL
=============================================================================
