------------------------------- MODULE UdpSend -------------------------------
(***************************************************************************)
(* UdpSession::send (udp.rs), called from several threads on one session,  *)
(* together with the datagram channel and the peer's reassembly. send      *)
(* takes &self and runs without a lock, while the QUIC driver may lower or *)
(* raise max_datagram_size or lose the connection between any two of its   *)
(* calls into quinn.                                                       *)
(***************************************************************************)
EXTENDS WireFormat, FiniteSets

CONSTANTS
    Calls,        \* the calls of send
    Requests,     \* [addr, data] records the calls may be given
    Limits,       \* values max_datagram_size may take
    MaxPacketId   \* u16::MAX

ASSUME LimitsAssumption == Limits \subseteq Nat /\ MaxPacketId \in Nat \ {0}

(* A packet_id is written in two bytes, an address is shorter than the     *)
(* largest varint.                                                         *)
ASSUME WidthsAssumption ==
    /\ MaxPacketId < Radix * Radix
    /\ Requests \subseteq [addr : Seq(Byte), data : Seq(Byte)]
    /\ \A r \in Requests : Shift(Len(r.addr), 7) < LowRange

VARIABLES
    limit,           \* conn.max_datagram_size()
    closed,          \* the connection is lost
    overflow_checks, \* the build profile
    pc,              \* idle, whole, split, fragments or how the call ended
    msg,             \* the message of each call
    todo,            \* fragments still to be sent
    wire,            \* datagrams accepted by quinn and not yet delivered
    peer,            \* the peer's Defragger
    received,        \* what the peer has put together
    queued           \* history: what quinn accepted from each call, in order

conn == <<limit, closed>>
ends == <<wire, peer, received>>
vars == <<conn, overflow_checks, pc, msg, todo, ends, queued>>

NewMessage(r) ==
    [session_id |-> 1, packet_id |-> 0, frag_id |-> 0, frag_count |-> 1,
     addr |-> r.addr, data |-> r.data]

Init ==
    /\ limit \in Limits
    /\ closed = FALSE
    /\ overflow_checks \in BOOLEAN
    /\ pc = [c \in Calls |-> "idle"]
    /\ msg = [c \in Calls |-> None]
    /\ todo = [c \in Calls |-> << >>]
    /\ wire = {}
    /\ peer = NewDefragger
    /\ received = {}
    /\ queued = [c \in Calls |-> << >>]

Goto(c, l) == pc' = [pc EXCEPT ![c] = l]

(* quinn's send_datagram accepts m: it will be delivered or lost. *)
SendDatagram(c, m) ==
    /\ wire' = wire \cup {m}
    /\ queued' = [queued EXCEPT ![c] = Append(@, m)]

Send(c, r) ==
    /\ pc[c] = "idle"
    /\ msg' = [msg EXCEPT ![c] = NewMessage(r)]
    /\ Goto(c, "whole")
    /\ UNCHANGED <<conn, overflow_checks, todo, ends, queued>>

(* The fast path: the unfragmented message is accepted, ... *)
SendWhole(c) ==
    /\ pc[c] = "whole" /\ ~closed /\ Size(msg[c]) <= limit
    /\ SendDatagram(c, msg[c])
    /\ Goto(c, "ok")
    /\ UNCHANGED <<conn, overflow_checks, msg, todo, peer, received>>

(* ... or TooLarge, ... *)
TooLarge(c) ==
    /\ pc[c] = "whole" /\ ~closed /\ Size(msg[c]) > limit
    /\ Goto(c, "split")
    /\ UNCHANGED <<conn, overflow_checks, msg, todo, ends, queued>>

(* ... or the connection is lost. *)
WholeFails(c) ==
    /\ pc[c] = "whole" /\ closed
    /\ Goto(c, "err")
    /\ UNCHANGED <<conn, overflow_checks, msg, todo, ends, queued>>

PacketIds_bug_Unset == {0}

(* What random_range draws a packet_id from. *)
PacketIds == 1..MaxPacketId

(* Read the limit again, draw a packet_id and split. *)
Split(c) ==
    /\ pc[c] = "split"
    /\ \E id \in PacketIds :
         LET m == [msg[c] EXCEPT !.packet_id = id]
         IN  /\ msg' = [msg EXCEPT ![c] = m]
             /\ IF overflow_checks /\ FragIdOverflows(m, limit)
                THEN Goto(c, "panic") /\ UNCHANGED todo
                ELSE Goto(c, "fragments") /\ todo' = [todo EXCEPT ![c] = FragUdpMessage(m, limit)]
    /\ UNCHANGED <<conn, overflow_checks, ends, queued>>

SendFragment(c) ==
    /\ pc[c] = "fragments" /\ todo[c] # << >>
    /\ ~closed /\ Size(Head(todo[c])) <= limit
    /\ SendDatagram(c, Head(todo[c]))
    /\ todo' = [todo EXCEPT ![c] = Tail(@)]
    /\ UNCHANGED <<conn, overflow_checks, pc, msg, peer, received>>

FragmentFails_bug_Skipped(c) ==
    /\ pc[c] = "fragments" /\ todo[c] # << >>
    /\ closed \/ Size(Head(todo[c])) > limit
    /\ todo' = [todo EXCEPT ![c] = Tail(@)]
    /\ UNCHANGED <<conn, overflow_checks, pc, msg, ends, queued>>

(* The connection was lost, or the limit fell below a fragment made for    *)
(* the limit read before: the rest of the fragments is given up.           *)
FragmentFails(c) ==
    /\ pc[c] = "fragments" /\ todo[c] # << >>
    /\ closed \/ Size(Head(todo[c])) > limit
    /\ Goto(c, "err")
    /\ UNCHANGED <<conn, overflow_checks, msg, todo, ends, queued>>

AllSent_bug_ChecksConnection(c) ==
    /\ pc[c] = "fragments" /\ todo[c] = << >>
    /\ Goto(c, IF closed THEN "err" ELSE "ok")
    /\ UNCHANGED <<conn, overflow_checks, msg, todo, ends, queued>>

AllSent(c) ==
    /\ pc[c] = "fragments" /\ todo[c] = << >>
    /\ Goto(c, "ok")
    /\ UNCHANGED <<conn, overflow_checks, msg, todo, ends, queued>>

LimitChanges ==
    /\ limit' \in Limits \ {limit}
    /\ UNCHANGED <<closed, overflow_checks, pc, msg, todo, ends, queued>>

ConnectionLost ==
    /\ ~closed
    /\ closed' = TRUE
    /\ UNCHANGED <<limit, overflow_checks, pc, msg, todo, ends, queued>>

(* A datagram reaches the peer, which parses and feeds it, in any order;   *)
(* one never picked is lost.                                               *)
Deliver(m) ==
    /\ m \in wire
    /\ wire' = wire \ {m}
    /\ LET fed == IF Transferred(m) = None THEN <<peer, << >>>> ELSE Feed(peer, Transferred(m))
       IN  /\ peer' = fed[1]
           /\ received' = received \cup Range(fed[2])
    /\ UNCHANGED <<conn, overflow_checks, pc, msg, todo, queued>>

Step(c) ==
    \/ SendWhole(c) \/ TooLarge(c) \/ WholeFails(c) \/ Split(c)
    \/ SendFragment(c) \/ FragmentFails(c) \/ AllSent(c)

Next ==
    \/ \E c \in Calls, r \in Requests : Send(c, r)
    \/ \E c \in Calls : Step(c)
    \/ LimitChanges
    \/ ConnectionLost
    \/ \E m \in wire : Deliver(m)

Spec == Init /\ [][Next]_vars

-----------------------------------------------------------------------------

(* Under every limit some payload fits behind the header, and the          *)
(* fragments can be numbered by a u8.                                      *)
Fits(m) ==
    \A l \in Limits : Size(m) > l => /\ MaxPayload(m, l) > 0
                                     /\ FragCount(m, l) < U8

AllFit == \A c \in Calls : msg[c] # None => Fits(msg[c])

Fragmented(c) == msg[c] # None /\ msg[c].packet_id # 0

(* No two calls drew the same packet_id. *)
NoCollision ==
    \A c1, c2 \in {c \in Calls : Fragmented(c)} :
      c1 # c2 => msg[c1].packet_id # msg[c2].packet_id

(* When send returns Ok, what it handed to quinn is enough for a Defragger *)
(* to rebuild the payload, even if max_datagram_size changed while it ran. *)
OkIsComplete ==
    \A c \in Calls : pc[c] = "ok" /\ Fits(msg[c]) =>
      \E full \in Range(LastFed(queued[c])) : SameContent(full, msg[c])

(* Concurrent sends do not corrupt each other: as long as their random     *)
(* packet_ids differ, whatever interleaving of their fragments is lost or  *)
(* reordered, the peer only gets payloads that were passed to send.        *)
Integrity ==
    AllFit /\ NoCollision =>
      \A r \in received : \E c \in Calls : msg[c] # None /\ SameContent(r, msg[c])

(* When send returns an error part way through its fragments, the ones     *)
(* already sent never add up to a message at the peer.                     *)
ErrIsNotDelivered ==
    AllFit /\ NoCollision =>
      \A c \in Calls : pc[c] = "err" =>
        IF Fragmented(c) THEN \A r \in received : r.packet_id # msg[c].packet_id
                         ELSE queued[c] = << >>

(* udp.rs:113 says that send sends the data, "fragmenting if the payload   *)
(* exceeds the current QUIC datagram limit": Ok means that a Defragger can *)
(* rebuild the payload, also when some limit is too small for it.          *)
OkIsSent ==
    \A c \in Calls : pc[c] = "ok" =>
      \E full \in Range(LastFed(queued[c])) : SameContent(full, msg[c])
=============================================================================
