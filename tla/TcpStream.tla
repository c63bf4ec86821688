----------------------------- MODULE TcpStream -----------------------------
(***************************************************************************)
(* The read side of DuplexStream (stream.rs): the TCPResponse header is    *)
(* stripped lazily from a QUIC stream whose bytes arrive in arbitrary      *)
(* portions, and what follows it is passed to the application. The calls   *)
(* of one poll into quinn interleave with arrivals.                        *)
(***************************************************************************)
EXTENDS Varint

CONSTANTS
    MaxMessageLength, MaxPaddingLength,
    ChunkSize,   \* length of poll_establish's buffer (512)
    BufSizes,    \* free space of the buffers the application reads into
    Streams      \* the byte sequences a server may send

ASSUME StreamAssumption ==
    /\ MaxMessageLength \in Nat /\ MaxPaddingLength \in Nat
    /\ ChunkSize \in Nat \ {0} /\ BufSizes \subseteq Nat \ {0}
    /\ Streams \subseteq Seq(Byte)

-----------------------------------------------------------------------------
(* parse_tcp_response: status | varint(msg_len) | msg | varint(pad_len) |  *)
(* pad.                                                                    *)

From(buf, pos) == SubSeq(buf, pos + 1, Len(buf))

NeedMore == [kind |-> "NeedMore"]
Invalid  == [kind |-> "Invalid"]
Done(ok, consumed) == [kind |-> "Done", ok |-> ok, consumed |-> consumed]

(* A length field at pos and as many bytes as it says: the position after  *)
(* them, or the reason why there is none.                                  *)
SkipField(buf, pos, max) ==
    LET f == GetVarint(From(buf, pos))
    IN  IF f = << >> THEN NeedMore
        ELSE IF f[1] > max THEN Invalid
        ELSE IF Len(buf) < pos + f[2] + f[1] THEN NeedMore
        ELSE [kind |-> "At", pos |-> pos + f[2] + f[1]]

ParseTcpResponse_bug_TruncatedPadding(buf) ==
    IF buf = << >> THEN NeedMore
    ELSE LET msg == SkipField(buf, 1, MaxMessageLength)
         IN  IF msg.kind # "At" THEN msg
             ELSE LET pad == GetVarint(From(buf, msg.pos))
                  IN  IF pad = << >> THEN NeedMore
                      ELSE IF pad[1] > MaxPaddingLength THEN Invalid
                      ELSE Done(buf[1] = 0, IF msg.pos + pad[1] + pad[2] > Len(buf) THEN Len(buf)
                                            ELSE msg.pos + pad[1] + pad[2])

ParseTcpResponse(buf) ==
    IF buf = << >> THEN NeedMore
    ELSE LET msg == SkipField(buf, 1, MaxMessageLength)
         IN  IF msg.kind # "At" THEN msg
             ELSE LET pad == SkipField(buf, msg.pos, MaxPaddingLength)
                  IN  IF pad.kind # "At" THEN pad ELSE Done(buf[1] = 0, pad.pos)

-----------------------------------------------------------------------------

VARIABLES
    wire,      \* all the bytes the server sends on the stream
    ending,    \* what it does then: fin, reset, or nothing (open)
    arrived,   \* how many bytes have arrived
    ended,     \* the fin or reset has arrived
    taken,     \* how many bytes have been read from quinn
    response_done, scratch, leftover, leftover_pos,
    holder,    \* who polls: tcp_connect (fast-open off), app, or nobody
    pc,        \* idle, establish or read (inside a poll), parked (Pending)
    room,      \* buf.remaining() of the poll under way
    got,       \* history: the bytes put into the application's buffers
    last       \* what the last poll that was Ready returned

network == <<wire, ending, arrived, ended>>
header == <<response_done, scratch, leftover>>
vars == <<network, taken, header, leftover_pos, holder, pc, room, got, last>>

Init ==
    /\ wire \in Streams
    /\ ending \in {"fin", "reset", "open"}
    /\ arrived = 0
    /\ ended = FALSE
    /\ taken = 0
    /\ response_done = FALSE
    /\ scratch = << >>
    /\ leftover = << >>
    /\ leftover_pos = 0
    /\ holder \in {"tcp_connect", "app"}
    /\ pc = "idle"
    /\ room = 0
    /\ got = << >>
    /\ last = "none"

Available == arrived - taken

(* The poll is Ready; a failed establish() ends tcp_connect and the stream *)
(* is dropped, a successful one hands it to the application.               *)
Ready(r) ==
    /\ pc' = "idle"
    /\ last' = r
    /\ holder' = IF holder # "tcp_connect" THEN holder
                 ELSE IF r = "ok" THEN "app" ELSE "nobody"

-----------------------------------------------------------------------------
(* quinn and the network.                                                  *)

Arrive ==
    /\ arrived < Len(wire)
    /\ arrived' \in arrived + 1 .. Len(wire)
    /\ UNCHANGED <<wire, ending, ended, taken, header, leftover_pos, holder, pc, room, got, last>>

(* A reset may overtake data; a fin cannot. *)
End ==
    /\ ~ended
    /\ ending = "reset" \/ (ending = "fin" /\ arrived = Len(wire))
    /\ ended' = TRUE
    /\ UNCHANGED <<wire, ending, arrived, taken, header, leftover_pos, holder, pc, room, got, last>>

(* RecvStream::poll_read into a buffer of n bytes: k > 0 bytes, ... *)
Reads(n, k) == k \in 1 .. n /\ k <= Available /\ taken' = taken + k

(* ... the end of the stream, a reset, or Pending, which leaves a waker. *)
AtFin == ended /\ ending = "fin" /\ taken = Len(wire)
AtReset == ended /\ ending = "reset"
NothingYet == Available = 0 /\ ~AtFin /\ ~AtReset

Woken ==
    /\ pc = "parked" /\ (Available > 0 \/ ended)
    /\ pc' = "idle"
    /\ UNCHANGED <<network, taken, header, leftover_pos, holder, room, got, last>>

-----------------------------------------------------------------------------
(* poll_establish.                                                         *)

PollBegins(n) ==
    /\ pc = "idle" /\ holder # "nobody"
    /\ pc' = IF response_done THEN "read" ELSE "establish"
    /\ room' = n
    /\ UNCHANGED <<network, taken, header, leftover_pos, holder, got, last>>

Parsed == ParseTcpResponse(scratch)

EstablishDone_bug_LeftoverLost ==
    /\ pc = "establish" /\ Parsed.kind = "Done" /\ Parsed.ok
    /\ leftover' = << >>
    /\ scratch' = << >>
    /\ response_done' = TRUE
    /\ IF holder = "app" THEN pc' = "read" /\ UNCHANGED <<holder, last>> ELSE Ready("ok")
    /\ UNCHANGED <<network, taken, leftover_pos, room, got>>

EstablishDone_bug_Pending ==
    /\ pc = "establish" /\ Parsed.kind = "Done" /\ Parsed.ok
    /\ leftover' = From(scratch, Parsed.consumed)
    /\ scratch' = << >>
    /\ response_done' = TRUE
    /\ pc' = "parked"
    /\ UNCHANGED <<network, taken, leftover_pos, holder, room, got, last>>

EstablishDone ==
    /\ pc = "establish" /\ Parsed.kind = "Done" /\ Parsed.ok
    /\ leftover' = From(scratch, Parsed.consumed)
    /\ scratch' = << >>
    /\ response_done' = TRUE
    /\ IF holder = "app" THEN pc' = "read" /\ UNCHANGED <<holder, last>> ELSE Ready("ok")
    /\ UNCHANGED <<network, taken, leftover_pos, room, got>>

(* A rejection or a malformed header leaves scratch as it is. *)
EstablishRejected ==
    /\ pc = "establish"
    /\ \/ Parsed.kind = "Done" /\ ~Parsed.ok /\ Ready("refused")
       \/ Parsed.kind = "Invalid" /\ Ready("invalid")
    /\ UNCHANGED <<network, taken, header, leftover_pos, room, got>>

EstablishReads ==
    /\ pc = "establish" /\ Parsed.kind = "NeedMore" /\ ~AtReset
    /\ \E k \in 1 .. ChunkSize :
         /\ Reads(ChunkSize, k)
         /\ scratch' = scratch \o SubSeq(wire, taken + 1, taken + k)
    /\ UNCHANGED <<network, response_done, leftover, leftover_pos, holder, pc, room, got, last>>

EstablishEnds ==
    /\ pc = "establish" /\ Parsed.kind = "NeedMore"
    /\ \/ AtFin /\ Ready("unexpected_eof")
       \/ AtReset /\ Ready("reset")
       \/ NothingYet /\ pc' = "parked" /\ UNCHANGED <<holder, last>>
    /\ UNCHANGED <<network, taken, header, leftover_pos, room, got>>

-----------------------------------------------------------------------------
(* poll_read, phases 2 and 3.                                              *)

Put(bytes) == got' = got \o bytes /\ Ready("ok")

ReadLeftover ==
    /\ pc = "read" /\ leftover_pos < Len(leftover)
    /\ LET rest == From(leftover, leftover_pos)
           n    == IF Len(rest) < room THEN Len(rest) ELSE room
       IN  Put(SubSeq(rest, 1, n)) /\ leftover_pos' = leftover_pos + n
    /\ UNCHANGED <<network, taken, header, room>>

PassThrough ==
    /\ pc = "read" /\ leftover_pos >= Len(leftover)
    /\ \/ ~AtReset /\ \E k \in 1 .. room :
                        Reads(room, k) /\ Put(SubSeq(wire, taken + 1, taken + k))
       \/ AtFin /\ Ready("eof") /\ UNCHANGED <<taken, got>>
       \/ AtReset /\ Ready("reset") /\ UNCHANGED <<taken, got>>
       \/ NothingYet /\ pc' = "parked" /\ UNCHANGED <<holder, last, taken, got>>
    /\ UNCHANGED <<network, header, leftover_pos, room>>

-----------------------------------------------------------------------------

Poll ==
    \/ EstablishDone \/ EstablishRejected \/ EstablishReads \/ EstablishEnds
    \/ ReadLeftover \/ PassThrough

Begin == \E n \in BufSizes : PollBegins(n)

Next == Arrive \/ End \/ Woken \/ Begin \/ Poll

(* The server's bytes and its fin or reset arrive, a woken reader is       *)
(* polled, and the reader reads until it has had its answer.               *)
Fairness ==
    WF_vars(Arrive) /\ WF_vars(End) /\ WF_vars(Woken) /\ WF_vars(Begin) /\ WF_vars(Poll)

Spec == Init /\ [][Next]_vars /\ Fairness

-----------------------------------------------------------------------------
(* The header, as a grammar over the whole of what the server sends.       *)

(* s encodes v, in any of the four lengths. *)
IsVarint(s, v) ==
    \E t \in 0..3 : Len(s) = 2^t /\ s[1] \div LowRange = t /\ s = VarintIn(v, t)

(* The bytes of w after i up to j are a length field and what it counts. *)
IsField(w, i, j, max) ==
    \E a \in i + 1 .. j : IsVarint(SubSeq(w, i + 1, a), j - a) /\ j - a <= max

(* The first n bytes of w are a TCPResponse header. *)
IsHeader(w, n) ==
    \E b \in 2 .. n : IsField(w, 1, b, MaxMessageLength) /\ IsField(w, b, n, MaxPaddingLength)

Accepts(w, n) == IsHeader(w, n) /\ w[1] = 0

(* A length field of w, after i, exceeds max. *)
ExceedsAt(w, i, max) ==
    \E a \in i + 1 .. Len(w) :
      LET s == SubSeq(w, i + 1, a)
      IN  Len(s) = 2 ^ (s[1] \div LowRange) /\ \A v \in 0 .. max : ~IsVarint(s, v)

Exceeds(w) ==
    \/ ExceedsAt(w, 1, MaxMessageLength)
    \/ \E b \in 2 .. Len(w) : /\ IsField(w, 1, b, MaxMessageLength)
                              /\ ExceedsAt(w, b, MaxPaddingLength)

Lengths == 0 .. Len(wire)

HasHeader == \E n \in Lengths : IsHeader(wire, n)

(* The application has been given all there is to give. *)
AllRead == \E n \in Lengths : Accepts(wire, n) /\ got = From(wire, n)

-----------------------------------------------------------------------------

(* However the bytes are cut up on arrival and by the application's        *)
(* buffers, none is lost, repeated or reordered between the header and the *)
(* application, and none is given out before the header is complete.       *)
BytesConserved ==
    IF response_done
    THEN \E n \in Lengths :
           /\ Accepts(wire, n)
           /\ From(wire, n) = got \o From(leftover, leftover_pos) \o From(wire, taken)
    ELSE got = << >> /\ scratch = SubSeq(wire, 1, taken)

(* The verdict does not depend on where the header was cut: a rejection, a *)
(* malformed header, a premature end and the end of the data are reported  *)
(* only when the whole of what the server sent says so.                    *)
VerdictIsRight ==
    /\ last = "refused" => HasHeader /\ wire[1] # 0
    /\ last = "invalid" => Exceeds(wire)
    /\ last = "unexpected_eof" => ending = "fin" /\ ~HasHeader /\ ~Exceeds(wire)
    /\ last = "eof" => ending = "fin" /\ AllRead

(* The reader is not left parked with something to report: tcp_connect     *)
(* gets the verdict and hands the stream on, and the application gets all  *)
(* the data after an accepting header, or an error, or the end, unless the *)
(* server leaves the stream open before its header is complete.            *)
ReaderIsAnswered ==
    <>(\/ response_done /\ holder = "app" /\ AllRead
       \/ last \in {"refused", "invalid", "unexpected_eof", "reset", "eof"}
       \/ ending = "open" /\ ~HasHeader /\ ~Exceeds(wire))
=============================================================================
