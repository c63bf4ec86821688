----------------------------- MODULE Reassembly -----------------------------
(***************************************************************************)
(* One Defragger (protocol.rs) fed by an unreliable channel. QUIC          *)
(* datagrams are lost and reordered, and feed has a branch for a repeated  *)
(* fragment, so any message of Wire may be fed at any time, any number of  *)
(* times.                                                                  *)
(***************************************************************************)
EXTENDS Fragmentation, FiniteSets

CONSTANT Wire    \* the messages the peer may send to this session

ASSUME WireAssumption == Wire \subseteq UdpMessage

VARIABLES
    d,               \* the Defragger
    out,             \* what the last call of feed returned
    overflow_checks, \* the build profile: debug builds check u8 arithmetic
    panicked,        \* a checked count += 1 overflowed
    seen,            \* history: frag_ids fed since the Defragger started over
    deliveries       \* history: packets put together since it started over

defrag_vars == <<d, out, overflow_checks, panicked, seen, deliveries>>

DefragInit ==
    /\ d = NewDefragger
    /\ out = << >>
    /\ overflow_checks \in BOOLEAN
    /\ panicked = FALSE
    /\ seen = {}
    /\ deliveries = 0

(* A message without fragments, or one whose frag_id is out of range. *)
FeedAside(m) ==
    /\ Whole(m) \/ BadFragId(m)
    /\ d' = Feed(d, m)[1]
    /\ out' = Feed(d, m)[2]
    /\ UNCHANGED <<seen, deliveries, panicked>>

(* The first fragment of another packet. *)
FeedFirst(m) ==
    /\ ~Whole(m) /\ ~BadFragId(m) /\ StartsPacket(d, m)
    /\ d' = Feed(d, m)[1]
    /\ out' = Feed(d, m)[2]
    /\ seen' = {m.frag_id}
    /\ deliveries' = 0
    /\ UNCHANGED panicked

(* A further fragment of the packet at hand, new or repeated. *)
FeedNext(m) ==
    /\ ~Whole(m) /\ ~BadFragId(m) /\ ~StartsPacket(d, m)
    /\ ~(overflow_checks /\ CountOverflows(d, m))
    /\ d' = Feed(d, m)[1]
    /\ out' = Feed(d, m)[2]
    /\ seen' = seen \cup {m.frag_id}
    /\ deliveries' = IF out' = << >> THEN deliveries ELSE deliveries + 1
    /\ UNCHANGED panicked

(* The overflow check of a debug build fires: recv panics inside feed. *)
FeedPanics(m) ==
    /\ overflow_checks /\ CountOverflows(d, m)
    /\ panicked' = TRUE
    /\ UNCHANGED <<d, out, seen, deliveries>>

DefragNext ==
    /\ ~panicked
    /\ \E m \in Wire : FeedAside(m) \/ FeedFirst(m) \/ FeedNext(m) \/ FeedPanics(m)
    /\ UNCHANGED overflow_checks

DefragSpec == DefragInit /\ [][DefragNext]_defrag_vars

-----------------------------------------------------------------------------

(* o is what a complete set of fragments of one packet id and one          *)
(* fragment count adds up to: fragment i at place i, the header of the     *)
(* first one, marked unfragmented.                                         *)
AddsUp(o) ==
    \E n \in 2 .. U8 - 1 :
      \E f \in [1..n -> {m \in Wire : m.packet_id = o.packet_id /\ m.frag_count = n}] :
        /\ \A i \in 1..n : f[i].frag_id = i - 1
        /\ o = [f[1] EXCEPT !.data       = Concat([i \in 1..n |-> f[i].data]),
                            !.frag_id    = 0,
                            !.frag_count = 1]

(* Whatever is lost, repeated or reordered, feed returns only a message    *)
(* that came unfragmented or one put together from all the fragments of    *)
(* one packet, each in its place.                                          *)
NothingInvented ==
    \A o \in Range(out) : (o \in Wire /\ Whole(o)) \/ AddsUp(o)

(* Late copies of fragments never hand the same packet up again: between   *)
(* two resets of the Defragger at most one packet is put together, also    *)
(* when the u8 count wraps around.                                         *)
AtMostOnce == deliveries <= 1

(* Once every fragment of the packet at hand has been fed, in whatever     *)
(* order and among whatever repetitions, the packet has been returned.     *)
CompleteIsDelivered ==
    (d.frags # << >> /\ seen = 0 .. Len(d.frags) - 1) => deliveries # 0

(* The u8 overflow of count needs copies of fragments of a packet that     *)
(* has been returned already: an incomplete packet never causes it.        *)
PanicNeedsLateCopies == panicked => deliveries # 0
=============================================================================
