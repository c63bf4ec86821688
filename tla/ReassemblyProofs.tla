-------------------------- MODULE ReassemblyProofs --------------------------
(***************************************************************************)
(* Proofs about Reassembly, for any traffic and any width of the counter.  *)
(***************************************************************************)
EXTENDS Reassembly, ProtocolProofs, FiniteSetTheorems

(* The Defragger is well-formed: it has no slot yet, or as many as some    *)
(* fragment announced.                                                     *)
SlotsInv ==
    /\ d \in DefraggerState
    /\ Len(d.frags) = 0 \/ Len(d.frags) \in 2 .. U8 - 1
    /\ seen \subseteq 0 .. Len(d.frags) - 1
    /\ deliveries \in {0, 1}

(* What count counts: before the packet is put together the filled slots,  *)
(* which are those of the fragments seen; afterwards, modulo U8, all slots *)
(* once and those filled again.                                            *)
CountInv ==
    /\ deliveries = 0 =>
         /\ \A i \in DOMAIN d.frags : d.frags[i] # None <=> i - 1 \in seen
         /\ d.count = Cardinality(Filled(d))
         /\ Len(d.frags) # 0 => d.count < Len(d.frags)
    /\ deliveries = 1 =>
         /\ Len(d.frags) # 0
         /\ LET all == Len(d.frags) + Cardinality(Filled(d))
            IN  all = d.count \/ all = d.count + U8

(* Every fragment held came from the peer and sits in the slot of its      *)
(* frag_id, under the packet id and the fragment count of the Defragger.   *)
InPlace(x) ==
    \A i \in DOMAIN x.frags : x.frags[i] # None =>
        /\ x.frags[i] \in Wire
        /\ x.frags[i].packet_id = x.pkt_id
        /\ x.frags[i].frag_count = Len(x.frags)
        /\ x.frags[i].frag_id = i - 1

IInv == SlotsInv /\ CountInv /\ PanicNeedsLateCopies

PlaceInv == InPlace(d) /\ NothingInvented

-----------------------------------------------------------------------------

(* The filled slots of a Defragger are finitely many, at most all. *)
LEMMA FilledFinite ==
    ASSUME NEW x \in DefraggerState
    PROVE  /\ IsFiniteSet(Filled(x))
           /\ Cardinality(Filled(x)) \in 0 .. Len(x.frags)
           /\ Cardinality(Filled(x)) = Len(x.frags) => Filled(x) = 1 .. Len(x.frags)
<1>1. Len(x.frags) \in Nat /\ DOMAIN x.frags = 1 .. Len(x.frags)
  BY DEF DefraggerState
<1>2. IsFiniteSet(1 .. Len(x.frags)) /\ Cardinality(1 .. Len(x.frags)) = Len(x.frags)
  BY <1>1, FS_Interval
<1>3. Filled(x) \subseteq 1 .. Len(x.frags)
  BY <1>1 DEF Filled
<1>4. QED
  BY <1>1, <1>2, <1>3, FS_Subset, FS_CardinalityType

(* Store fills one slot more. *)
LEMMA StoreCounts ==
    ASSUME NEW x \in DefraggerState, NEW m \in UdpMessage,
           ~BadFragId(m), m.frag_count = Len(x.frags), SlotFree(x, m)
    PROVE  Cardinality(Filled(Store(x, m))) = Cardinality(Filled(x)) + 1
<1> DEFINE k == m.frag_id + 1
<1>1. Filled(Store(x, m)) = Filled(x) \cup {k} /\ k \notin Filled(x)
  BY StoreFacts
<1>2. QED
  BY <1>1, FilledFinite, FS_AddElement, Zenon

LEMMA IInvInit == DefragInit => IInv
<1> SUFFICES ASSUME DefragInit PROVE IInv
  OBVIOUS
<1>1. d.frags = << >> /\ d.count = 0 /\ d \in DefraggerState
  BY NewDefraggerType DEF DefragInit, NewDefragger
<1>2. Filled(d) = {}
  BY <1>1 DEF Filled
<1>3. QED
  BY <1>1, <1>2, FS_EmptySet DEF DefragInit, IInv, SlotsInv, CountInv, PanicNeedsLateCopies

(* The fragment that makes count reach the number of slots: the packet has *)
(* not been put together yet, and now every slot is filled.                *)
LEMMA LastFragment ==
    ASSUME SlotsInv, CountInv, NEW m \in UdpMessage,
           ~Whole(m), ~BadFragId(m), ~StartsPacket(d, m), SlotFree(d, m),
           Store(d, m).count = Len(d.frags)
    PROVE  /\ deliveries = 0
           /\ Len(d.frags) \in 2 .. U8 - 1
           /\ Filled(Store(d, m)) = 1 .. Len(d.frags)
<1> DEFINE s == Store(d, m)
           n == Len(d.frags)
           k == Cardinality(Filled(d))
<1>1. m.frag_count = n /\ n \in 2 .. U8 - 1
  BY U8Assumption DEF StartsPacket, BadFragId, Whole, SlotsInv, UdpMessage
<1>2. /\ s \in DefraggerState /\ Len(s.frags) = n
      /\ Cardinality(Filled(s)) = k + 1 /\ s.count = WrapInc(d.count)
  BY <1>1, StoreFacts, StoreCounts DEF SlotsInv
<1>3. k \in 0 .. n - 1 /\ d.count \in 0 .. U8 - 1
  BY <1>1, <1>2, FilledFinite, SMTT(30) DEF SlotsInv, DefraggerState
<1>4. /\ deliveries = 0 => d.count = k /\ d.count < n
      /\ deliveries = 1 => n + k = d.count \/ n + k = d.count + U8
  BY <1>1 DEF CountInv
<1> HIDE DEF n, k
<1>5. deliveries = 0
  <2>1. WrapInc(d.count) = n
    BY <1>2 DEF n
  <2>2. QED
    BY <1>1, <1>3, <1>4, <2>1, U8Assumption, SMTT(30) DEF SlotsInv, WrapInc
<1>6. Cardinality(Filled(s)) = n
  <2>1. WrapInc(d.count) = n
    BY <1>2 DEF n
  <2>2. QED
    BY <1>1, <1>2, <1>3, <1>4, <1>5, <2>1, U8Assumption, SMTT(30) DEF WrapInc
<1>7. QED
  BY <1>1, <1>2, <1>5, <1>6, FilledFinite DEF n

(* A further fragment whose slot is free. *)
LEMMA FeedFree ==
    ASSUME SlotsInv, CountInv, NEW m \in UdpMessage,
           ~Whole(m), ~BadFragId(m), ~StartsPacket(d, m), SlotFree(d, m), FeedNext(m)
    PROVE  SlotsInv' /\ CountInv'
<1> DEFINE s == Store(d, m)
           n == Len(d.frags)
           k == Cardinality(Filled(d))
<1>1. m.frag_count = n /\ m.frag_id \in 0 .. n - 1 /\ n \in 2 .. U8 - 1
  BY U8Assumption DEF StartsPacket, BadFragId, Whole, SlotsInv, UdpMessage
<1>2. /\ s \in DefraggerState /\ Len(s.frags) = n /\ DOMAIN s.frags = DOMAIN d.frags
      /\ \A i \in DOMAIN d.frags : s.frags[i] # None <=> d.frags[i] # None \/ i - 1 = m.frag_id
      /\ Cardinality(Filled(s)) = k + 1 /\ s.count = WrapInc(d.count)
  BY <1>1, StoreFacts, StoreCounts DEF SlotsInv
<1>3. k \in 0 .. n - 1 /\ d.count \in 0 .. U8 - 1
  BY <1>1, <1>2, FilledFinite, SMTT(30) DEF SlotsInv, DefraggerState
<1>4. seen' = seen \cup {m.frag_id} /\ seen' \subseteq 0 .. n - 1
  BY <1>1, Zenon DEF FeedNext, SlotsInv
<1>a. /\ deliveries = 0 => d.count = k /\ d.count < n
      /\ deliveries = 1 => n + k = d.count \/ n + k = d.count + U8
  BY <1>1 DEF CountInv
<1>b. Filled(d)' = Filled(d')
  BY DEF Filled
<1> HIDE DEF s, n, k
<1>5. CASE s.count = n
  <2>1. d' = Drain(s) /\ out' = Assemble(s)
    BY <1>2, <1>5 DEF FeedNext, Feed, s
  <2>2. Filled(s) # {}
    <3>1. Cardinality(Filled(s)) # 0
      BY <1>2, <1>3
    <3>2. QED
      BY <3>1, FS_EmptySet
  <2>3. deliveries' = deliveries + 1
    BY <2>1, <2>2, AssembleReturns DEF FeedNext
  <2>4. deliveries = 0
    BY <1>5, LastFragment DEF s, n
  <2>5. /\ d' \in DefraggerState /\ Len(d'.frags) = n /\ d'.count = n
        /\ Cardinality(Filled(d')) = 0
    BY <1>2, <1>5, <2>1, DrainFacts, FS_EmptySet, Zenon
  <2>6. QED
    BY <1>1, <1>4, <2>3, <2>4, <2>5 DEF SlotsInv, CountInv, Filled
<1>6. CASE s.count # n
  <2>1. d' = s /\ out' = << >> /\ deliveries' = deliveries
    BY <1>2, <1>6 DEF FeedNext, Feed, s
  <2>2. SlotsInv'
    BY <1>1, <1>2, <1>4, <2>1 DEF SlotsInv
  <2>3. CASE deliveries = 0
    <3>1. s.count = k + 1 /\ k + 1 < n
      BY <1>1, <1>2, <1>3, <1>6, <1>a, <2>3, U8Assumption, SMTT(30) DEF WrapInc
    <3>2. \A i \in DOMAIN s.frags : s.frags[i] # None <=> i - 1 \in seen'
      BY <1>2, <1>4, <2>3, Zenon DEF CountInv
    <3>3. QED
      BY <1>2, <1>b, <2>1, <2>2, <2>3, <3>1, <3>2, SMTT(30) DEF CountInv
  <2>4. CASE deliveries = 1
    <3>1. n + k + 1 = s.count \/ n + k + 1 = s.count + U8
      BY <1>1, <1>2, <1>3, <1>a, <2>4, U8Assumption, SMTT(30) DEF WrapInc
    <3>2. Len(d'.frags) + Cardinality(Filled(d')) = n + k + 1 /\ Len(d'.frags) # 0
      <4>1. Len(d'.frags) = n /\ Cardinality(Filled(d')) = k + 1
        BY <1>2, <2>1
      <4>2. n \in Nat \ {0} /\ k \in Nat
        BY <1>1, <1>3, U8Assumption
      <4>3. QED
        BY <4>1, <4>2
    <3>3. QED
      BY <1>b, <2>1, <2>2, <2>4, <3>1, <3>2, SMTT(30) DEF CountInv
  <2>5. QED
    BY <2>2, <2>3, <2>4 DEF SlotsInv
<1>7. QED
  BY <1>5, <1>6

(* Every call of feed preserves the invariant. *)
LEMMA IInvStep == IInv /\ [DefragNext]_defrag_vars => IInv'
<1> SUFFICES ASSUME IInv, [DefragNext]_defrag_vars PROVE IInv'
  OBVIOUS
<1> USE DEF IInv
<1>1. ASSUME NEW m \in UdpMessage, FeedAside(m) PROVE IInv'
  <2>1. d' = d /\ UNCHANGED <<seen, deliveries, panicked>>
    BY <1>1, Zenon DEF FeedAside, Feed
  <2>2. QED
    BY <2>1 DEF SlotsInv, CountInv, PanicNeedsLateCopies, Filled
<1>2. ASSUME NEW m \in UdpMessage, FeedFirst(m), ~panicked PROVE IInv'
  <2>1. /\ d' = StartOver(m) /\ seen' = {m.frag_id} /\ deliveries' = 0
        /\ panicked' = panicked /\ ~Whole(m) /\ ~BadFragId(m)
    BY <1>2 DEF FeedFirst, Feed
  <2>2. /\ d' \in DefraggerState /\ Len(d'.frags) = m.frag_count
        /\ m.frag_count \in 2 .. U8 - 1 /\ m.frag_id \in 0 .. m.frag_count - 1
        /\ \A i \in 1 .. m.frag_count : d'.frags[i] # None <=> i - 1 = m.frag_id
        /\ Cardinality(Filled(d')) = 1
    BY <2>1, StartOverFacts, FS_Singleton, Zenon
  <2>3. d'.count = 1
    BY <2>1 DEF StartOver
  <2>4. DOMAIN d'.frags = 1 .. m.frag_count
    BY <2>2 DEF DefraggerState
  <2>5. QED
    BY <1>2, <2>1, <2>2, <2>3, <2>4, SMTT(30) DEF SlotsInv, CountInv, PanicNeedsLateCopies, Filled
<1>3. ASSUME NEW m \in UdpMessage, FeedNext(m), ~panicked PROVE IInv'
  <2>1. PanicNeedsLateCopies'
    BY <1>3 DEF FeedNext, PanicNeedsLateCopies
  <2>2. CASE SlotFree(d, m)
    BY <1>3, <2>1, <2>2, FeedFree DEF FeedNext
  <2>3. CASE ~SlotFree(d, m)
    <3>1. d' = d /\ deliveries' = deliveries /\ seen' = seen \cup {m.frag_id}
      BY <1>3, <2>3 DEF FeedNext, Feed
    <3>2. m.frag_id \in 0 .. Len(d.frags) - 1 /\ m.frag_id + 1 \in DOMAIN d.frags
      BY <1>3 DEF FeedNext, StartsPacket, BadFragId, SlotsInv, UdpMessage, DefraggerState
    <3>3. deliveries = 0 => seen' = seen
      BY <2>3, <3>1, <3>2 DEF CountInv, SlotFree
    <3>4. QED
      BY <2>1, <3>1, <3>2, <3>3, Zenon DEF SlotsInv, CountInv, Filled
  <2>4. QED
    BY <2>2, <2>3
<1>4. ASSUME NEW m \in UdpMessage, FeedPanics(m) PROVE IInv'
  <2>1. d.count = U8 - 1 /\ UNCHANGED <<d, seen, deliveries>> /\ m.frag_count = Len(d.frags)
    BY <1>4 DEF FeedPanics, CountOverflows, StartsPacket
  <2>2. Len(d.frags) \in 2 .. U8 - 1
    BY <1>4, <2>1, U8Assumption DEF FeedPanics, CountOverflows, Whole, UdpMessage, SlotsInv
  <2>3. deliveries # 0
    BY <2>1, <2>2, U8Assumption DEF SlotsInv, CountInv
  <2>4. QED
    BY <2>1, <2>3 DEF SlotsInv, CountInv, PanicNeedsLateCopies, Filled
<1>5. CASE UNCHANGED defrag_vars
  BY <1>5 DEF defrag_vars, SlotsInv, CountInv, PanicNeedsLateCopies, Filled
<1>6. QED
  BY <1>1, <1>2, <1>3, <1>4, <1>5, WireAssumption, ZenonT(40) DEF DefragNext

LEMMA IInvAlways == DefragSpec => []IInv
  BY IInvInit, IInvStep, PTL DEF DefragSpec

-----------------------------------------------------------------------------

(* What Assemble makes of a full set of slots in place adds up. *)
LEMMA AssembleAddsUp ==
    ASSUME NEW x \in DefraggerState, InPlace(x), Len(x.frags) \in 2 .. U8 - 1,
           Filled(x) = 1 .. Len(x.frags)
    PROVE  \A o \in Range(Assemble(x)) : AddsUp(o)
<1> DEFINE n    == Len(x.frags)
           f    == x.frags
           data == Concat([i \in 1..n |-> f[i].data])
           r    == [f[1] EXCEPT !.data = data, !.frag_id = 0, !.frag_count = 1]
<1>1. f \in Seq(UdpMessage \cup {None}) /\ DOMAIN f = 1..n /\ n \in Nat
  BY DEF DefraggerState
<1>2. \A i \in 1..n : /\ f[i] # None /\ f[i] \in Wire /\ f[i] \in UdpMessage
                       /\ f[i].packet_id = x.pkt_id /\ f[i].frag_count = n
                       /\ f[i].frag_id = i - 1
  BY <1>1, WireAssumption DEF Filled, InPlace
<1>3. (CHOOSE i \in Filled(x) : \A j \in Filled(x) : i <= j) = 1
  <2> DEFINE c == CHOOSE i \in Filled(x) : \A j \in Filled(x) : i <= j
  <2>1. 1 \in Filled(x) /\ \A j \in Filled(x) : 1 <= j
    BY <1>1, U8Assumption
  <2>2. c \in Filled(x) /\ \A j \in Filled(x) : c <= j
    BY <2>1
  <2> HIDE DEF c
  <2>3. c \in 1..n /\ c <= 1
    BY <2>1, <2>2
  <2>4. c = 1
    BY <1>1, <2>3
  <2>5. QED
    BY <2>4 DEF c
<1>4. [i \in DOMAIN x.frags |-> IF x.frags[i] = None THEN << >> ELSE x.frags[i].data]
        = [i \in 1..n |-> f[i].data]
  BY <1>1, <1>2
<1>5. Filled(x) # {}
  BY <1>1, U8Assumption
<1>6. Assemble(x) = <<r>>
  BY <1>3, <1>4, <1>5, Zenon DEF Assemble
<1>7. r.packet_id = x.pkt_id
  BY <1>1, <1>2, U8Assumption DEF UdpMessage
<1>8. f \in [1..n -> {m \in Wire : m.packet_id = r.packet_id /\ m.frag_count = n}]
  BY <1>1, <1>2, <1>7
<1>9. AddsUp(r)
  BY <1>2, <1>8, Zenon DEF AddsUp
<1> HIDE DEF r
<1>10. QED
  BY <1>6, <1>9 DEF Range

(* Every call of feed keeps the fragments in place and returns only what   *)
(* came whole or adds up.                                                  *)
LEMMA PlaceStep == IInv /\ PlaceInv /\ [DefragNext]_defrag_vars => PlaceInv'
<1> SUFFICES ASSUME IInv, PlaceInv, [DefragNext]_defrag_vars PROVE PlaceInv'
  OBVIOUS
<1>1. ASSUME NEW m \in Wire, FeedAside(m) PROVE PlaceInv'
  <2>1. d' = d /\ (out' = << >> \/ (Whole(m) /\ out' = <<m>>))
    <3>1. CASE Whole(m)
      <4>1. Feed(d, m) = <<d, <<m>>>>
        BY <3>1 DEF Feed
      <4>2. QED
        BY <1>1, <3>1, <4>1 DEF FeedAside
    <3>2. CASE ~Whole(m)
      <4>1. Feed(d, m) = <<d, << >>>>
        BY <1>1, <3>2, Zenon DEF FeedAside, Feed
      <4>2. QED
        BY <1>1, <4>1 DEF FeedAside
    <3>3. QED
      BY <3>1, <3>2
  <2>2. QED
    BY <2>1 DEF PlaceInv, InPlace, NothingInvented, Range
<1>2. ASSUME NEW m \in Wire, FeedFirst(m) PROVE PlaceInv'
  <2>1. d' = StartOver(m) /\ out' = << >> /\ ~Whole(m) /\ ~BadFragId(m)
    BY <1>2 DEF FeedFirst, Feed
  <2>2. m \in UdpMessage /\ Len(StartOver(m).frags) = m.frag_count
    BY <2>1, WireAssumption, StartOverFacts, Zenon
  <2>3. InPlace(StartOver(m))
    BY <2>2, SMTT(30) DEF InPlace, StartOver, UdpMessage
  <2>4. QED
    BY <2>1, <2>3 DEF PlaceInv, InPlace, NothingInvented, Range
<1>3. ASSUME NEW m \in Wire, FeedNext(m) PROVE PlaceInv'
  <2> DEFINE s == Store(d, m)
  <2>1. /\ m \in UdpMessage /\ d \in DefraggerState
        /\ ~Whole(m) /\ ~BadFragId(m) /\ ~StartsPacket(d, m)
    BY <1>3, WireAssumption DEF FeedNext, IInv, SlotsInv
  <2>2. CASE ~SlotFree(d, m)
    <3>1. d' = d /\ out' = << >>
      BY <1>3, <2>1, <2>2, Zenon DEF FeedNext, Feed
    <3>2. QED
      BY <3>1 DEF PlaceInv, InPlace, NothingInvented, Range
  <2>3. CASE SlotFree(d, m)
    <3>1. s \in DefraggerState /\ Len(s.frags) = Len(d.frags)
      BY <2>1, <2>3, StoreFacts, Zenon DEF StartsPacket
    <3>2. InPlace(s)
      <4>1. /\ s.frags = [d.frags EXCEPT ![m.frag_id + 1] = m] /\ s.pkt_id = d.pkt_id
            /\ m.packet_id = d.pkt_id /\ m.frag_count = Len(d.frags) /\ m.frag_id \in Nat
        BY <2>1, SMTT(30) DEF Store, DefraggerState, StartsPacket, UdpMessage
      <4>2. QED
        BY <3>1, <4>1 DEF PlaceInv, InPlace
    <3> HIDE DEF s
    <3>3. CASE s.count = Len(s.frags)
      <4>1. d' = Drain(s) /\ out' = Assemble(s)
        BY <1>3, <2>1, <2>3, <3>3 DEF FeedNext, Feed, s
      <4>2. Filled(s) = 1 .. Len(s.frags) /\ Len(s.frags) \in 2 .. U8 - 1
        BY <2>1, <2>3, <3>1, <3>3, LastFragment, Zenon DEF s, IInv
      <4>3. \A o \in Range(out') : AddsUp(o)
        BY <3>1, <3>2, <4>1, <4>2, AssembleAddsUp
      <4>4. InPlace(Drain(s))
        BY <3>1 DEF InPlace, Drain, DefraggerState
      <4>5. QED
        BY <4>1, <4>3, <4>4, Zenon DEF PlaceInv, InPlace, NothingInvented, AddsUp
    <3>4. CASE s.count # Len(s.frags)
      <4>1. d' = s /\ out' = << >>
        BY <1>3, <2>1, <2>3, <3>4, Zenon DEF FeedNext, Feed, s
      <4>2. QED
        BY <3>2, <4>1 DEF PlaceInv, InPlace, NothingInvented, Range
    <3>5. QED
      BY <3>3, <3>4
  <2>4. QED
    BY <2>2, <2>3
<1>4. ASSUME NEW m \in Wire, FeedPanics(m) PROVE PlaceInv'
  BY <1>4, Zenon DEF FeedPanics, PlaceInv, InPlace, NothingInvented, AddsUp
<1>5. CASE UNCHANGED defrag_vars
  BY <1>5, Zenon DEF defrag_vars, PlaceInv, InPlace, NothingInvented, AddsUp
<1>6. QED
  BY <1>1, <1>2, <1>3, <1>4, <1>5 DEF DefragNext

(* Theorem: whatever is lost, repeated, reordered or mixed up, feed        *)
(* returns only a message that came unfragmented or one put together from  *)
(* all the fragments of one packet, each in its place.                     *)
THEOREM ReturnsOnlyWhatCame == DefragSpec => []NothingInvented
<1>1. DefragInit => PlaceInv
  BY DEF DefragInit, NewDefragger, PlaceInv, InPlace, NothingInvented, Range
<1>2. PlaceInv => NothingInvented
  BY DEF PlaceInv
<1>3. QED
  BY <1>1, <1>2, PlaceStep, IInvAlways, PTL DEF DefragSpec

(* Theorem: whatever the peer sends and however often fragments are        *)
(* repeated, feed puts a packet together at most once before it starts     *)
(* over, although count is a u8 that wraps around.                         *)
THEOREM DeliveredAtMostOnce == DefragSpec => []AtMostOnce
<1>1. IInv => AtMostOnce
  BY SMTT(30) DEF IInv, SlotsInv, AtMostOnce
<1>2. QED
  BY <1>1, IInvAlways, PTL

(* Theorem: once every fragment of the packet at hand has been fed, in any *)
(* order and among any repetitions, feed has returned the packet.          *)
THEOREM DeliveredWhenComplete == DefragSpec => []CompleteIsDelivered
<1>1. IInv => CompleteIsDelivered
  <2> SUFFICES ASSUME IInv, d.frags # << >>, seen = 0 .. Len(d.frags) - 1, deliveries = 0
               PROVE  FALSE
    BY DEF CompleteIsDelivered
  <2>1. d.frags \in Seq(UdpMessage \cup {None}) /\ d \in DefraggerState
    BY DEF IInv, SlotsInv, DefraggerState
  <2>2. Len(d.frags) \in Nat \ {0} /\ DOMAIN d.frags = 1 .. Len(d.frags)
    BY <2>1
  <2>3. Filled(d) = 1 .. Len(d.frags)
    BY <2>2 DEF IInv, CountInv, Filled
  <2>4. Cardinality(Filled(d)) = Len(d.frags)
    BY <2>2, <2>3, FS_Interval
  <2>5. QED
    BY <2>2, <2>4 DEF IInv, CountInv
<1>2. QED
  BY <1>1, IInvAlways, PTL

(* Theorem: the checked count += 1 of a debug build overflows only on      *)
(* copies of fragments of a packet that has been returned.                 *)
THEOREM OverflowIsLate == DefragSpec => []PanicNeedsLateCopies
<1>1. IInv => PanicNeedsLateCopies
  BY DEF IInv
<1>2. QED
  BY <1>1, IInvAlways, PTL
=============================================================================
