------------------------------- MODULE Brutal -------------------------------
(***************************************************************************)
(* The congestion controller (congestion.rs): Brutal's ring of per-second  *)
(* ACK and loss counts, the window derived from it, SwitchableController,  *)
(* which runs BBR beside it, and the rate agreed on after authentication   *)
(* (connect.rs). ack_rate, an f64 in the code, is the pair <<num, den>>;   *)
(* quinn's BBR is what it has been fed, and some function of that.         *)
(***************************************************************************)
EXTENDS Auth, FiniteSetsExt

CONSTANTS
    SlotCount,         \* SLOT_COUNT (5)
    MinSampleCount,    \* MIN_SAMPLE_COUNT (50)
    MinRate,           \* MIN_ACK_RATE as <<num, den>> (<<4, 5>>)
    MinWindow,         \* least initial window (10240)
    TxBps,             \* config.tx_bps, the configured upload rate (> 0)
    Rtts, Mtus,        \* values of the RTT estimate and of the MTU
    LostBytes,         \* amounts of bytes one congestion event reports
    Headers,           \* CC-RX headers of servers
    BbrWindow(_, _),   \* BBR's window, for the events fed to it and the MTU
    MaxTime, MaxEvents \* bounds on the seconds and on the events

ASSUME BrutalAssumption ==
    /\ {SlotCount, MinSampleCount, TxBps} \subseteq Nat \ {0}
    /\ MinRate[1] \in Nat \ {0} /\ MinRate[2] \in Nat /\ MinRate[1] <= MinRate[2]
    /\ {MinWindow, MaxTime, MaxEvents} \subseteq Nat
    /\ Rtts \subseteq Nat \ {0} /\ Mtus \subseteq Nat /\ Mtus # {}
    /\ LostBytes \subseteq Nat /\ Headers \subseteq CcRxHeader

VARIABLES
    now,       \* whole seconds since base
    slots,     \* the ring of [ts, ack, loss]
    ack_rate, srtt, mtu,
    rate, use_bbr, \* shared with connect()
    authed,    \* connect() has applied the server's CC-RX
    server_rx, \* client.server_rx: 0 is unlimited, or auto
    recorded,  \* the second of the last record()
    fed,       \* the number of events BBR has been fed
    hist       \* history: the packets acked and lost in each second

cfg == <<rate, use_bbr, authed, server_rx>>
vars == <<now, slots, ack_rate, srtt, mtu, cfg, recorded, fed, hist>>

BrutalNew ==
    /\ slots = [i \in 0 .. SlotCount - 1 |-> [ts |-> 0, ack |-> 0, loss |-> 0]]
    /\ ack_rate = <<1, 1>>
    /\ srtt = 0
    /\ mtu \in Mtus

(* SwitchableFactory::build, with the cells of connect(). *)
Init ==
    /\ now = 0
    /\ BrutalNew
    /\ rate = TxBps /\ use_bbr = FALSE /\ authed = FALSE /\ server_rx = 0
    /\ recorded = 0
    /\ fed = 0
    /\ hist = [t \in 0 .. MaxTime |-> [ack |-> 0, loss |-> 0]]

-----------------------------------------------------------------------------

Larger(a, b) == IF a > b THEN a ELSE b

UpdatedAckRate_bug_NotClamped(s, ts) ==
    LET fresh  == {i \in DOMAIN s : s[i].ts + SlotCount >= ts}
        acks   == SumFunction([i \in fresh |-> s[i].ack])
        losses == SumFunction([i \in fresh |-> s[i].loss])
    IN  IF acks + losses < MinSampleCount THEN <<1, 1>> ELSE <<acks, acks + losses>>

(* update_ack_rate, for ring s at second ts. *)
UpdatedAckRate(s, ts) ==
    LET fresh  == {i \in DOMAIN s : s[i].ts + SlotCount >= ts}
        acks   == SumFunction([i \in fresh |-> s[i].ack])
        losses == SumFunction([i \in fresh |-> s[i].loss])
    IN  IF acks + losses < MinSampleCount THEN <<1, 1>>
        ELSE IF acks * MinRate[2] < MinRate[1] * (acks + losses) THEN MinRate
        ELSE <<acks, acks + losses>>

Record_bug_NotTakenOver(ack, loss) ==
    LET k == now % SlotCount
    IN  /\ slots' = [slots EXCEPT ![k].ts = now, ![k].ack = @ + ack, ![k].loss = @ + loss]
        /\ ack_rate' = UpdatedAckRate(slots', now)
        /\ recorded' = now

(* The ring after record: this second's slot is added to, or taken over. *)
Recorded(ack, loss) ==
    LET k    == now % SlotCount
        slot == slots[k]
    IN  [slots EXCEPT ![k] =
           IF slot.ts = now
           THEN [ts |-> now, ack |-> slot.ack + ack, loss |-> slot.loss + loss]
           ELSE [ts |-> now, ack |-> ack, loss |-> loss]]

Record(ack, loss) ==
    /\ slots' = Recorded(ack, loss)
    /\ ack_rate' = UpdatedAckRate(slots', now)
    /\ recorded' = now

LostPackets(lost_bytes) == Larger(lost_bytes \div Larger(mtu, 1), 1)

BrutalOnAck(rtt) == srtt' = rtt /\ Record(1, 0)

BrutalOnCongestionEvent(lost_bytes) == Record(0, LostPackets(lost_bytes)) /\ UNCHANGED srtt

FeedBbr == fed < MaxEvents /\ fed' = fed + 1

(* History: what happened in this second. *)
Happened(ack, loss) ==
    hist' = [hist EXCEPT ![now] = [ack |-> @.ack + ack, loss |-> @.loss + loss]]

(* SwitchableController: every event goes to both controllers. *)
OnAck(rtt) ==
    /\ BrutalOnAck(rtt) /\ FeedBbr
    /\ Happened(1, 0)
    /\ UNCHANGED <<now, mtu, cfg>>

OnCongestionEvent(lost_bytes) ==
    /\ BrutalOnCongestionEvent(lost_bytes) /\ FeedBbr
    /\ Happened(0, LostPackets(lost_bytes))
    /\ UNCHANGED <<now, mtu, cfg>>

(* Brutal takes no notice of on_sent and on_end_acks. *)
OnSent == FeedBbr /\ UNCHANGED <<now, slots, ack_rate, srtt, mtu, cfg, recorded, hist>>

OnEndAcks == FeedBbr /\ UNCHANGED <<now, slots, ack_rate, srtt, mtu, cfg, recorded, hist>>

OnMtuUpdate(new_mtu) ==
    /\ new_mtu # mtu
    /\ mtu' = new_mtu
    /\ UNCHANGED <<now, slots, ack_rate, srtt, cfg, recorded, fed, hist>>

Second ==
    /\ now < MaxTime
    /\ now' = now + 1
    /\ UNCHANGED <<slots, ack_rate, srtt, mtu, cfg, recorded, fed, hist>>

(* connect() applies the server's CC-RX. *)
CcRx(h) ==
    /\ ~authed /\ authed' = TRUE
    /\ server_rx' = ParseCcRx(h).server_rx
    /\ use_bbr' = ParseCcRx(h).rx_auto
    /\ rate' = AgreedRate(TxBps, ParseCcRx(h))
    /\ UNCHANGED <<now, slots, ack_rate, srtt, mtu, recorded, fed, hist>>

Next ==
    \/ \E r \in Rtts : OnAck(r)
    \/ \E b \in LostBytes : OnCongestionEvent(b)
    \/ OnSent \/ OnEndAcks
    \/ \E m \in Mtus : OnMtuUpdate(m)
    \/ Second
    \/ \E h \in Headers : CcRx(h)

Spec == Init /\ [][Next]_vars

-----------------------------------------------------------------------------

(* Brutal::initial_window, and the least that window returns. *)
Floor == Larger(2 * mtu, MinWindow)

WindowFor_bug_Multiplied(r) ==
    IF srtt = 0 THEN Floor ELSE Larger((rate * srtt * r[1]) \div r[2], Floor)

(* Brutal::window, in bytes, for the ACK rate r. *)
WindowFor(r) ==
    IF srtt = 0 THEN Floor ELSE Larger((rate * srtt * r[2]) \div r[1], Floor)

Window == WindowFor(ack_rate)

(* SwitchableController::window *)
SendWindow == IF use_bbr THEN BbrWindow(fed, mtu) ELSE Window

(* The last SlotCount seconds, up to the last record. *)
Recent == {t \in 0 .. MaxTime : t <= recorded /\ t + SlotCount > recorded}

(* The ring forgets nothing too early and keeps nothing too long: whatever *)
(* pauses there are between events, the rate is computed from exactly the  *)
(* packets acked and lost in the last SlotCount seconds.                   *)
RingIsLastSeconds ==
    LET acks   == SumFunction([t \in Recent |-> hist[t].ack])
        losses == SumFunction([t \in Recent |-> hist[t].loss])
    IN  IF acks + losses < MinSampleCount THEN ack_rate[1] = ack_rate[2]
        ELSE \/ acks * ack_rate[2] = ack_rate[1] * (acks + losses)
             \/ ack_rate = MinRate /\ acks * MinRate[2] < MinRate[1] * (acks + losses)

(* Compensation for loss stays within its bounds: unless the server asked  *)
(* for BBR, the window quinn sends by is never below the agreed rate times *)
(* the RTT and, where the floor does not apply, never above 1/MinRate of   *)
(* what the configuration allows, nor, once connect() has applied it, of   *)
(* what the server allows.                                                 *)
WindowIsBounded ==
    srtt # 0 /\ ~use_bbr =>
      /\ SendWindow >= rate * srtt
      /\ SendWindow > Floor =>
           \A limit \in {TxBps} \cup ({server_rx} \ {0}) :
             SendWindow * MinRate[1] <= limit * srtt * MinRate[2]

(* congestion.rs:120: a loss is recorded but must "never shrink the        *)
(* window". It does not: whenever it comes, the window is at least the one *)
(* Brutal would have come to in that second without the loss. (Where older *)
(* losses expire in the same record, both are smaller than before it.)     *)
LossDoesNotSlowDown ==
    [][hist'[now].loss > hist[now].loss =>
         Window' >= WindowFor(UpdatedAckRate(Recorded(0, 0), now))]_vars
=============================================================================
