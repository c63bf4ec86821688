--------------------------- MODULE ObfsHopSocket ---------------------------
(***************************************************************************)
(* The socket under quinn (transport/socket.rs), from its configuration    *)
(* on: the hop task that moves the destination, try_send, poll_recv with   *)
(* its loop over batches of datagrams, and the drop of the socket. The     *)
(* network and the hop task run between the calls into the inner socket.   *)
(***************************************************************************)
EXTENDS Ports, Salamander

CONSTANTS
    HopConfigs,   \* the configurations
    Salts,        \* values of a salt
    Outgoing(_),  \* packets quinn sends, under a configuration
    GsoSegments,  \* how many packets the inner socket takes at a time
    Plain,        \* packets the server sends
    Runts,        \* what else may arrive: no obfuscated packets
    Scratch,      \* SCRATCH_DATAGRAM (2048)
    BufLen,       \* length of each of quinn's receive buffers
    Batch,        \* how many of them there are
    MaxArrivals(_) \* bound on the datagrams that arrive, under a configuration

(* The intervals of a configuration are u64. *)
ASSUME SocketAssumption ==
    /\ {Scratch, BufLen} \subseteq Nat /\ {Batch, GsoSegments} \subseteq Nat \ {0}
    /\ BufLen + SaltLen < Scratch
    /\ Salts \subseteq [1 .. SaltLen -> {0, 1}]
    /\ \A c \in HopConfigs : {c.interval_min, c.interval_max} \subseteq Nat

VARIABLES
    hop_config,    \* the configuration
    obfs,          \* whether it has an obfs_password
    canonical, hop_addrs,
    socket,        \* open or dropped
    hop_index,
    hop_task,      \* none, sleeping, woken (about to store), ended
    aborted,       \* the task's JoinHandle::abort has been called
    slept, wait,   \* seconds of the current sleep, so far and in all
    net,           \* history: [from, plain, bytes] of every datagram
    taken,         \* how many of them the inner socket has given out
    polling,       \* quinn's driver: idle, in poll_recv, or parked
    waker,         \* the inner socket will wake it
    given,         \* history: what poll_recv handed to quinn
    sent           \* what the last try_send emitted: [packets, dest, datagrams]

setup == <<hop_config, obfs, canonical, hop_addrs>>
hop == <<hop_index, hop_task, aborted, slept, wait>>
receiving == <<taken, polling, waker, given>>
socket_vars == <<setup, socket, hop, net, receiving, sent>>

Hopping == Len(hop_addrs) > 1

(* The sleep the hop task draws. *)
Waits == IntervalMin(hop_config) .. IntervalMax(hop_config)

(* ObfsHopSocket::new, for a configuration that asks for one. *)
SocketInit ==
    /\ hop_config \in {c \in HopConfigs : Resolves(c)}
    /\ obfs \in BOOLEAN
    /\ canonical = Canonical(hop_config)
    /\ hop_addrs = HopAddrs(hop_config)
    /\ obfs \/ Hopping
    /\ socket = "open"
    /\ hop_index \in IF Hopping THEN 0 .. Len(hop_addrs) - 1 ELSE {0}
    /\ hop_task = IF Hopping THEN "sleeping" ELSE "none"
    /\ aborted = FALSE
    /\ slept = 0
    /\ wait \in IF Hopping THEN Waits ELSE {0}
    /\ net = << >>
    /\ taken = 0
    /\ polling = "idle"
    /\ waker = FALSE
    /\ given = << >>
    /\ sent = << >>

-----------------------------------------------------------------------------
(* The hop task.                                                           *)

Second ==
    /\ hop_task = "sleeping" /\ slept < wait
    /\ slept' = slept + 1
    /\ UNCHANGED <<setup, socket, hop_index, hop_task, aborted, wait, net, receiving, sent>>

Wakes ==
    /\ hop_task = "sleeping" /\ slept = wait /\ ~aborted
    /\ hop_task' = "woken"
    /\ UNCHANGED <<setup, socket, hop_index, aborted, slept, wait, net, receiving, sent>>

(* The task stores the next index and goes back to sleep. *)
Hop ==
    /\ hop_task = "woken"
    /\ hop_index' \in 0 .. Len(hop_addrs) - 1
    /\ hop_task' = "sleeping"
    /\ slept' = 0
    /\ wait' \in Waits
    /\ UNCHANGED <<setup, socket, aborted, net, receiving, sent>>

(* tokio ends an aborted task when it is suspended. *)
TaskEnds ==
    /\ hop_task = "sleeping" /\ aborted
    /\ hop_task' = "ended"
    /\ UNCHANGED <<setup, socket, hop_index, aborted, slept, wait, net, receiving, sent>>

DropSocket_bug_Detached ==
    /\ socket = "open" /\ polling # "poll"
    /\ socket' = "dropped"
    /\ UNCHANGED <<setup, hop, net, receiving, sent>>

DropSocket ==
    /\ socket = "open" /\ polling # "poll"
    /\ socket' = "dropped"
    /\ aborted' = (hop_task # "none")
    /\ UNCHANGED <<setup, hop_index, hop_task, slept, wait, net, receiving, sent>>

-----------------------------------------------------------------------------
(* Sending.                                                                *)

CurrentDest == IF Hopping THEN hop_addrs[(hop_index % Len(hop_addrs)) + 1] ELSE canonical

MaxTransmitSegments_bug_Inner == GsoSegments

MaxTransmitSegments == IF obfs THEN 1 ELSE GsoSegments

(* quinn sends n copies of a packet in one transmit, which the inner       *)
(* socket splits (GSO), unless it comes masked as one piece. What is too   *)
(* long for write_buf is dropped, and try_send returns Ok.                 *)
TrySend(packet, n) ==
    /\ socket = "open" /\ n <= MaxTransmitSegments
    /\ LET packets == [k \in 1 .. n |-> packet]
       IN  \E datagrams \in IF obfs THEN {<<Obfuscate(Concat(packets), s, Scratch)>> : s \in Salts}
                            ELSE {packets} :
             sent' = IF datagrams = << << >> >> THEN << >>
                     ELSE [packets |-> packets, dest |-> CurrentDest, datagrams |-> datagrams]
    /\ UNCHANGED <<setup, socket, hop, net, receiving>>

-----------------------------------------------------------------------------
(* Receiving.                                                              *)

(* A datagram of the server, from any of its ports, or a runt. *)
Arrive ==
    /\ socket = "open" /\ Len(net) < MaxArrivals(hop_config)
    /\ \E from \in {canonical} \cup Range(hop_addrs) :
         \/ \E p \in Plain, s \in Salts :
              net' = Append(net, [from |-> from, plain |-> p,
                                  bytes |-> IF obfs THEN Obfuscate(p, s, Len(p) + SaltLen) ELSE p])
         \/ \E r \in Runts :
              net' = Append(net, [from |-> from, plain |-> IF obfs THEN << >> ELSE r, bytes |-> r])
    /\ UNCHANGED <<setup, socket, hop, receiving, sent>>

Waiting == SubSeq(net, taken + 1, Len(net))

Cut(s, n) == IF Len(s) > n THEN SubSeq(s, 1, n) ELSE s

Reported(d) == IF Hopping THEN canonical ELSE d.from

Unmask_bug_MetaAtK(slots, batch, k) ==
    LET plain == Deobfuscate(Cut(batch[k].bytes, Scratch), BufLen)
        out == slots.out + 1
    IN  IF plain = << >> THEN slots
        ELSE [out  |-> out,
              bufs |-> [slots.bufs EXCEPT ![out] = plain],
              meta |-> [slots.meta EXCEPT ![k] = [addr |-> Reported(batch[k]), len |-> Len(plain)]]]

(* Datagram k of a batch, unmasked into the first of quinn's buffers that  *)
(* is still free: a packet stays there, described in the RecvMeta of that  *)
(* buffer; what is none leaves the buffer free for the next datagram.      *)
Unmask(slots, batch, k) ==
    LET plain == Deobfuscate(Cut(batch[k].bytes, Scratch), BufLen)
        out == slots.out + 1
    IN  IF plain = << >> THEN slots
        ELSE [out  |-> out,
              bufs |-> [slots.bufs EXCEPT ![out] = plain],
              meta |-> [slots.meta EXCEPT ![out] = [addr |-> Reported(batch[k]), len |-> Len(plain)]]]

(* quinn's buffers, and no packet in them yet. *)
FreeSlots ==
    [out  |-> 0,
     bufs |-> [j \in 1 .. Batch |-> << >>],
     meta |-> [j \in 1 .. Batch |-> [addr |-> 0, len |-> 0]]]

(* What quinn reads in the buffers and RecvMeta it gets for a batch: the   *)
(* datagrams themselves when nothing is masked, with a new address when    *)
(* ports are hopped, else the packets unmasked from them.                  *)
Received(batch) ==
    IF ~obfs
    THEN [k \in DOMAIN batch |-> [addr |-> Reported(batch[k]), data |-> Cut(batch[k].bytes, BufLen)]]
    ELSE LET after[k \in 0 .. Len(batch)] ==
               IF k = 0 THEN FreeSlots ELSE Unmask(after[k - 1], batch, k)
             slots == after[Len(batch)]
         IN  [j \in 1 .. slots.out |->
                [addr |-> slots.meta[j].addr, data |-> Cut(slots.bufs[j], slots.meta[j].len)]]

PollBegins ==
    /\ socket = "open" /\ polling = "idle"
    /\ polling' = "poll"
    /\ UNCHANGED <<setup, socket, hop, net, taken, waker, given, sent>>

PollReady_bug_AllInvalidParks ==
    /\ polling = "poll"
    /\ \E n \in 1 .. Batch :
         /\ n <= Len(Waiting)
         /\ taken' = taken + n
         /\ LET got == Received(SubSeq(Waiting, 1, n))
            IN  given' = given \o got /\ polling' = IF got = << >> THEN "parked" ELSE "idle"
    /\ UNCHANGED <<setup, socket, hop, net, waker, sent>>

(* The inner socket fills n buffers. If none of them holds a packet the    *)
(* loop polls it again.                                                    *)
PollReady ==
    /\ polling = "poll"
    /\ \E n \in 1 .. Batch :
         /\ n <= Len(Waiting)
         /\ taken' = taken + n
         /\ LET got == Received(SubSeq(Waiting, 1, n))
            IN  given' = given \o got /\ polling' = IF got = << >> THEN "poll" ELSE "idle"
    /\ UNCHANGED <<setup, socket, hop, net, waker, sent>>

(* It reports 0 datagrams, or an error that quinn's driver survives. *)
PollNothing ==
    /\ polling = "poll"
    /\ polling' = "idle"
    /\ UNCHANGED <<setup, socket, hop, net, taken, waker, given, sent>>

(* It is empty and keeps the waker. *)
PollPending ==
    /\ polling = "poll" /\ Waiting = << >>
    /\ polling' = "parked"
    /\ waker' = TRUE
    /\ UNCHANGED <<setup, socket, hop, net, taken, given, sent>>

Woken ==
    /\ polling = "parked" /\ waker /\ Waiting # << >>
    /\ polling' = "idle"
    /\ waker' = FALSE
    /\ UNCHANGED <<setup, socket, hop, net, taken, given, sent>>

-----------------------------------------------------------------------------

HopTask == Second \/ Wakes \/ Hop \/ TaskEnds

Driver == PollBegins \/ PollReady \/ PollNothing \/ PollPending \/ Woken

SocketNext ==
    \/ HopTask \/ DropSocket \/ Arrive \/ Driver
    \/ \E p \in Outgoing(hop_config), n \in 1 .. GsoSegments : TrySend(p, n)

(* Time passes, tokio runs the hop task, quinn's driver polls its socket   *)
(* whenever it has been woken, and the inner socket does not answer        *)
(* "nothing" forever while datagrams wait.                                 *)
SocketFairness == WF_socket_vars(HopTask) /\ WF_socket_vars(Driver) /\ SF_socket_vars(PollReady)

SocketSpec == SocketInit /\ [][SocketNext]_socket_vars /\ SocketFairness

-----------------------------------------------------------------------------

(* The ports that specification s names. *)
Named(s) ==
    IF s.all THEN 0 .. MaxPort
    ELSE UNION {{n \in 0 .. MaxPort : \/ p.start <= n /\ n <= p.end
                                      \/ p.end <= n /\ n <= p.start} : p \in Range(s.parts)}

(* From the port specification to the wire, in whatever order and however  *)
(* often ports are named: quinn dials one of the ports named, the task     *)
(* hops over exactly these ports, and what is sent goes to one of them     *)
(* (config.rs:77: "datagrams are spread across these ports").              *)
SentToNamedPorts ==
    LET named == Named(PortSpec(hop_config))
    IN  /\ canonical \in named
        /\ Hopping => Range(hop_addrs) = named /\ Len(hop_addrs) = Cardinality(named)
        /\ ~Hopping => named = {canonical}
        /\ sent # << >> => sent.dest \in named

(* Every packet quinn sends leaves in a datagram of its own that the       *)
(* server can read, also when quinn would hand down several packets at a   *)
(* time (socket.rs:7: every datagram carries its own salt).                *)
SentIsReadable ==
    sent # << >> =>
      sent.packets = [k \in DOMAIN sent.datagrams |->
                        IF obfs THEN Deobfuscate(sent.datagrams[k], Scratch) ELSE sent.datagrams[k]]

(* What quinn gets of a datagram, as the server meant it. *)
Meant(d) ==
    [addr |-> IF Hopping THEN canonical ELSE d.from,
     data |-> IF obfs THEN d.plain ELSE Cut(d.plain, BufLen)]

(* However the datagrams are grouped into batches and whatever runts come  *)
(* between them, quinn gets every packet of the server that fits its       *)
(* buffers, in order, once, unmasked and, when ports are hopped, as if it  *)
(* came from the address that was dialled. (When nothing is masked, a      *)
(* longer datagram is cut by the inner socket, and an empty one is handed  *)
(* on; deobfuscate discards both.)                                         *)
InboundIntact ==
    given = LET kept == SelectSeq(SubSeq(net, 1, taken),
                                  LAMBDA d : obfs => Len(d.plain) \in 1 .. BufLen)
            IN  [k \in DOMAIN kept |-> Meant(kept[k])]

(* No hop comes sooner than MinHopInterval after the one before, whatever  *)
(* interval is configured (connect.rs:135).                                *)
NeverHopsFast == [][(hop_index' # hop_index) => slept >= MinHopInterval]_socket_vars

(* The driver is not left asleep with datagrams waiting: all of them are   *)
(* taken sooner or later, unless the socket is dropped.                    *)
AllTaken == []<>(Waiting = << >> \/ socket = "dropped")

(* Dropping the socket ends the hop task (socket.rs:70).                   *)
HopTaskEnds == socket = "dropped" ~> hop_task \in {"none", "ended"}
=============================================================================
