# A TLA+ verification of rsteria2

rsteria2 is a Hysteria2 client: it proxies TCP over QUIC streams and UDP over
QUIC datagrams. This directory models the parts of it that have state or
interleavings of their own, model-checks them with TLC on small instances and
proves with TLAPS, for every instance, the safety properties of connecting,
reconnecting, the encodings, UDP sending, reassembly and sessions, the TCP
response, Brutal and the hop task.

`PROJECT.json` lists, for each definition, the source lines it stands for
(`map`), the runs, one seeded bug per property (`mutants`), the hazards the
properties are aimed at, and the places where the code does something other
than a comment, a test or the documentation says (`findings`).

## The system and the modules

| part of the program | source | modules |
| --- | --- | --- |
| varints, UDP messages, TCP requests | `protocol.rs` | `Varint`, `WireFormat`, `Codec`, `ProtocolProofs`, `TcpStreamProofs` |
| splitting and reassembling UDP messages | `protocol.rs` | `Fragmentation`, `Vectors`, `Reassembly`, `ProtocolProofs`, `ReassemblyProofs` |
| `UdpSession::send` | `udp.rs` | `UdpSend`, `UdpSendProofs` |
| session manager, `receive_loop`, `recv` | `udp.rs`, `client.rs` | `UdpRelay`, `UdpRelayProofs` |
| the TCP response header and `DuplexStream` | `stream.rs`, `protocol.rs` | `TcpStream`, `TcpStreamProofs` |
| `ReconnectableClient` | `reconnect.rs`, `client.rs` | `ConnectionSlot`, `Reconnect`, `ReconnectProofs` |
| `connect`, `authenticate`, the life of a `HysteriaClient` | `connect.rs`, `client.rs`, `transport/mod.rs` | `Connect`, `Auth`, `ConnectProofs` |
| verifiers and certificate pins | `transport/tls.rs` | `Tls`, `ConnectProofs` |
| Brutal congestion control, the switch to BBR | `congestion.rs`, `connect.rs` | `Brutal`, `Auth`, `BrutalProofs` |
| port specifications, `resolve_endpoint` | `config.rs`, `connect.rs` | `Ports`, `Vectors` |
| obfuscation | `transport/obfs.rs` | `Salamander`, `ConnectProofs` |
| the socket under quinn | `transport/socket.rs` | `ObfsHopSocket`, `ConnectProofs` |

How they fit together in the program: `connect` (`Connect`) resolves the endpoint
(`Ports`), chooses a verifier (`Tls`), builds the socket (`ObfsHopSocket` over
`Salamander`), dials, authenticates (`Auth`), and adjusts the congestion controller
(`Brutal`). `ReconnectableClient` (`Reconnect`) owns at most one connected client at a
time. A client opens streams (`TcpStream`) and, through its session manager
(`UdpRelay`), UDP sessions, whose `send` is `UdpSend` and whose `recv` feeds a
Defragger (`Reassembly`).

In the modules, `Reassembly`, `UdpSend` and `UdpRelay` all extend `Fragmentation`
and so run the same `Feed` and `FragUdpMessage`; `WireFormat` and `TcpStream`
share `Varint`; `Connect` and `ObfsHopSocket` start from the result of `Ports`, and the
latter sends and receives through `Salamander`; `Connect` and `Brutal` apply the same
`AgreedRate` of `Auth`.

Names ending in `_bug_...` are seeded bugs: variants of the definition that
follows them. No specification uses them.

### State and actions

* **Varint, WireFormat, Codec.** Pure operators. A byte has `4 * LowRange` values,
  with `LowRange` 64 in the code: the varint thresholds are products of it, so a
  small `LowRange` brings all four lengths within reach. `Codec` takes one input
  after another; `DecodeTcpRequest` is the server's side and external: frame type,
  address, padding and what is left of the stream.
* **Fragmentation, Reassembly.** A Defragger is the record `pkt_id, frags, count,
  size` and `Feed(d, m)` the pair of its next value and the result, `<< >>` or `<<m>>`. `U8` is the
  number of values of a `u8`. `Reassembly` feeds any message of `Wire` at any time,
  which covers loss, repetition and reordering. A build with overflow checks
  panics where one without wraps; `overflow_checks` is chosen initially.
* **UdpSend.** A call is `whole` (the unfragmented attempt), `split`, `fragments`,
  and every `send_datagram` is a step; `LimitChanges` and `ConnectionLost` come in
  between. `Deliver` is the network and the server's Defragger.
* **UdpRelay.** `AllocateId`/`Register` are `new_session` around its lock,
  `ReadDatagram`/`Dispatch`/`ReadError` are `receive_loop`, `DropSession`/
  `RemoveSession` the drop of a session, `DropClient`/`ReleaseManager` that of the
  client. `MgrAlive` counts the `Arc`s of the manager: a `Weak` upgraded by the loop
  or by a dropping session keeps it alive. Ids wrap at `IdMod`.
* **TcpStream.** The bytes the server sends, how many have arrived and been taken,
  `scratch`, `leftover` and `leftover_pos`. A `poll_read` goes through `establish`
  and `read` to `idle` or `parked`.
* **Reconnect.** `lock`/`queue` are the fair tokio mutex. A critical section without
  an await is one step; `current` keeps the lock while `connect` is awaited (`dial`).
  `mine` and `fresh` are the `Arc`s a call holds; `ConnsAfter` closes a connection
  whose last `Arc` has gone. `Cancel` drops a call's future at any await.
  `ConnectionSlot` is the promise: a slot that is empty, live or dead.
* **Connect, Tls, Auth.** `stage` is the await `connect` is at (`lookup`, `dial`, those of
  the HTTP/3 exchange) or how it ended. `Checks` are the checks in the order of the
  code, before anything is bound. `driver` is quinn's endpoint driver, which owns the
  socket and, through it, the hop task; `handles` says who keeps the connection open:
  the client, the HTTP/3 driver, `receive_loop`, each stream and session. `Ends` drops
  the locals of `connect`. A `tcp_connect` goes through its awaits in `use`: it needs one
  of the streams the server allows (`credit`, `StreamLimit`) and room in the window of
  the connection (`window`), which the writes of other streams fill. The server
  may present any certificate, refuse, break the exchange, close, vanish, or stay
  and never answer (`answers`). A pin, a CA file or a CC-RX header is the record of
  its shape and of what it spells.
* **Brutal.** The ring `slots`, `ack_rate` as a fraction, `srtt`, `mtu`, and the `rate`
  and `use_bbr` cells shared with `connect`. `hist` records every second's packets,
  `fed` counts what `SwitchableController` has forwarded to BBR.
* **Ports, Salamander, ObfsHopSocket.** A specification is a list of parts; an
  address is its port. A masked byte is one bit, as XOR acts on each bit alone. The
  hop task is `sleeping`, `woken` (before its store) or `ended`. quinn's driver
  polls until it is `parked`, and `waker` says whether the inner socket will wake it.
  `Unmask` is one turn of the loop of `poll_recv`, which unmasks and compacts the batch
  in place, slot by slot. An inner socket that refuses a `try_send` leaves everything as it was. A transmit
  holds up to `MaxTransmitSegments` packets, which the kernel splits.

## The runs

| run | shows | distinct states |
| --- | --- | --- |
| `protocol` | encodings decode to what went in, at every edge of the lengths, and `parse` accounts for every byte; complete packets are returned once, and nothing else is; no byte of a TCP stream is lost however its header is cut, verdicts are right, no reader is left parked with something to report | 155,678 |
| `udp_send` | `Ok` means a complete set left; concurrent sends do not mix | 261,538 |
| `udp_relay` | routing stays right while sessions come and go; dropping the client ends the loop and every `recv` | 70,586 |
| `reconnect` | close is final, one dial at a time, no leaks, one retry; every call returns; `ConnectionSlot` is implemented | 19,762 |
| `brutal` | the ring is exactly the last seconds; the window is bounded, before and after CC-RX, and not smaller for a loss | 1,432,550 |
| `socket` | packets go to the named ports, each readable by the server; hops are not too frequent; the hop task ends with its socket; the server's packets reach quinn unmasked, in order, once; no wake-up is lost | 63,490 |
| `connect` | nothing is sent to a server that is not trusted, only one that accepted yields a client, and each mistake in a configuration stops `connect` where the code says; the upload is as agreed; nothing stays behind; calls return | 263,302 |

Five runs expect a violation and back the `findings`:

| run | what the code does |
| --- | --- |
| `udp_relay_close` | a `recv` waits on when the peer closes the connection and the client is kept |
| `udp_send_long_payload` | `frag_count` wraps for a message of too many fragments, and `send` returns `Ok` |
| `reconnect_retry` | a retry may drop the live connection another caller has just made |
| `connect_port` | with `hop_ports` set, quinn dials the least of them, not the port in `server_addr` |
| `connect_rx_bps` | with `rx_bps` 0 and a `tx_bps`, the client sends by Brutal, not by BBR |

Some smaller observations have no run of their own. When the header alone fills a
datagram, `send` returns `Ok` with nothing sent (`protocol.rs:279`; `OkIsComplete`
leaves it out by its premise `Fits`). A loss after a pause can find the window smaller
than before, because older losses expire in the same record: `congestion.rs:120` says
"never shrink", and `LossDoesNotSlowDown` takes this to mean that the loss itself does
not, so it compares with the window the same second would have had without it. The
session ids wrap around after 2^32 sessions: `udp.rs:51` speaks of a fresh id, but a
live session may have it, loses its entry to the new one and its replies with it
(`OnlyOwnTraffic` says there only that the ids match). With `insecure` and a pin the
signature of the handshake is not verified either (`tls.rs:133-148`), so the digest is all
that is established; `Trusted` says so. `all` or `*` as ports name port 0 as well, which
quinn does not dial, so `connect` always fails (`DialRefused`). Not every mistake in a
configuration is found before a socket is bound: a server name that is no DNS name,
and port 0, fail when quinn dials, and an auth string that makes no header only
after the handshake (`OutcomeIsRight` has the three cases apart). Two configurations panic
instead of failing with `Error::Config`: a pin with a character of several bytes across a
pair (`tls.rs:91`) and an idle timeout beyond a QUIC varint (`transport/mod.rs:41`).

### Bounds

* A behaviour of `protocol` is one of three systems that share no state: the encodings,
  one Defragger, one TCP stream. A byte has 8 values there, so that all
  four varint lengths occur. Packets have two and five fragments, with one id used for
  both: late copies of five take the counter, `U8 = 8`, over its end.
* `U8 = 4` in the runs of `UdpSend` and `IdMod = 2` bring the wrap-arounds of fragment
  counts and session ids within a few steps.
* Reconnecting has two callers and three connections, enough for one caller to
  be in its retry while the other dials, invalidates or closes. The proofs cover
  any number of callers.
* UDP relay: up to three sessions, two at a time, on two ids, so that a new session
  takes the id of a live one; queue length 1 and two datagrams, so that the
  queue fills within a fragmented packet.
* TCP: every stream of up to four bytes over four byte values and eight longer ones,
  with a chunk size of 3 and buffers of 1 and 2, so the header is cut everywhere.
* Brutal: two slots and five seconds, so that a pause exceeds the ring; three
  packets make a sample.
* Socket: buffers of 4 against packets of 1, 4 and 7 and a scratch of 6, so that a
  packet fits, fills and exceeds them; two buffers to a batch and two
  arrivals give batches of valid, of invalid and of mixed datagrams. Sending and
  receiving share no state but the configuration, so some configurations only
  send and others only receive.
* Connect: every combination of `insecure`, pin, CA and server name with six
  certificates that are each wrong in another respect; one configuration for each
  mistake; rates below, between and above `tx_bps` and `MaxU64`; two streams or
  sessions, so that one outlives the other, and one stream at a time, so that one
  waits for the other.

Symmetry is used in `udp_send` only, over the calls, which the code does not tell
apart; that run has no liveness property.

### Fairness

* A tokio task that has been woken is polled, and a thread in a synchronous call
  finishes it: weak fairness of each task's step.
* In `Reconnect` this includes the end of `connect` and of opening a stream: it
  assumes that the server answers or that quinn's idle timeout ends the connection, and
  that other streams of the application do not hold what a new one needs (see `Blocked`
  below). `reconnect.rs` has no timeout of its own.
* In `Connect` a server that is there and `answers` does so, reads what it is sent and
  allows a new stream for one that is over, and quinn's idle timer runs when the server
  has vanished. `CallsReturn` is stated for an idle timeout other than 0 and a server that
  answers: one that keeps the connection alive without answering holds `connect` for ever,
  as `authenticate` has no timeout. Even then a `tcp_connect` may wait for other streams of
  the application that keep every stream or fill the window again and again (`Blocked`):
  the property says that it waits for nothing else. `NothingIsLeftBehind` needs none of
  this.
* In `ObfsHopSocket`, strong fairness of `PollReady`: the inner socket does not answer
  "nothing" for ever while datagrams wait.
* No fairness makes a peer send or close, or a caller call, cancel or drop.

Deadlock is checked for `Reconnect`, where a caller can always call again. The other
systems may stop: all datagrams handled, everything dropped.

## The proofs

Every safety invariant and action property of the passing runs is a theorem, but
for the four named under "Only model-checked". The theorems hold for every value
of the constants that satisfies the named assumptions; TLC evaluates these on
every run, and checks on its instance the very definitions the theorems name.

### Reconnecting: `ReconnectProofs`

For any set of callers and any number of connections, under
`ReconnectAssumption` (`None` is neither a connection nor a caller):

* `TypeCorrect`: `Spec => []TypeOK`
* `CloseIsFinal`: `Spec => []ClosedIsFinal`
* `NoCallSucceedsAfterClose`: `Spec => []CallsAfterCloseFail`
* `NoConnectionLeaks`: `Spec => []CloseReleasesAll`
* `SingleDialler`: `Spec => []OneDialAtATime`
* `DialsAtMostTwice`: `Spec => []ReconnectsOnce`
* `SlotRefinement`: `Spec => ImplementsSlot`

None of these is inductive as it stands. `IInv` adds to the types `DialInv`: the callers
that dial are exactly the holder of the mutex, and while it is held the client is
not closed and nothing usable is stored; without it a second caller could enter, or
`close` could run, during a dial. `OwnerInv`: every open connection is in the slot or
held by a call, and a call that is over holds none; it is what makes `close` release
everything. `LateInv`: a call that began after `close` neither dials nor opens a
stream. `QueueInv` and `DialsInv`: a caller is queued once, and how often a call has
dialled follows from the phase it is in. Each is preserved by a lemma with one
case per action; `SlotStep` shows that every step is a step of `ConnectionSlot` or
leaves it alone.

### Connecting and the socket: `ConnectProofs`

About `Connect`, `ObfsHopSocket` and `Salamander`, under `ConnectAssumption`,
`U64Assumption`, `PortsAssumption` and `SocketAssumption`:

* `ClientIsTrusted`: `ConnectSpec => []OutcomeIsRight`, for any configurations,
  certificates and responses
* `UploadIsAgreed`: `ConnectSpec => []AgreedUpload`
* `HopsAreApart`: `SocketSpec => NeverHopsFast`, for any configured intervals
* `UnmaskedAgain`: `deobfuscate` undoes `obfuscate`, for any key, salt, packet and
  buffers that hold it

`ClientIsTrusted` is for every combination of the configuration's fields, each mistake
included. `VerifierIsTrust` shows that the verifier built for a configuration accepts exactly
the certificates the configuration trusts; `AgreedRateIsMin` does the same for CC-RX.
`ConnectInv` carries what has been established from one await to the next. `HopInv`
says that a task that is awake has slept the interval it drew, and
`IntervalIsFloored` that no interval is below the floor.

### Encodings: `ProtocolProofs`, `TcpStreamProofs`

`LowRange` is any positive number, so the results hold for bytes of 256 values and
for the small ones TLC uses.

* `VarintRoundTrip`: `get_varint` gives back every value that `put_varint` can write
* `MessageRoundTrip`: `parse` undoes `serialize`
* `RequestRoundTrip`: the same for a TCP request and its server, which has no byte left over
* `ParsedIsWhole`: `parse` accounts for every byte of any datagram it accepts
* `EncodingsRoundTrip`: `CodecSpec => []RoundTrips`
* `ParsedAccountsForAll`: `CodecSpec => []ParsedIsAllOfIt`

The last two put the first four together and rest on `CodecAssumption`: numbers and
lengths fit the 62 bits of a varint, ids their 32 and 16 bits, and an address is valid
UTF-8. The digits of a number are what a recursive function computes. That such a
function exists and satisfies its equation is proved by induction over the set of the
numbers for which it does (`NatSet`), since the induction theorems of the library take an
operator the provers cannot instantiate (`SumsExist` is one instance). The round trips
are then arithmetic on digits.

### Splitting, sending and reassembling: `ProtocolProofs`, `ReassemblyProofs`, `UdpSendProofs`

`ProtocolProofs` has the lemmas: what `Feed` keeps and returns, that the pieces
`frag_udp_message` cuts are consecutive and put together give the payload
(`FragmentsSplit`, `PiecesFlatten`), and that a Defragger fed all of them returns the
message (`LastFedComplete`). `HasSize` counts filled slots by a bijection, and
`Pigeonhole` says when they are all of them.

About `Reassembly`, for any traffic and any width of the counter (`U8Assumption`,
`WireAssumption`):

* `ReturnsOnlyWhatCame`: `DefragSpec => []NothingInvented`
* `DeliveredAtMostOnce`: `DefragSpec => []AtMostOnce`
* `DeliveredWhenComplete`: `DefragSpec => []CompleteIsDelivered`
* `OverflowIsLate`: `DefragSpec => []PanicNeedsLateCopies`

The code does not reset `count` when it delivers. `CountInv` says what `count` means
then: up to the delivery the number of filled slots, afterwards the number of slots
plus those filled again, modulo `U8`. As a packet has fewer than `U8` fragments, the
count cannot come back to the number of slots. `PlaceInv`: a slot holds a message that
was fed, with the id of the slot.

About `UdpSend`, for any number of calls, requests and limits (`LimitsAssumption`,
`WidthsAssumption`: a packet id has two bytes and an address length fits a varint):

* `OkMeansComplete`: `Spec => []OkIsComplete`
* `SendsKeepIntegrity`: `Spec => []Integrity`
* `ErrMeansNotDelivered`: `Spec => []ErrIsNotDelivered`

`IInv` says for each call how what it has sent and what is left make up its message
(`Sending`); that all on the wire was accepted from some call (`WireInv`); that the
peer's Defragger is at work on one call's fragments, and holds only ones that are no
longer on the wire (`PeerInv`); and that what it returned is a message sent to the end
(`ReceivedInv`). The last three hold, as `Integrity` is stated, while the messages
fit and the packet ids differ. `FeedGoesOn` is the step of the Defragger.

### Sessions: `UdpRelayProofs`

For any number of callers, ids and sessions, under `RelayAssumption`:

* `TypeCorrect`: `Spec => []TypeOK`
* `SessionsAreSeparate`: `Spec => []OnlyOwnTraffic`
* `SessionsAreReachable`: `Spec => []LiveIsRegistered`
* `MapDoesNotLeak`: `Spec => []NoStaleEntry`

`OwnInv`: what a session has queued, collected and returned is of its own id. `IdsInv`:
until the ids wrap around those in use are distinct and behind `next_id`, so that no
`insert` and no `remove` touches the entry of another session, and what is of its id is
its own.

### The TCP response: `TcpStreamProofs`

For any bytes, any way they arrive, any chunk and buffer sizes (`StreamAssumption`):

* `BytesAreConserved`: `Spec => []BytesConserved`
* `VerdictsAreRight`: `Spec => []VerdictIsRight`

The parser is first shown to say of a prefix what the grammar (`IsHeader`, `Accepts`,
`Exceeds`) says of the whole stream. The inductive invariant is the two properties
together with `Positions`: the ranges of the positions in stream and buffers, that
the header is complete exactly in the phases that need it, and that nothing is left
over before.

### Brutal: `BrutalProofs`

For a ring of any size and any rates, RTTs, losses and pauses (`BrutalAssumption`):

* `RingHoldsLastSeconds`: `Spec => []RingIsLastSeconds`
* `WindowStaysBounded`: `Spec => []WindowIsBounded`
* `LossKeepsWindow`: `Spec => LossDoesNotSlowDown`: `LossLowersRate` compares the rings
  `record` leaves with and without the loss, after any pause

`RingInv`: a slot holds the counts of the last of its seconds in which anything
happened, or is still empty, and `ack_rate` is that of the slots; `RateInv`: the rate in force is at most the configured and the
agreed one. The sums over slots are folds, `SumFunction` of the community modules:
their value for every finite set is proved by induction over its size, and
sums over two index sets agree when a bijection matches their terms (`Matches`).

## Only model-checked

* Liveness, which is out of the prover's reach: `EveryCallReturns`, `LoopEnds`,
  `RecvEndsWithClient`, `ReaderIsAnswered`, `AllTaken`, `HopTaskEnds`,
  `NothingIsLeftBehind`, `CallsReturn`.
* `InboundIntact`: one side is `SelectSeq`, a recursive definition with an operator as its
  parameter, the other what a recursive function makes of a whole batch.
* `SentToNamedPorts`: it rests on `SortSeq`, which is evaluated and not defined in a way
  the provers can use.
* `SentIsReadable`: the segments of a transmit are cut and masked by operators over
  sequences of any length. `UnmaskedAgain` is what is proved of one packet.
* `RoundTrip` of `MCProtocol`, which is about the packets of that instance.
  `NothingInvented` and `LastFedComplete` are what is proved in general.

## Not modelled

* Coalescing on receive in `ObfsHopSocket`: whether the inner socket coalesces in spite
  of `max_receive_segments` is decided outside the repository.
* `transport/mod.rs` but for the idle timeout and the congestion controller, `error.rs`,
  `lib.rs` and the rest of `config.rs`: parameters and conversions without state.
* `poll_write` beyond its use of the connection's window (`FillsWindow`), `poll_flush`,
  `poll_shutdown`, and the pass-through methods of the socket.
* The text of the authentication request and its padding.
* BBR, quinn, rustls and h3, which are outside the repository, beyond what the code
  relies on.
* `Reconnect` composed with `UdpRelay`: `Connect` already has the streams, sessions and
  `receive_loop` of one client, and `Reconnect` shares nothing with them but the
  drop of the client.
