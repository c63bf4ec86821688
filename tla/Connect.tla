------------------------------- MODULE Connect -------------------------------
(***************************************************************************)
(* The life of one HysteriaClient: connect and authenticate (connect.rs)   *)
(* with what they build on the way (transport/mod.rs, transport/tls.rs),   *)
(* the streams and sessions opened on the client (client.rs), and its      *)
(* drop. Every await may fail or be the last one of a cancelled call. The  *)
(* socket and the hop task belong to quinn's endpoint driver and to the    *)
(* handles of the connection; receive_loop has a handle of its own.        *)
(***************************************************************************)
EXTENDS Ports, Tls, Auth

CONSTANTS
    Configs,     \* the configurations
    DnsNames,    \* names rustls takes for a server name
    Certs,       \* certificates a server may present
    Responses,   \* its answers: [status, udp, cc_rx]
    StatusOk,    \* STATUS_AUTH_OK (233)
    StreamLimit, \* streams the server allows at a time
    Uses         \* streams and sessions the application opens

ASSUME ConnectAssumption ==
    /\ \A c \in Configs :
         /\ c.tx_bps \in Nat
         /\ c.pin_sha256.shape \in {"empty", "hex", "cut", "length", "not_hex"}
         /\ c.pin_sha256.shape = "hex" => c.pin_sha256.digest # Absent
    /\ \A r \in Responses : r.cc_rx \in CcRxHeader
    /\ {"conn", "h3", "loop"} \cap Uses = {}
    /\ StreamLimit \in Nat \ {0}

VARIABLES
    config,
    answers,   \* the server answers requests, besides keeping the connection alive
    alive,     \* the server is there
    stage,     \* connect(): its awaits, and how it ended: client, err, panic, cancelled;
               \* dropped when the client has been dropped
    outcome,   \* the Error it returned
    endpoint,  \* the Endpoint handle: none, held, released
    driver,    \* quinn's endpoint driver, which owns the socket: none, running, ended
    quic,      \* none, handshake, open, closed
    handles,   \* who holds the connection
    cert, resp,    \* what the server presented and answered
    rate, use_bbr, \* the cells shared with the congestion controller
    credit,        \* streams the server still lets the client open
    window,        \* the connection's flow control lets it write
    use        \* none, a stream's await in tcp_connect or ready, a session, or over

peer == <<answers, alive>>
upload == <<rate, use_bbr>>
flow == <<credit, window>>
connect_vars == <<config, peer, stage, outcome, endpoint, driver, quic, handles, cert, resp, upload, flow, use>>

ConnectInit ==
    /\ config \in Configs
    /\ answers \in BOOLEAN /\ alive = TRUE
    /\ stage = "lookup" /\ outcome = "none"
    /\ endpoint = "none" /\ driver = "none" /\ quic = "none" /\ handles = {}
    /\ cert = Absent /\ resp = Absent
    /\ rate = config.tx_bps /\ use_bbr = FALSE
    /\ credit = 0 /\ window = FALSE
    /\ use = [u \in Uses |-> "none"]

-----------------------------------------------------------------------------

(* resolved_server_name *)
ServerName(c) == IF c.server_name # Absent THEN c.server_name ELSE c.host

Verifier(c) ==
    LET pin == ParsePin(c.pin_sha256)
    IN  IF pin.kind # "ok" THEN pin ELSE BuildClientConfig(c.insecure, pin.value, c.ca_pem)

(* The checks between resolve_endpoint and the first socket, in order: the *)
(* length of the obfuscation key, the pin, the roots, and the conversion   *)
(* of the idle timeout in transport_config.                                *)
Checks(c) ==
    IF c.obfs = "short" THEN Fails("Config")
    ELSE IF Verifier(c).kind # "ok" THEN Verifier(c)
    ELSE IF c.max_idle = "huge" THEN Fails("panic")
    ELSE Verifier(c)

Idles_bug_NoTimeout(c) == FALSE

(* A silent connection times out; QUIC takes 0 for no timeout at all (the  *)
(* server may have one of its own, on which nothing here relies).          *)
Idles(c) == c.max_idle # "zero"

(* The connection after a step: quinn closes it with its last handle. *)
Kept(state) == IF state \in {"handshake", "open"} /\ handles' = {} THEN "closed" ELSE state

(* connect() ends without a client: its locals are dropped. *)
Ends(l, error) ==
    /\ stage' = l /\ outcome' = error
    /\ endpoint' = IF endpoint = "held" THEN "released" ELSE endpoint
    /\ handles' = {}
    /\ quic' = Kept(quic)
    /\ UNCHANGED <<config, peer, driver, upload, flow, use>>

(* resolve_endpoint: bad ports, or a lookup that fails or finds nothing. *)
LookupFails ==
    /\ stage = "lookup"
    /\ \E e \in {"Config", "Io"} : (e = "Io" => Resolves(config)) /\ Ends("err", e)
    /\ UNCHANGED <<cert, resp>>

ConfigRefused ==
    /\ stage = "lookup" /\ Resolves(config) /\ Checks(config).kind # "ok"
    /\ IF Checks(config).kind = "panic" THEN Ends("panic", "none") ELSE Ends("err", "Config")
    /\ UNCHANGED <<cert, resp>>

Checked == stage = "lookup" /\ Resolves(config) /\ Checks(config).kind = "ok"

(* The socket cannot be bound or wrapped, and is dropped at once. *)
BindFails == Checked /\ Ends("err", "Io") /\ UNCHANGED <<cert, resp>>

(* What quinn dials: rustls takes the name, and the port is not 0. *)
Dialable(c) == ServerName(c) \in DnsNames /\ Canonical(c) # 0

(* build_endpoint, and endpoint.connect fails ... *)
DialRefused ==
    /\ Checked /\ ~Dialable(config)
    /\ stage' = "err" /\ outcome' = "Connect"
    /\ endpoint' = "released" /\ driver' = "running"
    /\ UNCHANGED <<config, peer, quic, handles, cert, resp, upload, flow, use>>

(* ... or starts the handshake. *)
Dial ==
    /\ Checked /\ Dialable(config)
    /\ stage' = "dial"
    /\ endpoint' = "held" /\ driver' = "running"
    /\ quic' = "handshake" /\ handles' = {"conn"}
    /\ UNCHANGED <<config, peer, outcome, cert, resp, upload, flow, use>>

Accepts(c) == Verifies(Verifier(config).value, c, ServerName(config))

(* The handshake brings the server's limits. The request of authenticate   *)
(* takes one of the streams and gives it back with the response.           *)
Handshake(c) ==
    /\ stage = "dial" /\ quic = "handshake" /\ alive /\ Accepts(c)
    /\ stage' = "h3" /\ quic' = "open" /\ handles' = {"conn", "h3"} /\ cert' = c
    /\ credit' = StreamLimit /\ window' = TRUE
    /\ UNCHANGED <<config, peer, outcome, endpoint, driver, resp, upload, use>>

(* rustls refuses the certificate; Untrusted is an Error::Connection. *)
CertRefused(c) ==
    /\ stage = "dial" /\ quic = "handshake" /\ alive /\ ~Accepts(c)
    /\ cert' = c /\ Ends("err", "Untrusted")
    /\ UNCHANGED resp

-----------------------------------------------------------------------------
(* authenticate.                                                           *)

Exchange == [h3 |-> "request", request |-> "finish", finish |-> "response"]

Awaits == {"lookup", "dial", "response"} \cup DOMAIN Exchange

(* Its awaits up to the response. *)
Sends ==
    /\ stage \in DOMAIN Exchange /\ quic = "open"
    /\ stage = "h3" => config.auth # "no_header"
    /\ stage' = Exchange[stage]
    /\ UNCHANGED <<config, peer, outcome, endpoint, driver, quic, handles, cert, resp, upload, flow, use>>

(* The auth string makes no header value. *)
RequestRefused ==
    /\ stage = "h3" /\ quic = "open" /\ config.auth = "no_header"
    /\ Ends("err", "Protocol")
    /\ UNCHANGED <<cert, resp>>

(* An await finds the connection closed ... *)
Lost ==
    /\ stage \in Awaits \ {"lookup"} /\ quic = "closed"
    /\ Ends("err", IF stage = "dial" THEN "Connection" ELSE "H3")
    /\ UNCHANGED <<cert, resp>>

(* ... or the server breaks the HTTP/3 exchange. *)
ExchangeBroken ==
    /\ stage \in DOMAIN Exchange \cup {"response"} /\ quic = "open"
    /\ Ends("err", "H3")
    /\ UNCHANGED <<cert, resp>>

Answered(r) == stage = "response" /\ quic = "open" /\ answers /\ alive /\ resp' = r

AuthFailed(r) ==
    /\ Answered(r) /\ r.status # StatusOk
    /\ Ends("err", "AuthFailed")
    /\ UNCHANGED cert

(* The response is accepted: connect() applies CC-RX to the controller, if *)
(* it has a rate to apply it to, and makes the client, whose session       *)
(* manager spawns receive_loop.                                            *)
Connected(r) ==
    /\ Answered(r) /\ r.status = StatusOk
    /\ stage' = "client"
    /\ handles' = IF r.udp THEN {"conn", "loop"} ELSE {"conn"}
    /\ IF config.tx_bps = 0 THEN UNCHANGED upload
       ELSE /\ use_bbr' = ParseCcRx(r.cc_rx).rx_auto
            /\ rate' = AgreedRate(config.tx_bps, ParseCcRx(r.cc_rx))
    /\ UNCHANGED <<config, peer, outcome, endpoint, driver, quic, cert, flow, use>>

ConnectCancelled ==
    /\ stage \in Awaits /\ Ends("cancelled", "none")
    /\ UNCHANGED <<cert, resp>>

(* Whether BBR is in charge: transport_config has it alone when there is   *)
(* no rate to keep to, or use_bbr hands the window over to it.             *)
UsesBbr == config.tx_bps = 0 \/ use_bbr

-----------------------------------------------------------------------------
(* The client in use.                                                      *)

Using(u, l) == use' = [use EXCEPT ![u] = l]

(* udp(): an error if the server has no UDP, else a session at once. *)
Udp(u) ==
    /\ stage = "client" /\ use[u] = "none" /\ resp.udp
    /\ Using(u, "session") /\ handles' = handles \cup {u}
    /\ UNCHANGED <<config, peer, stage, outcome, endpoint, driver, quic, cert, resp, upload, flow>>

TcpConnect(u) ==
    /\ stage = "client" /\ use[u] = "none"
    /\ Using(u, "open_bi")
    /\ UNCHANGED <<config, peer, stage, outcome, endpoint, driver, quic, handles, cert, resp, upload, flow>>

(* The awaits of tcp_connect: open_bi waits until the server allows one    *)
(* more stream, write_all for room in the connection's window, and         *)
(* establish, without fast-open only, for an answer. (flush() of a quinn   *)
(* stream does not wait.)                                                  *)
TcpAwaits == {"open_bi", "write_all", "establish"}

TcpStep(u) ==
    /\ use[u] \in TcpAwaits /\ quic = "open"
    /\ use[u] = "open_bi" => credit > 0
    /\ use[u] = "write_all" => window
    /\ use[u] = "establish" => answers /\ alive
    /\ Using(u, CASE use[u] = "open_bi" -> "write_all"
                  [] use[u] = "write_all" /\ ~config.fast_open -> "establish"
                  [] OTHER -> "ready")
    /\ handles' = handles \cup {u}
    /\ credit' = IF use[u] = "open_bi" THEN credit - 1 ELSE credit
    /\ UNCHANGED <<config, peer, stage, outcome, endpoint, driver, quic, cert, resp, upload, window>>

(* The application writes as much on a stream as the connection takes. *)
FillsWindow(u) ==
    /\ use[u] = "ready" /\ quic = "open" /\ window
    /\ window' = FALSE
    /\ UNCHANGED <<config, peer, stage, outcome, endpoint, driver, quic, handles, cert, resp, upload,
                   credit, use>>

(* A stream or a session is dropped. *)
UseEnds(u) ==
    /\ Using(u, "over")
    /\ handles' = handles \ {u} /\ quic' = Kept(quic)
    /\ UNCHANGED <<config, peer, stage, outcome, endpoint, driver, cert, resp, upload, flow>>

TcpLost(u) == use[u] \in TcpAwaits /\ quic = "closed" /\ UseEnds(u)

(* The server resets the stream or rejects the request. *)
TcpRefused(u) == use[u] \in {"write_all", "establish"} /\ quic = "open" /\ UseEnds(u)

(* The application drops it, or cancels tcp_connect. *)
UseDropped(u) == use[u] \notin {"none", "over"} /\ UseEnds(u)

DropClient_bug_NotClosed ==
    /\ stage = "client" /\ \A u \in Uses : use[u] \notin TcpAwaits
    /\ stage' = "dropped" /\ endpoint' = "released"
    /\ handles' = handles \ {"conn"} /\ quic' = Kept(quic)
    /\ UNCHANGED <<config, peer, outcome, driver, cert, resp, upload, flow, use>>

(* Drop for HysteriaClient, when no call borrows it. *)
DropClient ==
    /\ stage = "client" /\ \A u \in Uses : use[u] \notin TcpAwaits
    /\ stage' = "dropped" /\ endpoint' = "released"
    /\ handles' = handles \ {"conn"} /\ quic' = "closed"
    /\ UNCHANGED <<config, peer, outcome, driver, cert, resp, upload, flow, use>>

(* receive_loop: read_datagram fails. *)
LoopEnds ==
    /\ "loop" \in handles /\ quic = "closed"
    /\ handles' = handles \ {"loop"}
    /\ UNCHANGED <<config, peer, stage, outcome, endpoint, driver, quic, cert, resp, upload, flow, use>>

-----------------------------------------------------------------------------
(* quinn and the server.                                                   *)

(* The driver ends when it has neither handles nor connections. *)
DriverEnds ==
    /\ driver = "running" /\ endpoint = "released" /\ quic \in {"none", "closed"}
    /\ driver' = "ended"
    /\ UNCHANGED <<config, peer, stage, outcome, endpoint, quic, handles, cert, resp, upload, flow, use>>

Vanishes ==
    /\ alive /\ alive' = FALSE
    /\ UNCHANGED <<config, answers, stage, outcome, endpoint, driver, quic, handles, cert, resp, upload, flow, use>>

ConnCloses ==
    /\ quic \in {"handshake", "open"}
    /\ quic' = "closed"
    /\ UNCHANGED <<config, peer, stage, outcome, endpoint, driver, handles, cert, resp, upload, flow, use>>

Streams == {u \in Uses : use[u] \in {"write_all", "establish", "ready"}}

(* MAX_STREAMS: the server lets a stream follow one that is over ... *)
GrantsStream ==
    /\ alive /\ quic = "open" /\ credit + Cardinality(Streams) < StreamLimit
    /\ credit' = credit + 1
    /\ UNCHANGED <<config, peer, stage, outcome, endpoint, driver, quic, handles, cert, resp, upload,
                   window, use>>

(* ... and MAX_DATA: it has read what was written. *)
GrantsWindow ==
    /\ alive /\ quic = "open" /\ ~window
    /\ window' = TRUE
    /\ UNCHANGED <<config, peer, stage, outcome, endpoint, driver, quic, handles, cert, resp, upload,
                   credit, use>>

ServerCloses == alive /\ ConnCloses

IdleTimeout == ~alive /\ Idles(config) /\ ConnCloses

ConnectStep ==
    \/ LookupFails \/ ConfigRefused \/ BindFails \/ DialRefused \/ Dial
    \/ \E c \in Certs : Handshake(c) \/ CertRefused(c)
    \/ Sends \/ RequestRefused \/ Lost
    \/ \E r \in Responses : AuthFailed(r) \/ Connected(r)

TcpMoves(u) == TcpStep(u) \/ TcpLost(u)

ConnectNext ==
    \/ ConnectStep \/ ExchangeBroken \/ ConnectCancelled \/ DropClient \/ LoopEnds
    \/ \E u \in Uses : Udp(u) \/ TcpConnect(u) \/ TcpMoves(u) \/ TcpRefused(u) \/ UseDropped(u)
                       \/ FillsWindow(u)
    \/ DriverEnds \/ Vanishes \/ ServerCloses \/ IdleTimeout \/ GrantsStream \/ GrantsWindow

(* tokio polls what has been woken, the resolver answers, a server that is *)
(* there and answers does so and reads what it gets, and quinn's timer     *)
(* runs. Nothing makes a caller cancel or drop, or a server close, refuse  *)
(* or break anything.                                                      *)
ConnectFairness ==
    /\ WF_connect_vars(ConnectStep) /\ WF_connect_vars(LoopEnds)
    /\ WF_connect_vars(DriverEnds) /\ WF_connect_vars(IdleTimeout)
    /\ WF_connect_vars(answers /\ GrantsStream) /\ WF_connect_vars(answers /\ GrantsWindow)
    /\ \A u \in Uses : WF_connect_vars(TcpMoves(u))

ConnectSpec == ConnectInit /\ [][ConnectNext]_connect_vars /\ ConnectFairness

-----------------------------------------------------------------------------

(* What the configuration says of the server's certificate (config.rs:54,  *)
(* 88-93): the pin, if there is one, is its digest, and unless insecure is *)
(* set it is verified against the roots, the name and the handshake. With  *)
(* insecure nothing but the digest is left, not even the signature of the  *)
(* handshake (tls.rs:133-148), of which config.rs does not speak.          *)
Trusted(c, x) ==
    /\ c.pin_sha256.shape # "empty" => x.digest = c.pin_sha256.digest
    /\ ~c.insecure => /\ x.issuer \in SystemRoots \cup c.ca_pem.roots
                      /\ x.signed
                      /\ IF c.server_name = Absent THEN c.host \in x.names
                                                 ELSE c.server_name \in x.names

(* The mistakes in a configuration that no server can make good. *)
Mistaken(c) ==
    \/ ~Resolves(c) \/ Canonical(c) = 0
    \/ c.obfs = "short" \/ c.max_idle = "huge" \/ c.auth = "no_header"
    \/ c.pin_sha256.shape \notin {"empty", "hex"} \/ c.ca_pem.shape = "malformed"
    \/ IF c.server_name = Absent THEN c.host \notin DnsNames ELSE c.server_name \notin DnsNames

(* Whatever combination of insecure, pin_sha256 and ca_pem is configured,  *)
(* nothing is sent on a connection to a server that is not trusted, and a  *)
(* trusted one is not refused; a client is handed out only if the server   *)
(* accepted the authentication and nothing is wrong with the               *)
(* configuration. How far connect gets with a mistake is part of it:       *)
(* Error::Config and the panics come before a socket is bound, a server    *)
(* name or port that cannot be dialled is reported with the socket bound   *)
(* but before a packet is sent (connect.rs:67), and an auth string that    *)
(* makes no header only after the handshake, without a request             *)
(* (connect.rs:157-165).                                                   *)
OutcomeIsRight ==
    /\ stage \in DOMAIN Exchange \cup {"response", "client", "dropped"} => Trusted(config, cert)
    /\ stage \in {"client", "dropped"} => resp.status = StatusOk /\ ~Mistaken(config)
    /\ outcome = "Untrusted" => ~Trusted(config, cert)
    /\ outcome = "AuthFailed" => Trusted(config, cert) /\ resp.status # StatusOk
    /\ outcome = "Config" \/ stage = "panic" => driver = "none" /\ quic = "none" /\ cert = Absent
    /\ outcome = "Connect" => Mistaken(config) /\ quic = "none" /\ cert = Absent
    /\ outcome = "Protocol" => Mistaken(config) /\ Trusted(config, cert) /\ resp = Absent

(* config.rs:62-68: when a stream can be opened, the upload is limited as  *)
(* both sides agreed: to min(tx_bps, server Rx) when the server named a    *)
(* rate, by BBR when it said auto or no tx_bps is configured, whatever     *)
(* rx_bps the client reports.                                              *)
AgreedUpload ==
    stage \in {"client", "dropped"} =>
      LET h == resp.cc_rx
      IN  /\ UsesBbr <=> config.tx_bps = 0 \/ h.kind = "auto"
          /\ ~UsesBbr =>
               /\ rate <= config.tx_bps
               /\ h.kind = "number" /\ h.rate \in 1 .. MaxU64 => rate <= h.rate
               /\ rate < config.tx_bps => h.kind = "number" /\ rate = h.rate

(* config.rs:57-59 of an rx_bps of 0: "the client uses BBR for sending".   *)
UnknownRxSendsByBbr == stage \in {"client", "dropped"} /\ config.rx_bps = 0 => UsesBbr

(* The repository's README.md:106-107: with hop_ports set, server_addr     *)
(* keeps "a single connect port", which is then the port quinn dials.      *)
ConnectPortKept ==
    LET ports == ParsePorts(config.server_port)
    IN  quic # "none" /\ config.hop_ports # NoPorts /\ Len(ports) = 1
          => Canonical(config) = ports[1]

(* Whatever fails, is cancelled or dropped, nothing stays behind: when     *)
(* connect() has failed, or the client and what was opened on it have been *)
(* dropped, the socket with its hop task, the endpoint driver and          *)
(* receive_loop are gone (client.rs:101-105).                              *)
NothingIsLeftBehind ==
    (stage \in {"err", "panic", "cancelled", "dropped"} /\ \A u \in Uses : use[u] \notin {"ready", "session"})
      ~> (driver # "running" /\ handles = {})

(* What tcp_connect waits for while the connection is well: that one of    *)
(* the streams the server allows is given up, or that the application's    *)
(* own data leave room in the window.                                      *)
Blocked(u) ==
    \/ use[u] = "open_bi" /\ Cardinality(Streams) = StreamLimit
    \/ use[u] = "write_all" /\ ~window

(* connect and tcp_connect return, also when the server disappears in the  *)
(* middle: provided that an idle timeout is configured and that a server   *)
(* that stays does answer. Other streams of the application are all that   *)
(* keeps a tcp_connect waiting then, by taking every stream the server     *)
(* allows or the whole window (client.rs:62-65 has no timeout).            *)
CallsReturn ==
    answers /\ config.max_idle # "zero" =>
      /\ <>(stage \notin Awaits)
      /\ \A u \in Uses : []<>(use[u] \notin TcpAwaits \/ Blocked(u))
=============================================================================
