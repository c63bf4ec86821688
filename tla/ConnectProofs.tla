--------------------------- MODULE ConnectProofs ----------------------------
(***************************************************************************)
(* Proofs about what connect() builds: Connect, for any configurations and *)
(* answers, and the socket under it, ObfsHopSocket and Salamander.         *)
(***************************************************************************)
EXTENDS Connect, ObfsHopSocket, TLAPS

-----------------------------------------------------------------------------
(* What connect() hands out, for every configuration, certificate and      *)
(* response.                                                               *)

(* A verifier is only made from a pin and a CA file that can be read.      *)
LEMMA VerifierIsMade ==
    ASSUME NEW c \in Configs, Verifier(c).kind = "ok"
    PROVE  /\ c.pin_sha256.shape \in {"empty", "hex"} /\ ParsePin(c.pin_sha256).kind = "ok"
           /\ c.ca_pem.shape # "malformed"
           /\ BuildRoots(c.ca_pem) = Ok(SystemRoots \cup c.ca_pem.roots)
<1>1. c.pin_sha256.shape \in {"empty", "hex"} /\ ParsePin(c.pin_sha256).kind = "ok"
  BY ConnectAssumption DEF Verifier, ParsePin, Fails, Ok
<1>2. c.ca_pem.shape # "malformed" /\ BuildRoots(c.ca_pem) = Ok(SystemRoots \cup c.ca_pem.roots)
  BY <1>1 DEF Verifier, BuildClientConfig, BuildRoots, Fails, Ok
<1> QED
  BY <1>1, <1>2

(* What is dialled is mistaken in nothing but its auth string, and what    *)
(* endpoint.connect refuses is mistaken.                                   *)
LEMMA DialledIsSound ==
    ASSUME NEW c \in Configs, Resolves(c), Checks(c).kind = "ok"
    PROVE  /\ Verifier(c).kind = "ok"
           /\ Dialable(c) /\ c.auth # "no_header" => ~Mistaken(c)
           /\ ~Dialable(c) => Mistaken(c)
<1>1. c.obfs # "short" /\ Verifier(c).kind = "ok" /\ c.max_idle # "huge"
  BY DEF Checks, Fails
<1>2. c.pin_sha256.shape \in {"empty", "hex"} /\ c.ca_pem.shape # "malformed"
  BY <1>1, VerifierIsMade
<1> QED
  BY <1>1, <1>2 DEF Dialable, Mistaken, ServerName

(* The verifier that tls.rs installs for a configuration accepts exactly   *)
(* the certificates that the configuration trusts, for each of the four    *)
(* combinations of insecure and pin_sha256.                                *)
LEMMA VerifierIsTrust ==
    ASSUME NEW c \in Configs, NEW x, Verifier(c).kind = "ok"
    PROVE  Verifies(Verifier(c).value, x, ServerName(c)) <=> Trusted(c, x)
<1> DEFINE p == c.pin_sha256
           roots == SystemRoots \cup c.ca_pem.roots
           inner == IF c.insecure THEN NoVerify ELSE WebPki(roots)
<1>1. p.shape \in {"empty", "hex"} /\ ParsePin(p).kind = "ok"
  BY VerifierIsMade
<1>2. BuildRoots(c.ca_pem) = Ok(roots)
  BY VerifierIsMade
<1> DEFINE n == ServerName(c)
           verified == ~c.insecure => WebPkiVerifies(roots, x, n)
<1>3. /\ VerifiesUnpinned(inner, x, n) <=> verified
      /\ Verifies(inner, x, n) <=> verified
  BY DEF Verifies, VerifiesUnpinned, NoVerify, WebPki
<1>4. Trusted(c, x) <=> (p.shape # "empty" => x.digest = p.digest) /\ verified
  BY DEF Trusted, WebPkiVerifies, ServerName
<1>5. \A y : Ok(y).value = y
  BY DEF Ok
<1>6. CASE p.shape = "empty"
  <2>1. Verifier(c) = Ok(inner)
    BY <1>1, <1>2, <1>6 DEF Verifier, ParsePin, BuildClientConfig, Ok
  <2> HIDE DEF inner, verified, n
  <2>2. Verifier(c).value = inner
    BY <1>5, <2>1, Zenon
  <2> QED
    BY <1>3, <1>4, <1>6, <2>2, Zenon DEF n
<1>7. CASE p.shape = "hex"
  <2>1. Verifier(c) = Ok(PinVerifier(inner, p.digest))
    BY <1>1, <1>2, <1>7, ConnectAssumption DEF Verifier, ParsePin, BuildClientConfig, Ok
  <2> HIDE DEF inner, verified, n
  <2>2. Verifier(c).value = PinVerifier(inner, p.digest)
    BY <1>5, <2>1, Zenon
  <2>3. Verifies(PinVerifier(inner, p.digest), x, n) <=> x.digest = p.digest /\ verified
    BY <1>3 DEF Verifies, PinVerifies, PinVerifier
  <2> QED
    BY <1>4, <1>7, <2>2, <2>3 DEF n
<1> QED
  BY <1>1, <1>6, <1>7

Authenticating == DOMAIN Exchange \cup {"response"}

Agreed(h) ==
    LET bbr == config.tx_bps = 0 \/ use_bbr
    IN  /\ bbr <=> config.tx_bps = 0 \/ h.kind = "auto"
        /\ ~bbr => /\ rate <= config.tx_bps
                   /\ h.kind = "number" /\ h.rate \in 1 .. MaxU64 => rate <= h.rate
                   /\ rate < config.tx_bps => h.kind = "number" /\ rate = h.rate

LEMMA ExchangeSteps ==
    /\ DOMAIN Exchange = {"h3", "request", "finish"}
    /\ \A l \in DOMAIN Exchange : Exchange[l] \in {"request", "finish", "response"}
  BY DEF Exchange

(* The inductive invariant: what connect() has established at each await. *)
ConnectInv ==
    /\ config \in Configs
    /\ stage = "lookup" => driver = "none" /\ quic = "none" /\ cert = Absent
    /\ stage \in Awaits => outcome = "none" /\ resp = Absent /\ rate = config.tx_bps /\ use_bbr = FALSE
    /\ stage = "dial" => Verifier(config).kind = "ok"
    /\ stage \in {"dial", "h3"} => config.auth = "no_header" \/ ~Mistaken(config)
    /\ stage \in Authenticating \ {"h3"} => ~Mistaken(config)
    /\ stage \in {"client", "dropped"} => outcome = "none" /\ Agreed(resp.cc_rx)
    /\ OutcomeIsRight

(* CC-RX is applied as agreed. *)
LEMMA AgreedRateIsMin ==
    ASSUME NEW tx \in Nat \ {0}, NEW h \in CcRxHeader
    PROVE  LET r == AgreedRate(tx, ParseCcRx(h))
           IN  /\ r <= tx
               /\ h.kind = "number" /\ h.rate \in 1 .. MaxU64 => r <= h.rate
               /\ r < tx => h.kind = "number" /\ r = h.rate
<1>1. h.rate \in Nat
  BY DEF CcRxHeader
<1>2. CASE h.kind = "number" /\ h.rate <= MaxU64
  <2>1. ParseCcRx(h).server_rx = h.rate /\ ParseCcRx(h).rx_auto = FALSE
    BY <1>2 DEF ParseCcRx
  <2>2. AgreedRate(tx, ParseCcRx(h)) = IF h.rate > 0 /\ h.rate < tx THEN h.rate ELSE tx
    BY <2>1 DEF AgreedRate
  <2> QED
    BY <1>1, <1>2, <2>2, U64Assumption
<1>3. CASE ~(h.kind = "number" /\ h.rate <= MaxU64)
  <2>1. ParseCcRx(h).server_rx = 0
    BY <1>3 DEF ParseCcRx
  <2>2. AgreedRate(tx, ParseCcRx(h)) = tx
    BY <2>1 DEF AgreedRate
  <2> QED
    BY <1>1, <1>3, <2>2, U64Assumption
<1> QED
  BY <1>2, <1>3

LEMMA ConnectInvKept ==
    ConnectInv /\ [ConnectNext]_connect_vars => ConnectInv'
<1> SUFFICES ASSUME ConnectInv, [ConnectNext]_connect_vars PROVE ConnectInv'
  OBVIOUS
<1> USE ExchangeSteps DEF ConnectInv, OutcomeIsRight, Awaits, Authenticating, peer, upload
<1>1. CASE UNCHANGED connect_vars
  BY <1>1 DEF connect_vars, Agreed
<1>3. CASE LookupFails
  BY <1>3 DEF LookupFails, Ends, Kept
<1>4. CASE ConfigRefused
  BY <1>4 DEF ConfigRefused, Ends, Kept
<1>5. CASE BindFails
  BY <1>5 DEF BindFails, Checked, Ends, Kept
<1>6. CASE DialRefused
  <2>1. Mistaken(config)
    BY <1>6, DialledIsSound DEF DialRefused, Checked
  <2> QED
    BY <1>6, <2>1 DEF DialRefused, Checked
<1>7. CASE Dial
  <2>1. Verifier(config).kind = "ok" /\ (config.auth = "no_header" \/ ~Mistaken(config))
    BY <1>7, DialledIsSound DEF Dial, Checked
  <2> QED
    BY <1>7, <2>1 DEF Dial, Checked
<1>8. ASSUME NEW c \in Certs, Handshake(c) PROVE ConnectInv'
  <2>1. Trusted(config, c)
    BY <1>8, VerifierIsTrust DEF Handshake, Accepts
  <2> QED
    BY <1>8, <2>1 DEF Handshake
<1>9. ASSUME NEW c \in Certs, CertRefused(c) PROVE ConnectInv'
  <2>1. ~Trusted(config, c)
    BY <1>9, VerifierIsTrust DEF CertRefused, Accepts
  <2>2. /\ config' = config /\ cert' = c /\ stage' = "err" /\ outcome' = "Untrusted"
    BY <1>9 DEF CertRefused, Ends
  <2>3. ~Trusted(config', cert')
    BY <2>1, <2>2
  <2> QED
    BY <2>2, <2>3
<1>10. CASE Sends
  <2>1. stage \in {"h3", "request", "finish"} /\ stage' \in {"request", "finish", "response"}
    BY <1>10, ExchangeSteps, Zenon DEF Sends
  <2>2. UNCHANGED <<config, outcome, driver, quic, cert, resp, rate, use_bbr>>
    BY <1>10 DEF Sends
  <2>3. /\ Trusted(config, cert) /\ outcome = "none" /\ resp = Absent
        /\ rate = config.tx_bps /\ use_bbr = FALSE
    BY <2>1
  <2>4. ~Mistaken(config)
    BY <1>10, <2>1 DEF Sends
  <2> QED
    BY <2>1, <2>2, <2>3, <2>4
<1>11. CASE RequestRefused
  <2>1. Mistaken(config)
    BY <1>11 DEF RequestRefused, Mistaken
  <2> QED
    BY <1>11, <2>1 DEF RequestRefused, Ends, Kept
<1>12. CASE Lost
  BY <1>12 DEF Lost, Ends, Kept
<1>13. CASE ExchangeBroken
  BY <1>13 DEF ExchangeBroken, Ends, Kept
<1>14. CASE ConnectCancelled
  BY <1>14 DEF ConnectCancelled, Ends, Kept
<1>15. ASSUME NEW r \in Responses, AuthFailed(r) PROVE ConnectInv'
  BY <1>15 DEF AuthFailed, Answered, Ends
<1>16. ASSUME NEW r \in Responses, Connected(r) PROVE ConnectInv'
  <2>1. stage = "response" /\ resp' = r /\ stage' = "client" /\ r.status = StatusOk
    BY <1>16 DEF Connected, Answered
  <2>2. UNCHANGED <<config, outcome, cert, driver, quic>>
    BY <1>16 DEF Connected
  <2>3. Agreed(r.cc_rx)'
    <3>1. CASE config.tx_bps = 0
      BY <2>2, <3>1 DEF Agreed
    <3>2. CASE config.tx_bps # 0
      <4>1. config.tx_bps \in Nat \ {0} /\ r.cc_rx \in CcRxHeader
        BY <3>2, ConnectAssumption
      <4>2. use_bbr' = (r.cc_rx.kind = "auto") /\ rate' = AgreedRate(config.tx_bps, ParseCcRx(r.cc_rx))
        BY <1>16, <3>2 DEF Connected, ParseCcRx
      <4> QED
        BY <2>2, <4>1, <4>2, AgreedRateIsMin DEF Agreed
    <3> QED
      BY <3>1, <3>2
  <2> QED
    BY <2>1, <2>2, <2>3
<1>17. ASSUME UNCHANGED <<config, stage, outcome, cert, resp, upload>>,
              driver = "none" => driver' = driver, quic = "none" => quic' = quic
       PROVE  ConnectInv'
  BY <1>17 DEF Agreed
<1>18. ASSUME NEW u \in Uses, \/ Udp(u) \/ TcpConnect(u) \/ TcpMoves(u)
                             \/ TcpRefused(u) \/ UseDropped(u) \/ FillsWindow(u)
       PROVE  ConnectInv'
  BY <1>17, <1>18 DEF Udp, TcpConnect, TcpMoves, TcpStep, TcpLost,
                      TcpRefused, UseDropped, UseEnds, Kept, FillsWindow
<1>19. CASE DropClient
  BY <1>19 DEF DropClient, Agreed
<1>20. CASE LoopEnds \/ DriverEnds \/ Vanishes \/ ServerCloses \/ IdleTimeout
            \/ GrantsStream \/ GrantsWindow
  BY <1>17, <1>20 DEF LoopEnds, DriverEnds, Vanishes, ServerCloses,
                      IdleTimeout, ConnCloses, GrantsStream, GrantsWindow
<1> QED
  BY <1>1, <1>3, <1>4, <1>5, <1>6, <1>7, <1>8, <1>9, <1>10, <1>11, <1>12, <1>13, <1>14, <1>15,
     <1>16, <1>18, <1>19, <1>20 DEF ConnectNext, ConnectStep

LEMMA ConnectAlways == ConnectSpec => []ConnectInv
<1>1. ConnectInit => ConnectInv
  BY DEF ConnectInit, ConnectInv, OutcomeIsRight, Awaits, Exchange, Authenticating
<1> QED
  BY <1>1, ConnectInvKept, PTL DEF ConnectSpec

(* For every configuration: the authentication is sent only to a server    *)
(* that is trusted, a client comes only from one that answered 233 and     *)
(* from a configuration without mistakes, no trusted server is called      *)
(* untrusted, and a mistake gets no further than the check that finds it:  *)
(* nothing is bound with Error::Config or a panic, nothing is dialled with *)
(* a name or port quinn refuses, and nothing is requested with an auth     *)
(* string that makes no header.                                            *)
THEOREM ClientIsTrusted == ConnectSpec => []OutcomeIsRight
<1>1. ConnectInv => OutcomeIsRight
  BY DEF ConnectInv
<1> QED
  BY <1>1, ConnectAlways, PTL

(* For every tx_bps and every CC-RX header: the controller that connect()  *)
(* leaves behind sends at the minimum of both rates, or by BBR.            *)
THEOREM UploadIsAgreed == ConnectSpec => []AgreedUpload
<1>1. ConnectInv => AgreedUpload
  BY DEF ConnectInv, AgreedUpload, Agreed, UsesBbr
<1> QED
  BY <1>1, ConnectAlways, PTL

-----------------------------------------------------------------------------
(* The socket.                                                             *)

(* The floor of the interval holds for every configuration: 0 stands for   *)
(* the default, which is above it, and a maximum below the minimum is      *)
(* lifted to it.                                                           *)
LEMMA IntervalIsFloored ==
    ASSUME NEW c \in HopConfigs
    PROVE  /\ IntervalMin(c) \in Nat /\ IntervalMax(c) \in Nat
           /\ IntervalMin(c) >= MinHopInterval
           /\ IntervalMax(c) >= IntervalMin(c)
<1>1. /\ DefaultHopInterval \in Nat /\ MinHopInterval \in Nat /\ MinHopInterval <= DefaultHopInterval
      /\ c.interval_min \in Nat /\ c.interval_max \in Nat
  BY PortsAssumption, SocketAssumption
<1>2. ASSUME NEW a \in Nat, NEW b \in Nat
      PROVE  Max({a, b}) \in Nat /\ Max({a, b}) >= a /\ Max({a, b}) >= b
  <2>1. \E x \in {a, b} : \A y \in {a, b} : x >= y
    OBVIOUS
  <2>2. Max({a, b}) \in {a, b} /\ \A y \in {a, b} : Max({a, b}) >= y
    BY <2>1, Zenon DEF Max
  <2>3. QED
    BY <2>2
<1>3. IntervalMin(c) \in Nat /\ IntervalMin(c) >= MinHopInterval
  BY <1>1, <1>2 DEF IntervalMin
<1>4. QED
  BY <1>1, <1>2, <1>3 DEF IntervalMax

(* A task that is awake has slept the interval it drew. *)
HopInv ==
    /\ hop_config \in HopConfigs
    /\ hop_task \in {"sleeping", "woken"} => wait \in Waits
    /\ hop_task = "woken" => slept = wait

LEMMA HopAlways == SocketSpec => []HopInv
<1>1. SocketInit => HopInv
  BY DEF SocketInit, HopInv
<1>2. HopInv /\ [SocketNext]_socket_vars => HopInv'
  <2> SUFFICES ASSUME HopInv, [SocketNext]_socket_vars PROVE HopInv'
    OBVIOUS
  <2> USE DEF HopInv
  <2>1. ASSUME hop_config' = hop_config PROVE Waits' = Waits
    BY <2>1 DEF Waits
  <2>2. ASSUME UNCHANGED <<hop_config, hop_task, wait, slept>> PROVE HopInv'
    BY <2>1, <2>2
  <2>3. CASE Second
    BY <2>1, <2>3 DEF Second, setup
  <2>4. CASE Wakes
    BY <2>1, <2>4 DEF Wakes, setup
  <2>5. CASE Hop
    BY <2>1, <2>5 DEF Hop, setup
  <2>6. CASE TaskEnds
    BY <2>1, <2>6 DEF TaskEnds, setup
  <2>7. CASE DropSocket
    BY <2>2, <2>7 DEF DropSocket, setup
  <2>8. CASE Arrive \/ Driver
    BY <2>2, <2>8, Zenon DEF Arrive, Driver, PollBegins, PollReady,
       PollNothing, PollPending, Woken, setup, hop
  <2>9. ASSUME NEW p, NEW n, TrySend(p, n) PROVE HopInv'
    BY <2>2, <2>9, Zenon DEF TrySend, setup, hop
  <2>10. CASE UNCHANGED socket_vars
    BY <2>2, <2>10 DEF socket_vars, setup, hop
  <2>11. QED
    BY <2>3, <2>4, <2>5, <2>6, <2>7, <2>8, <2>9, <2>10, Zenon DEF SocketNext, HopTask
<1>3. QED
  BY <1>1, <1>2, PTL DEF SocketSpec

(* The destination never moves sooner than MIN_HOP_INTERVAL_SECS after the *)
(* hop before, whatever intervals are configured (socket.rs, connect.rs).  *)
THEOREM HopsAreApart == SocketSpec => NeverHopsFast
<1>1. HopInv /\ [SocketNext]_socket_vars
        => [(hop_index' # hop_index) => slept >= MinHopInterval]_socket_vars
  <2> SUFFICES ASSUME HopInv, SocketNext, hop_index' # hop_index PROVE slept >= MinHopInterval
    OBVIOUS
  <2>1. Hop
    BY Zenon DEF SocketNext, HopTask, Second, Wakes, TaskEnds, DropSocket,
       Arrive, Driver, PollBegins, PollReady, PollNothing,
       PollPending, Woken, TrySend, hop
  <2>2. slept \in IntervalMin(hop_config) .. IntervalMax(hop_config) /\ hop_config \in HopConfigs
    BY <2>1 DEF Hop, HopInv, Waits
  <2>3. MinHopInterval \in Nat
    BY PortsAssumption
  <2>4. QED
    BY <2>2, <2>3, IntervalIsFloored
<1>2. QED
  BY <1>1, HopAlways, PTL DEF SocketSpec, NeverHopsFast

LEMMA XorTwice ==
    ASSUME NEW a \in {0, 1}, NEW b \in {0, 1}
    PROVE  Xor(a, b) \in {0, 1} /\ Xor(Xor(a, b), b) = a
<1>1. (0 + 0) % 2 = 0 /\ (0 + 1) % 2 = 1 /\ (1 + 0) % 2 = 1 /\ (1 + 1) % 2 = 0
  OBVIOUS
<1>2. CASE a = 0 /\ b = 0
  BY <1>1, <1>2, Zenon DEF Xor
<1>3. CASE a = 0 /\ b = 1
  BY <1>1, <1>3, Zenon DEF Xor
<1>4. CASE a = 1 /\ b = 0
  BY <1>1, <1>4, Zenon DEF Xor
<1>5. CASE a = 1 /\ b = 1
  BY <1>1, <1>5, Zenon DEF Xor
<1>6. QED
  BY <1>2, <1>3, <1>4, <1>5, Zenon

(* What concatenation returns. *)
LEMMA Joined ==
    ASSUME NEW S, NEW s \in Seq(S), NEW t \in Seq(S)
    PROVE  /\ s \o t \in Seq(S)
           /\ Len(s \o t) = Len(s) + Len(t)
           /\ \A i \in 1 .. Len(s) + Len(t) : (s \o t)[i] = IF i <= Len(s) THEN s[i] ELSE t[i - Len(s)]
  OBVIOUS

LEMMA Halves ==
    ASSUME NEW S, NEW s \in Seq(S), NEW t \in Seq(S)
    PROVE  SubSeq(s \o t, 1, Len(s)) = s /\ SubSeq(s \o t, Len(s) + 1, Len(s \o t)) = t
<1>1. /\ Len(s) \in Nat /\ Len(t) \in Nat
      /\ s \o t \in Seq(S) /\ Len(s \o t) = Len(s) + Len(t)
  OBVIOUS
<1>2. SubSeq(s \o t, 1, Len(s)) = s
  BY <1>1
<1>3. SubSeq(s \o t, Len(s) + 1, Len(s \o t)) = t
  BY <1>1
<1>4. QED
  BY <1>2, <1>3, Zenon

(* deobfuscate undoes obfuscate: a packet that is not empty comes back as  *)
(* it was, under every pre-shared key, salt and length of the two buffers  *)
(* that hold it (transport/obfs.rs).                                       *)
THEOREM UnmaskedAgain ==
    ASSUME SaltLen \in Nat, KeyLen \in Nat \ {0},
           NEW salt \in [1 .. SaltLen -> {0, 1}], Key(salt) \in [1 .. KeyLen -> {0, 1}],
           NEW p \in Seq({0, 1}), p # << >>,
           NEW out \in Nat, out >= Len(p) + SaltLen, NEW back \in Nat, back >= Len(p)
    PROVE  Deobfuscate(Obfuscate(p, salt, out), back) = p
<1> DEFINE bit(i) == Key(salt)[((i - 1) % KeyLen) + 1]
           M == Masked(p, salt)
           w == salt \o M
<1>1. ASSUME NEW i \in Nat, i >= 1 PROVE bit(i) \in {0, 1}
  <2>1. (i - 1) % KeyLen \in 0 .. KeyLen - 1
    BY <1>1
  <2>2. QED
    BY <2>1
<1>3. M = [i \in 1 .. Len(p) |-> Xor(p[i], bit(i))]
  BY Zenon DEF Masked
<1> HIDE DEF bit, M
<1>4. Len(p) \in Nat \ {0} /\ \A i \in 1 .. Len(p) : p[i] \in {0, 1}
  OBVIOUS
<1>5. M \in Seq({0, 1}) /\ Len(M) = Len(p) /\ \A i \in 1 .. Len(p) : M[i] = Xor(p[i], bit(i))
  <2>1. \A i \in 1 .. Len(p) : Xor(p[i], bit(i)) \in {0, 1}
    <3> SUFFICES ASSUME NEW i \in 1 .. Len(p) PROVE Xor(p[i], bit(i)) \in {0, 1}
      OBVIOUS
    <3>1. p[i] \in {0, 1} /\ bit(i) \in {0, 1}
      BY <1>1, <1>4
    <3>2. QED
      BY <3>1, XorTwice, Zenon
  <2>2. QED
    BY <1>3, <1>4, <2>1
<1>6. salt \in Seq({0, 1}) /\ Len(salt) = SaltLen
  OBVIOUS
<1>7. /\ w \in Seq({0, 1}) /\ Len(w) = SaltLen + Len(p)
      /\ SubSeq(w, 1, SaltLen) = salt /\ SubSeq(w, SaltLen + 1, Len(w)) = M
  <2>1. w \in Seq({0, 1}) /\ Len(w) = Len(salt) + Len(M)
    <3>1. salt \in Seq({0, 1}) /\ M \in Seq({0, 1})
      BY <1>5, <1>6, Zenon
    <3> HIDE DEF M
    <3>2. QED
      BY <3>1, Joined, Zenon
  <2>2. SubSeq(w, 1, Len(salt)) = salt /\ SubSeq(w, Len(salt) + 1, Len(w)) = M
    BY <1>5, <1>6, Halves
  <2> HIDE DEF w
  <2>3. QED
    BY <1>5, <1>6, <2>1, <2>2
<1>8. Obfuscate(p, salt, out) = w
  BY <1>4 DEF Obfuscate, M
<1> HIDE DEF w
<1>9. Deobfuscate(w, back) = Masked(M, salt)
  <2>1. ~(Len(w) <= SaltLen) /\ ~(back < Len(p))
    BY <1>4, <1>7
  <2>2. QED
    BY <1>5, <1>7, <2>1, Zenon DEF Deobfuscate
<1>10. Masked(M, salt) = [i \in 1 .. Len(p) |-> Xor(M[i], bit(i))]
  BY <1>5, Zenon DEF Masked, bit
<1>11. ASSUME NEW i \in 1 .. Len(p) PROVE Xor(M[i], bit(i)) = p[i]
  <2>1. bit(i) \in {0, 1} /\ p[i] \in {0, 1} /\ M[i] = Xor(p[i], bit(i))
    BY <1>1, <1>4, <1>5
  <2>2. QED
    BY <2>1, XorTwice, Zenon
<1>12. [i \in 1 .. Len(p) |-> Xor(M[i], bit(i))] = p
  BY <1>4, <1>11
<1>13. QED
  BY <1>8, <1>9, <1>10, <1>12, Zenon
=============================================================================
