------------------------------ MODULE MCConnect ------------------------------
(* The client's life, over one configuration per choice connect makes. *)
EXTENDS Connect, TLC

MCPort(n) == PortList(<<OnePort(n)>>)

MCConfig ==
    [server_name |-> Absent, host |-> "host", hop_ports |-> NoPorts, server_port |-> MCPort(2),
     interval_min |-> 0, interval_max |-> 0, obfs |-> "none", auth |-> "text", tx_bps |-> 0, rx_bps |-> 5,
     insecure |-> FALSE, pin_sha256 |-> [shape |-> "empty", digest |-> Absent],
     ca_pem |-> [shape |-> "pem", roots |-> {}], fast_open |-> TRUE, max_idle |-> "finite"]

MCPin(shape) == [shape |-> shape, digest |-> "d1"]

MCTlsConfigs ==
    { [MCConfig EXCEPT !.insecure = i, !.pin_sha256 = p, !.ca_pem = ca, !.server_name = n] :
        i \in BOOLEAN, p \in {MCConfig.pin_sha256, MCPin("hex")},
        ca \in {MCConfig.ca_pem, [shape |-> "pem", roots |-> {"own"}]}, n \in {Absent, "other"} }

MCMistakes ==
    { [MCConfig EXCEPT !.obfs = "short"], [MCConfig EXCEPT !.pin_sha256 = MCPin("length")],
      [MCConfig EXCEPT !.pin_sha256 = MCPin("not_hex")], [MCConfig EXCEPT !.pin_sha256 = MCPin("cut")],
      [MCConfig EXCEPT !.ca_pem = [shape |-> "malformed", roots |-> {}]],
      [MCConfig EXCEPT !.max_idle = "huge"], [MCConfig EXCEPT !.host = "bad name"],
      [MCConfig EXCEPT !.server_port = NoPorts], [MCConfig EXCEPT !.hop_ports = AllPorts],
      [MCConfig EXCEPT !.auth = "no_header"] }

MCUploads ==
    { [MCConfig EXCEPT !.insecure = TRUE, !.obfs = "key", !.tx_bps = t, !.fast_open = f, !.max_idle = m] :
        t \in {0, 4}, f \in BOOLEAN, m \in {"finite", "zero"} }
    \cup { [MCConfig EXCEPT !.tx_bps = 4, !.rx_bps = 0] }

(* hop_ports beside a port of server_addr that is none of them. *)
MCHopPorts == [MCConfig EXCEPT !.hop_ports = PortList(<<OnePort(3), OnePort(1)>>)]

MCConfigs == MCTlsConfigs \cup MCMistakes \cup MCUploads \cup {MCHopPorts}

MCCert(d, i, n, s) == [digest |-> d, issuer |-> i, names |-> {n}, signed |-> s]

MCCerts ==
    { MCCert("d1", "system", "host", TRUE), MCCert("d1", "own", "other", TRUE),
      MCCert("d1", "nobody", "host", TRUE), MCCert("d2", "system", "host", TRUE),
      MCCert("d1", "system", "host", FALSE), MCCert("d2", "own", "host", TRUE) }

MCHeader(k, n) == [kind |-> k, rate |-> n]

MCResponses ==
    { [status |-> 233, udp |-> FALSE, cc_rx |-> h] :
        h \in {MCHeader("missing", 0), MCHeader("auto", 0), MCHeader("text", 0), MCHeader("number", 0),
               MCHeader("number", 3), MCHeader("number", 6), MCHeader("number", 8)} }
    \cup { [status |-> s, udp |-> TRUE, cc_rx |-> MCHeader("missing", 0)] : s \in {200, 233} }
=============================================================================
