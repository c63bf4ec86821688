-------------------------------- MODULE Ports --------------------------------
(***************************************************************************)
(* From the configuration to the endpoint: parse_ports (config.rs) and     *)
(* resolve_endpoint (connect.rs). A port specification is the list of its  *)
(* comma-separated parts, each a number, a range or something that is      *)
(* neither; the server has one IP, so that an address is its port.         *)
(***************************************************************************)
EXTENDS Naturals, Sequences, FiniteSets, FiniteSetsExt, TLC, Vectors

CONSTANTS
    MaxPort,             \* u16::MAX
    DefaultHopInterval,  \* DEFAULT_HOP_INTERVAL_SECS (30)
    MinHopInterval       \* MIN_HOP_INTERVAL_SECS (5)

ASSUME PortsAssumption ==
    /\ {MaxPort, DefaultHopInterval, MinHopInterval} \subseteq Nat
    /\ MinHopInterval <= DefaultHopInterval

NoPorts  == [all |-> FALSE, parts |-> << >>]      \* the empty string
AllPorts == [all |-> TRUE,  parts |-> << >>]      \* "all" or "*"
PortList(parts) == [all |-> FALSE, parts |-> parts]

OnePort(n)      == [kind |-> "port", start |-> n, end |-> n]
PortRange(a, b) == [kind |-> "range", start |-> a, end |-> b]
NotAPort        == [kind |-> "malformed", start |-> 0, end |-> 0]

(* str::parse::<u16> succeeds on both numbers of part p. *)
Parses(p) == p.kind # "malformed" /\ p.start <= MaxPort /\ p.end <= MaxPort

Interval(a, b) == [i \in 1 .. b - a + 1 |-> a + i - 1]

PartPorts_bug_NotSwapped(p) == Interval(p.start, p.end)

(* A reversed range is swapped. *)
PartPorts(p) ==
    IF p.start > p.end THEN Interval(p.end, p.start) ELSE Interval(p.start, p.end)

(* The ports in order, or << >> for a malformed specification; the empty   *)
(* string has one part, which is no number.                                *)
ParsePorts(spec) ==
    IF spec.all THEN Interval(0, MaxPort)
    ELSE IF spec = NoPorts \/ \E i \in DOMAIN spec.parts : ~Parses(spec.parts[i]) THEN << >>
    ELSE Dedup(SortSeq(Concat([i \in DOMAIN spec.parts |-> PartPorts(spec.parts[i])]), <))

IntervalMin_bug_NoFloor(c) ==
    IF c.interval_min = 0 THEN DefaultHopInterval ELSE c.interval_min

(* The hop interval of configuration c, in seconds. *)
IntervalMin(c) ==
    IF c.interval_min = 0 THEN DefaultHopInterval ELSE Max({c.interval_min, MinHopInterval})

IntervalMax(c) ==
    IF c.interval_max = 0 THEN IntervalMin(c) ELSE Max({c.interval_max, IntervalMin(c)})

(* hop_ports, or else what follows the last colon of server_addr. *)
PortSpec(c) == IF c.hop_ports # NoPorts THEN c.hop_ports ELSE c.server_port

(* resolve_endpoint fails, or quinn dials the first port and the socket    *)
(* hops over all of them if there are several.                             *)
Resolves(c) == ParsePorts(PortSpec(c)) # << >>

Canonical(c) == Head(ParsePorts(PortSpec(c)))

HopAddrs(c) == IF Len(ParsePorts(PortSpec(c))) <= 1 THEN << >> ELSE ParsePorts(PortSpec(c))
=============================================================================
