-------------------------- MODULE MCObfsHopSocket --------------------------
(* Two ports reached by a reversed range, by overlapping parts and by a    *)
(* range in server_addr; a single port; specifications that do not parse.  *)
(* Salts are single bits, and the key is three bits that depend on them.   *)
EXTENDS ObfsHopSocket

Config(hop_ports, server_port, lo, hi) ==
    [hop_ports |-> hop_ports, server_port |-> server_port, interval_min |-> lo, interval_max |-> hi]

MCConfigs ==
    {Config(PortList(<<PortRange(3, 2), OnePort(2)>>), PortList(<<OnePort(1)>>), 1, 0),
     Config(NoPorts, PortList(<<PortRange(1, 2)>>), 0, 4),
     Config(NoPorts, PortList(<<OnePort(3)>>), 0, 0),
     Config(AllPorts, NoPorts, 3, 2),
     Config(NoPorts, NoPorts, 0, 0),
     Config(PortList(<<OnePort(2), NotAPort>>), PortList(<<OnePort(1)>>), 0, 0),
     Config(PortList(<<PortRange(2, 9)>>), PortList(<<OnePort(1)>>), 0, 0)}

(* One that hops and one that does not, for the receiving side. *)
MCReceiving ==
    {Config(PortList(<<OnePort(3), OnePort(1)>>), NoPorts, 2, 0),
     Config(NoPorts, PortList(<<OnePort(1)>>), 0, 0)}

MCAllConfigs == MCConfigs \cup MCReceiving

MCKey(salt) == IF salt = <<0>> THEN <<0, 1, 1>> ELSE <<1, 0, 1>>

MCSalts == {<<0>>, <<1>>}

(* One bit, a full buffer, and more than Scratch holds. *)
MCPackets == {<<1>>, <<0, 1, 0, 0>>, <<1, 1, 1, 1, 1, 1, 1>>}

MCOutgoing(c) == IF c \in MCReceiving THEN {} ELSE MCPackets

MCMaxArrivals(c) == IF c \in MCReceiving THEN 2 ELSE 0

MCRunts == {<< >>, <<1>>}
=============================================================================
