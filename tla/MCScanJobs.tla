------------------------------- MODULE MCScanJobs -------------------------------
(* What may be asked of ScanJobs, and what its probes may hear: frames on the wire, *)
(* and replies of devices.                                                       *)
EXTENDS ScanJobs

-------------------------------------------------------------------------------
(* Pings of hosts with several targets each, scans, checks.                     *)

Ping(kind, custom, adhoc, hosts, gateway) ==
    [kind |-> kind, custom |-> custom, adhoc |-> adhoc, hosts |-> hosts, gateway |-> gateway]
PortScan(profile, text, ports) ==
    [kind |-> "ports", profile |-> profile, text |-> text, ports |-> ports]

MCScans ==
    {Ping("suite", <<"gateway", "8.8.8.8">>, "pc", <<"pc">>, "gw"),
     Ping("suite", <<"@gateway", "pc">>, "", <<>>, ""),
     Ping("hosts", <<>>, "", <<"gateway", "", "pc", "pc">>, ""),
     Ping("hosts", <<>>, "", <<"pc", "gateway", "nas", "cam">>, "pc"),
     PortScan("custom", TRUE, <<443, 22, 22, 53, 80>>),
     PortScan("custom", TRUE, <<80, 70000>>), PortScan("custom", FALSE, <<0, 80, 70000, 22>>),
     [kind |-> "checks", servers |-> <<"8.8.8.8", "", "8.8.8.8">>, gateway |-> "gw"]}
Output(ran, statistics, received, code, known) ==
    [ran |-> ran, statistics |-> statistics, received |-> received, code |-> code,
     known |-> known]
MCOutputs ==
    {Output("ended", TRUE, 3, 0, TRUE), Output("ended", TRUE, 1, 0, TRUE),
     Output("ended", FALSE, 0, 2, FALSE), Output("late", FALSE, 0, 0, TRUE)}

-------------------------------------------------------------------------------
(* Frames.                                                                      *)

Frame(dest, bytes, more) == [dest |-> dest, bytes |-> bytes, more |-> more, options |-> <<>>]

\* From the type on: an IP header of twenty bytes with its protocol, then what follows.
Ip(protocol, rest) ==
    <<8, 0, 69, 0, 1, 44, 0, 1, 0, 0, 64, protocol, 0, 0, 192, 168, 0, 9, 192, 168, 0, 1>> \o rest
Tag(type, vlan) == <<type \div 256, type % 256, 0, vlan>>

Opt(code, value) == [code |-> code, value |-> value, cut |-> FALSE]
Relay == <<Opt(1, "vlan1"), Opt(2, "switch1"), [Opt(1, "cut") EXCEPT !.cut = TRUE]>>
Options == <<Opt(0, ""), Opt(53, "OFFER"), Opt(82, Relay), Opt(255, ""), Opt(53, "NAK")>>
Dhcp(tag) ==
    [Frame("host", tag \o Ip(17, <<0, 67, 0, 68, 1, 24, 0, 0>>), 250) EXCEPT !.options = Options]

Rstp == Frame("stp", <<0, 38, 66, 66, 3, 0, 0, 2, 2>>, 30)
Bpdu == Frame("stp", <<0, 4, 1, 1, 1>>, 40)
Lacp == Frame("lacp", <<136, 9, 1, 1>>, 110)
LacpLlc == Frame("lacp", <<0, 6, 66, 66, 3, 1, 1, 0>>, 0)
LldpFrame == Frame("lldp", Tag(\h8100, 7) \o <<136, 204, 2, 7>>, 50)
QinQ == Frame("broadcast", Tag(\h88A8, 10) \o Tag(\h8100, 20) \o Ip(17, <<>>), 60)
Igmpv2 == Frame("multicast", Ip(2, <<22, 0>>), 30)
Fdp == Frame("host", <<32, 0, 1>>, 60)
Isl == Frame("isl", <<170, 170, 3, 0>>, 60)

-------------------------------------------------------------------------------
(* Answers, and the checks and discoveries that hear them.                      *)

Answer(type, name, target, port, hints) ==
    [type |-> type, name |-> name, target |-> target, port |-> port, hints |-> hints]
Camera1 ==
    <<Answer("SRV", "", "early", 1, {}), Answer("PTR", "onvif", "cam1", 0, {}),
      Answer("SRV", "cam1", "cam1.local", 80, {}), Answer("A", "cam1.local", "10.0.0.1", 0, {}),
      Answer("PTR", "rtsp", "cam1", 0, {}), Answer("SRV", "cam1", "cam1.local", 554, {}),
      Answer("PTR", "rtsp", "cam1", 0, {})>>
Disk == <<Answer("PTR", "smb", "disk", 0, {"nas"}), Answer("SRV", "disk", "disk.local", 445, {})>>

SsdpReply(usn, host, hints) == [http |-> TRUE, usn |-> usn, host |-> host, hints |-> hints]
SsdpReplies ==
    <<SsdpReply("u1", "10.0.0.1", {"camera"}), SsdpReply("u1", "10.0.0.1", {"camera"}),
      SsdpReply("u2", "10.0.0.3", {"nas"}), SsdpReply("", "10.0.0.4", {})>>

Check(l2, dhcp) ==
    [kind |-> "passive", host |-> "", gateway |-> "gw",
     traffic |-> [l2 |-> l2, dhcp |-> dhcp, l2_probe |-> <<Fdp, Lacp, Fdp>>,
                  snmp |-> <<"timeout", "empty", "switch os", "error">>,
                  mdns |-> <<Camera1, Disk>>, ssdp |-> SsdpReplies]]
PassiveChecks ==
    {Check(<<Rstp, Lacp, Bpdu, LldpFrame, Isl>>, <<>>),
     Check(<<Igmpv2, QinQ, LacpLlc, Rstp, QinQ>>, <<Dhcp(<<>>)>>)}

Reply(from, ip, mac, serial, name, model) ==
    [valid |-> TRUE, from |-> from, ip |-> ip, mac |-> mac, serial |-> serial, name |-> name,
     model |-> model, url |-> "", port |-> 8888]
OnPort(port, reply) == [reply EXCEPT !.port = port]
NotADevice == [Reply("x", "", "", "", "", "") EXCEPT !.valid = FALSE]

Cameras ==
    [kind |-> "cameras",
     traffic |->
        [onvif |-> <<[Reply("c1", "", "", "", "", "") EXCEPT !.url = "http://c1"],
                     Reply("c2", "", "", "", "", ""), Reply("c2", "", "", "", "", "")>>,
         sadp |-> <<Reply("c3", "10.0.0.3", "m3", "s3", "", "DS"), NotADevice,
                    Reply("c4", "10.0.0.3", "", "", "", "DS")>>,
         dahua |-> <<Reply("c5", "", "m5", "s5", "", "IPC"), Reply("c5", "", "m5", "", "", "IPC"),
                     Reply("c6", "", "m6", "", "", "IPC")>>,
         mdns |-> <<Camera1, Disk>>, ssdp |-> SsdpReplies]]

Storage ==
    [kind |-> "nas",
     traffic |->
        [Synology |-> <<Reply("n1", "", "", "s1", "disk", ""), Reply("n1", "", "", "s1", "disk", "")>>,
         QNAP |-> <<Reply("n2", "n3", "", "s2", "disk", "")>>,
         ASUSTOR |-> <<Reply("n4", "", "", "", "as", ""), OnPort(8889, Reply("n4", "", "", "", "as", "")),
                       OnPort(8889, Reply("n5", "", "", "s5", "as", ""))>>,
         mdns |-> <<Disk, Disk>>, ssdp |-> SsdpReplies]
        @@ [p \in {"Netgear_ReadyNAS", "WS_Discovery"} |-> <<Reply("n6", "", "", "", "", "m")>>]]

Printers ==
    [kind |-> "printers",
     traffic |->
        [epson |-> <<Reply("p1", "", "m1", "", "", "TM"), Reply("p1", "", "m1", "", "", "TM"),
                     Reply("p2", "", "", "", "", "TM"), Reply("p3", "", "", "", "", "")>>,
         zebra |-> <<Reply("p4", "", "", "", "ZBR1", "ZD"), Reply("p5", "", "", "", "", "ZD"),
                     Reply("p6", "", "", "", "", "ZD")>>]]

Neighbor(ip, mac, state, ewon) ==
    Reply(ip, ip, mac, "", "", "") @@ [state |-> state, ewon |-> ewon]

Machines ==
    [kind |-> "industrial",
     traffic |->
        [p \in {"weintek_60000"} |->
            <<Reply("w1", "", "", "", "MT8071", ""), Reply("w2", "w3", "mw", "", "cMT", "")>>]
        @@ [p \in {"weintek_10275"} |-> <<Reply("w1", "", "", "", "MT8071", "")>>]
        @@ [p \in {"weintek_20249"} |-> <<Reply("w3", "", "mw", "", "", "")>>]
        @@ [p \in {"ewon_1507"} |->
               <<Reply("g1", "", "me", "s1", "", "Cosy"), Reply("g1", "", "", "", "14.6", ""),
                 Reply("g1", "", "me", "", "14.6", "")>>]
        @@ [p \in {"ewon_1234", "ewon_4242"} |-> <<Reply("g1", "", "me", "", "", "Cosy")>>]
        @@ [p \in {"neighbors"} |->
               <<Neighbor("g1", "me", "STALE", TRUE), Neighbor("g2", "mf", "REACHABLE", TRUE),
                 Neighbor("w1", "mx", "REACHABLE", FALSE), Neighbor("g3", "mg", "FAILED", TRUE)>>]]

MCRequests == MCScans \cup PassiveChecks \cup {Cameras, Storage, Printers, Machines}

===============================================================================
