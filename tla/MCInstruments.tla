----------------------------- MODULE MCInstruments -----------------------------
(* Parts that share nothing: the engine, the collectors, the input devices, the   *)
(* configuration, the vendor database, the wizard's scans and the pooled jobs.  A  *)
(* behaviour is one of any of them, with the others at rest.                     *)
EXTENDS ProbeEngine, CollectorCases, InputDevices, ConfigStore, OuiDatabase,
        UpDownScans, MCScanJobs

VARIABLE part

-------------------------------------------------------------------------------
(* Devices and lldpctl's entries.                                              *)

Tlv(t, l, x) == [type |-> t, len |-> l, text |-> x, cut |-> FALSE]
Device(mac, name, board, port, ip) ==
    <<Tlv(1, 6, mac), Tlv(5, 1, name), Tlv(12, 1, board), Tlv(13, 1, port),
      Tlv(17, 4, ip)>>

Crs == Device("m1", "sw1", "CRS", "bridge", "ip1")
Router == Device("m2", "r2", "hap", "ether1", "ip2")
Crs4 == Device("m4", "sw4", "CRS", "sfp1", "ip4")
NoMac == <<Tlv(5, 1, "noMac"), Tlv(1, 3, "m5"), Tlv(16, 1, "ether2")>>
Clone == Device("m7", "r7", "hap", "ether3", "ip2")
TooShort == <<Tlv(5, 4, "tiny")>>
CutShort == <<Tlv(8, 8, "hap"), [Tlv(5, 1, "cut") EXCEPT !.cut = TRUE]>>

Switch(interface, id, name, descr, port, vlan, age) ==
    [interface |-> interface, via |-> "LLDP",
     chassis |-> [id |-> id, name |-> name, descr |-> descr],
     port |-> [id |-> port, descr |-> "", ifname |-> "", local |-> "",
               vlan |-> vlan, ppvid |-> "20", ppvidEnabled |-> port = "p3"],
     vlan |-> "", age |-> age]

\* At A a switch that speaks LLDP only, at B one that speaks MNDP, and LLDP without
\* naming a port, with a router in the same LAN.
MCPlaces == {"A", "B"}
MCLldpOf ==
    [A |-> {<<>>, <<Switch("eth0", "m0", "sw0", "switch os", "p3", "10", 5)>>},
     B |-> {<<>>, <<Switch("eth0", "m1", "sw1", "", "", "", 3)>>}]
MCMndpOf == [A |-> {}, B |-> {Crs, Router}]

\* At B the router is the gateway, and its MAC is resolved or not.
Kernel(lladdr, state) ==
    [routes |-> <<[dst |-> "lan", gateway |-> ""], [dst |-> "default", gateway |-> "ip2"]>>,
     table |-> <<[dst |-> "ip2", lladdr |-> lladdr, state |-> state]>>]
MCIpOf ==
    [A |-> {NoAnswer.ip}, B |-> {NoAnswer.ip, Kernel("m2", "STALE"), Kernel("m1", "FAILED")}]

\* A switch, the same one twice and less well known, an empty entry, another port.
Entries ==
    {Switch("eth0", "m0", "sw0", "switch os", "p3", "", 9),
     Switch("eth0", "m1", "", "linux", "", "10", 5),
     Switch("eth0", "m1", "sw1", "switch os", "bridge", "", 5),
     Switch("eth0", "", "", "", "", "", 7),
     Switch("wlan0", "m3", "pc", "linux", "ether1", "", 7)}
MCAnswers == UNION {[1..n -> Entries] : n \in 0..2}
MCReplies == {Crs, Router, Crs4, Clone, NoMac, TooShort, CutShort}

\* No gateway; its address alone, of the router and of a switch; with its MAC, that of a
\* device that answers or of none.
MCGateways ==
    {[mac |-> "", ip |-> ""], [mac |-> "", ip |-> "ip2"], [mac |-> "", ip |-> "ip1"],
     [mac |-> "m2", ip |-> "ip2"], [mac |-> "m9", ip |-> "ip4"]}

-------------------------------------------------------------------------------
(* The configuration, as the installed release has it, and one without a section. *)

Is(section, key, value) == [at |-> <<section, key>>, value |-> value]

MCTemplate ==
    <<Is("", "interface", "eth0"), Is("wifi_hotspot", "enabled", "true"),
      Is("ping", "packet_size", "56")>>
MCFiles == {MCTemplate, <<>>}
MCEdits ==
    {<<Is("web", "enabled", "true"), Is("ping", "packet_size", "9")>>,
     <<Is("ping", "count", "x")>>, <<Torn>>}

Posted(section, key, value) == [k \in {<<section, key>>} |-> value]
MCPosts ==
    {Posted("", "interface", "eth1"), Posted("wifi_hotspot", "enabled", "false"),
     Posted("ping", "count", "4"), Posted("ping", "count", "x"),
     Posted("wifi_hotspot", "password", "short")}

-------------------------------------------------------------------------------
(* Vendors: a prefix both of arp-scan's tables know, one the bundled table knows  *)
(* as well, and one that none knows.                                            *)

Oui(prefix, vendor) == [prefix |-> prefix, vendor |-> vendor, tab |-> TRUE]

MCOuiFiles ==
    <<<<Oui("p1", "v1"), [Oui("p3", "v1") EXCEPT !.tab = FALSE]>>,
      <<Oui("p1", "v2"), Oui("p2", "v1")>>>>
MCBundled == <<Oui("p2", "v2")>>
MCMacs == {"mac1", "mac2", "mac3", "short"}
MCPrefix == [mac1 |-> "p1", mac2 |-> "p2", mac3 |-> "p3", short |-> ""]

-------------------------------------------------------------------------------
(* Two devices, one of them with two addresses.                                 *)

MCHosts == {[ip |-> 1, mac |-> "d1"], [ip |-> 2, mac |-> "d2"], [ip |-> 3, mac |-> "d1"]}

-------------------------------------------------------------------------------
EngineAtRest == EngineInit /\ place = Unplugged /\ patient
CollectorsAtRest ==
    collected = [answer |-> <<>>, replies |-> <<>>, gateway |-> [mac |-> "", ip |-> ""]]
InputAtRest == InputInit /\ device = "edge" /\ steps = 4

ConfigAtRest == ConfigInit /\ file = <<>>
OuiAtRest == OuiInit /\ learnedFile = EmptyTable
ScansAtRest == ScansInit /\ plugged = {} /\ kernel = {} /\ flushing
JobsAtRest == JobsInit /\ asked = PortScan("custom", TRUE, <<80, 70000>>)

\* All at rest, but for the one that is not.
OthersRest(running) ==
    /\ running # "engine" => EngineAtRest
    /\ running # "collectors" => CollectorsAtRest
    /\ running # "input" => InputAtRest
    /\ running # "config" => ConfigAtRest
    /\ running # "oui" => OuiAtRest
    /\ running # "scans" => ScansAtRest
    /\ running # "jobs" => JobsAtRest

MCInit ==
    \/ part = "engine" /\ EngineInit /\ OthersRest("engine")
    \/ part = "collectors" /\ CasesInit /\ OthersRest("collectors")
    \/ part = "input" /\ InputInit /\ OthersRest("input")
    \/ part = "config" /\ ConfigInit /\ OthersRest("config")
    \/ part = "oui" /\ OuiInit /\ OthersRest("oui")
    \/ part = "scans" /\ ScansInit /\ OthersRest("scans")
    \/ part = "jobs" /\ JobsInit /\ OthersRest("jobs")

instruments == <<engineVars, collected, inputVars>>
stores == <<configVars, ouiVars>>
probes == <<scanVars, jobVars>>

MCNext ==
    /\ UNCHANGED part
    /\ \/ part = "engine" /\ EngineNext /\ UNCHANGED <<collected, inputVars, stores, probes>>
       \/ part = "input" /\ InputNext /\ UNCHANGED <<collected, engineVars, stores, probes>>
       \/ part = "config" /\ ConfigNext /\ UNCHANGED <<instruments, ouiVars, probes>>
       \/ part = "oui" /\ OuiNext /\ UNCHANGED <<instruments, configVars, probes>>
       \/ part = "scans" /\ ScansNext /\ UNCHANGED <<instruments, stores, jobVars>>
       \/ part = "jobs" /\ JobsNext /\ UNCHANGED <<instruments, stores, scanVars>>

MCSpec == MCInit /\ [][MCNext]_<<part, instruments, stores, probes>>

\* The variables of every part stay within their types.
TypeOK ==
    /\ EngineTypeOK /\ InputTypeOK /\ ConfigTypeOK
    /\ OuiTypeOK /\ ScansTypeOK /\ JobsTypeOK

===============================================================================
