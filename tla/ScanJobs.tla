-------------------------------- MODULE ScanJobs --------------------------------
(* Jobs that a request gives to a pool of threads and reports on when all are     *)
(* done: the ping suite (ndp/ping/service.py, core/collectors/ping.py), the port  *)
(* scan (scan/ports.py, scan/profiles.py), the passive check (discovery/           *)
(* passive_suite.py); one after the other, the checks of scan/dns.py and the       *)
(* vendors' probes.  Jobs are taken in order and end in any order.                *)
EXTENDS VendorProbes

CONSTANTS
    Requests,       \* what may be asked for, see the operators below
    Outputs,        \* what ping may print: its return code, received packets, ...
    PingCount,      \* packets sent to each host
    OpenPorts,      \* ports that accept a connection
    Dig,            \* what dig does: "missing", "silent", or it "answers"
    PoolSize,       \* threads: at most 8 for pings, 12 for ports, 6 for the check
    ZebraNames,     \* host names of Zebra printers, which _HOSTNAME_HINT finds
    MaxMissed,      \* frames and replies that come before a probe listens
    MaxPorts        \* _MAX_CUSTOM_PORTS

ASSUME JobsAssumption ==
    /\ PingCount \in Nat \ {0} /\ PoolSize \in Nat \ {0} /\ MaxPorts \in Nat
    /\ MaxMissed \in Nat
    /\ Dig \in {"missing", "silent", "answers"}

ASSUME NamesAssumption == "" \notin ZebraNames

VARIABLES
    asked,      \* the request
    phase,      \* "idle", "running", "reported", "failed"
    todo,       \* jobs no thread has taken yet
    busy,       \* jobs that threads are at
    ended,      \* jobs with their results, in the order in which they ended
    report

jobVars == <<asked, phase, todo, busy, ended, report>>

-------------------------------------------------------------------------------
(* The targets of a ping.                                                       *)

Target(label, host, kind) == [label |-> label, host |-> host, kind |-> kind]

Builtin == <<Target("Google DNS", "8.8.8.8", "builtin"), Target("Cloudflare", "1.1.1.1", "builtin")>>

ResolveHost(host, gateway) == IF host \in {"gateway", "@gateway"} THEN gateway ELSE host

\* Those that have an address.
KeepNamed(kept, target) == IF target.host = "" THEN kept ELSE Append(kept, target)
Named(targets) ==
    LET kept[n \in 0..Len(targets)] ==
            IF n = 0 THEN <<>> ELSE KeepNamed(kept[n - 1], targets[n])
    IN kept[Len(targets)]

\* At most four of the configuration.
CustomTargets(custom, gateway) ==
    Named([i \in DOMAIN UpTo(4, custom) |->
              Target("Custom", ResolveHost(custom[i], gateway), "custom")])

AdhocTargets(adhoc) == IF adhoc = "" THEN <<>> ELSE <<Target("Adhoc", adhoc, "adhoc")>>

BuildPingTargets(r) == Builtin \o CustomTargets(r.custom, r.gateway) \o AdhocTargets(r.adhoc)

\* Hosts of the request, at most three; gateway is a name when there is none.
LiveTargets(hosts, gateway) ==
    Named([i \in DOMAIN UpTo(3, hosts) |->
              Target(i, IF ResolveHost(hosts[i], gateway) = "" THEN hosts[i]
                        ELSE ResolveHost(hosts[i], gateway), "live")])

Targets(r) ==
    CASE r.kind = "suite" -> BuildPingTargets(r) \o LiveTargets(r.hosts, r.gateway)
      [] r.kind = "hosts" -> LiveTargets(r.hosts, r.gateway)

-------------------------------------------------------------------------------
(* What ping says.                                                              *)

\* The loss ping prints, in ten-thousandths of a percent.
AllLost == 1000000
Printed(count, received) == (AllLost * (count - received) + count \div 2) \div count

\* int(round(count * (1 - loss / 100))).
Received(count, loss) == (count * (AllLost - loss) + AllLost \div 2) \div AllLost

\* Without the line of statistics all is lost.
Loss(count, output) ==
    IF output.statistics THEN Printed(count, output.received) ELSE AllLost

ParsePingOutput(count, output) ==
    LET loss == Loss(count, output)
        reachable == loss < AllLost /\ output.code = 0 /\ output.known
    IN [reachable |-> reachable, received |-> Received(count, loss),
        message |-> CASE ~output.known -> "unknown host"
                      [] output.known /\ reachable -> "ok"
                      [] output.known /\ ~reachable /\ loss >= AllLost -> "unreachable"
                      [] OTHER -> "loss"]

PingHost(count, output) ==
    IF output.ran = "ended" THEN ParsePingOutput(count, output)
    ELSE [reachable |-> FALSE, received |-> 0,
          message |-> IF output.ran = "late" THEN "timeout" ELSE "ping command not found"]

-------------------------------------------------------------------------------
(* Ports.                                                                       *)

StandardPorts ==
    <<21, 22, 23, 25, 53, 80, 110, 143, 135, 139, 443, 445, 161, 389, 636, 3389, 5900,
      8080, 8443>>
IndustrialPorts ==
    <<102, 502, 1883, 8883, 2222, 2404, 2455, 4840, 5006, 5007, 5094, 9600, 11740,
      20000, 34962, 34963, 34964, 44818, 47808>>
GatewayQuickPorts == <<53, 80, 443, 445>>

IsPort(n) == 1 <= n /\ n <= 65535

\* A text with a port that is none is refused; a list loses it.
Refused(r) == r.text /\ \E i \in DOMAIN r.ports : ~IsPort(r.ports[i])

ParseCustomPorts(r) ==
    UpTo(MaxPorts, Ascending({n \in {r.ports[i] : i \in DOMAIN r.ports} : IsPort(n)}))

ProfilePorts(r) ==
    CASE r.profile = "standard" -> StandardPorts
      [] r.profile = "industrial" -> IndustrialPorts
      [] r.profile = "custom" -> ParseCustomPorts(r)

ProbeTcpPort(port) == port \in OpenPorts

-------------------------------------------------------------------------------
(* DNS servers and the gateway.                                                 *)

CheckDnsServer ==
    LET open == ProbeTcpPort(53)
    IN [reachable |-> open, resolves |-> Dig = "answers",
        message |-> CASE Dig = "answers" -> "ok"
                      [] Dig = "missing" /\ open -> "port open, no dig"
                      [] Dig = "missing" /\ ~open -> "no dig"
                      [] OTHER -> "no answer"]

\* With one packet.
CheckGateway(output) ==
    [ping |-> PingHost(1, output),
     open |-> SelectSeq(GatewayQuickPorts, ProbeTcpPort)]

\* A server may be named twice, and is then asked twice.
Checks(r) ==
    Named([i \in DOMAIN r.servers |-> Target("DNS", r.servers[i], "server")])
    \o Named(<<Target("Gateway", r.gateway, "gateway")>>)

-------------------------------------------------------------------------------
(* The passive check and the vendors' probes: what is heard depends on when the  *)
(* probe begins to listen, and nothing is without the right to.                 *)

PassiveProbes == <<"l2", "dhcp", "snmp", "mdns", "ssdp", "l2_probe">>

Windows(seq) == {<<>>} \cup {SubSeq(seq, missed + 1, Len(seq)) : missed \in 0..MaxMissed}

PassiveOf(probe, heard) ==
    CASE probe = "l2" -> SniffPassive(heard)
      [] probe = "dhcp" -> SniffOption82(heard)
      [] probe = "l2_probe" -> ProbeL2(heard)
      [] probe = "mdns" -> DiscoverMdns(heard)
      [] probe = "ssdp" -> DiscoverSsdp(heard)

VendorKinds == {"cameras", "nas", "printers", "industrial"}

ProbesOf(kind) ==
    CASE kind = "passive" -> PassiveProbes
      [] kind = "cameras" -> CameraProbes
      [] kind = "nas" -> NasProbes
      [] kind = "printers" -> PrinterProbes
      [] kind = "industrial" -> WeintekProbes \o EwonProbes \o <<"neighbors">>

Devices(kind, probe, heard) ==
    CASE kind = "passive" -> PassiveOf(probe, heard)
      [] kind = "cameras" -> CamerasOf(probe, heard)
      [] kind = "nas" -> NasOf(probe, heard)
      [] kind = "printers" -> PrintersOf(probe, heard)
      [] kind = "industrial" -> IndustrialOf(probe, heard)

-------------------------------------------------------------------------------
(* The pool.                                                                    *)

Pings(r) == r.kind \in {"suite", "hosts"}
Probes(r) == r.kind \in VendorKinds \cup {"passive"}

\* Every host is pinged once, however many targets it has.
JobsOf(r) ==
    CASE Pings(r) -> Distinct([i \in DOMAIN Targets(r) |-> Targets(r)[i].host])
      [] r.kind = "ports" -> ProfilePorts(r)
      [] r.kind = "checks" -> Checks(r)
      [] Probes(r) -> ProbesOf(r.kind)

InTurn(r) == r.kind = "checks" \/ r.kind \in VendorKinds
Threads(r) == IF InTurn(r) THEN 1 ELSE PoolSize

\* Ports and hosts are lists of numbers and of names.
ASSUME RequestsAssumption ==
    \A r \in Requests :
        /\ r.kind \in {"suite", "hosts", "ports", "checks", "passive"} \cup VendorKinds
        /\ Pings(r) => r.custom \in Seq(STRING) /\ r.hosts \in Seq(STRING)
        /\ r.kind = "ports" =>
               /\ r.profile \in {"standard", "industrial", "custom"}
               /\ r.ports \in Seq(Int)
        /\ r.kind = "checks" => r.servers \in Seq(STRING)

\* What probes hear are lists, of frames of bytes, of packets, of replies that came from
\* somewhere, at one of ASUSTOR's ports to ASUSTOR's probe.  A Zebra printer says its
\* host name, wherever in the answer it is found, or its model.
IsHeard(probe, x) ==
    /\ probe \in {"l2", "dhcp", "l2_probe"} => x.bytes \in Seq(0..255) /\ x.more \in Nat
    /\ probe = "mdns" => x \in Seq(ToSet(x))
    /\ probe \notin {"l2", "dhcp", "l2_probe", "mdns", "ssdp", "neighbors"} => x.from # ""
    /\ probe = "ASUSTOR" => x.port \in AsustorPorts
    /\ probe = "zebra" =>
           /\ HostOf(probe, x) \notin ZebraNames
           /\ x.name \in ZebraNames \/ (x.name = "" /\ x.model \notin ZebraNames)
           /\ x.valid => x.name # "" \/ x.model # ""

ASSUME TrafficAssumption ==
    \A r \in Requests : Probes(r) =>
        \A probe \in ToSet(ProbesOf(r.kind)) \ {"snmp"} :
            /\ r.traffic[probe] \in Seq(ToSet(r.traffic[probe]))
            /\ \A x \in ToSet(r.traffic[probe]) : IsHeard(probe, x)

JobsInit ==
    /\ asked \in Requests
    /\ phase = "idle"
    /\ todo = <<>> /\ busy = {} /\ ended = <<>> /\ report = <<>>

\* A port scan without a port, or with one that is none, is refused.
Submit ==
    /\ phase = "idle"
    /\ asked.kind = "ports" => ~Refused(asked) /\ ProfilePorts(asked) # <<>>
    /\ phase' = "running"
    /\ todo' = JobsOf(asked)
    /\ UNCHANGED <<asked, busy, ended, report>>

Take ==
    /\ todo # <<>> /\ Cardinality(busy) < Threads(asked)
    /\ busy' = busy \cup {Head(todo)}
    /\ todo' = Tail(todo)
    /\ UNCHANGED <<asked, phase, ended, report>>

ResultsFor(job) ==
    CASE Pings(asked) -> {PingHost(PingCount, o) : o \in Outputs}
      [] asked.kind = "ports" -> {ProbeTcpPort(job)}
      [] asked.kind = "checks" /\ job.kind = "server" -> {CheckDnsServer}
      [] asked.kind = "checks" /\ job.kind = "gateway" -> 
             {CheckGateway(o) : o \in {o \in Outputs : o.received <= 1}}
      [] Probes(asked) /\ job # "snmp" ->
             {[heard |-> w, found |-> Devices(asked.kind, job, w)] :
                 w \in Windows(asked.traffic[job])}
      [] Probes(asked) /\ job = "snmp" ->
             {[heard |-> <<>>, found |-> ProbeSnmp(Otherwise(asked.host, asked.gateway),
                                                   asked.traffic[job])]}

EndJob ==
    /\ \E job \in busy :
           /\ busy' = busy \ {job}
           /\ \E result \in ResultsFor(job) :
                  ended' = Append(ended, [job |-> job, result |-> result])
    /\ UNCHANGED <<asked, phase, todo, report>>

\* A ping or a socket that cannot be started, `ip neigh` that ends with an error or too
\* late: nothing catches what they raise, and the request fails with all it has found.
\* What a pool is at runs to its end, for nobody.
Raising ==
    {job \in busy : ~Probes(asked) \/ (asked.kind = "industrial" /\ job = "neighbors")}
Fail ==
    /\ phase' = "failed"
    /\ todo' = <<>> /\ busy' = {}
    /\ UNCHANGED <<asked, ended, report>>
RaiseJob == Raising # {} /\ Fail

ResultOf(job) == ended[CHOOSE i \in DOMAIN ended : ended[i].job = job].result

\* The results of a ping by target; the mutant gives them out as they came.
AsTheyCame ==
    [i \in DOMAIN Targets(asked) |->
        [target |-> Targets(asked)[i],
         result |-> ended[IF i <= Len(ended) THEN i ELSE Len(ended)].result]]
ByTarget ==
    [i \in DOMAIN Targets(asked) |->
        [target |-> Targets(asked)[i], result |-> ResultOf(Targets(asked)[i].host)]]

\* What the probes have found, each in its place.
FoundBy(job) == ResultOf(job).found
FoundByAll(jobs) == FlattenSeq([i \in DOMAIN jobs |-> FoundBy(jobs[i])])

PassiveReport ==
    [l2 |-> FoundBy("l2"), dhcp |-> FoundBy("dhcp"), snmp |-> FoundBy("snmp"),
     mdns |-> FoundBy("mdns"), ssdp |-> FoundBy("ssdp"), l2_probes |-> FoundBy("l2_probe"),
     summary |-> BuildSummary(FoundBy("l2"), FoundBy("mdns"), FoundBy("ssdp"),
                              FoundBy("l2_probe"), FoundBy("dhcp"))]

DevicesFound ==
    CASE asked.kind = "cameras" -> DiscoverCameras(FoundByAll(CameraProbes))
      [] asked.kind = "nas" -> DiscoverNas(FoundByAll(NasProbes))
      [] asked.kind = "printers" -> DiscoverPrinters(FoundByAll(PrinterProbes))
      [] asked.kind = "industrial" ->
             DiscoverIndustrial(FoundByAll(WeintekProbes), FoundByAll(EwonProbes),
                                FoundBy("neighbors"))

\* entries.sort(key=port): those before the k-th are of lower ports, or came earlier.
Before(k) ==
    {j \in DOMAIN ended :
        ended[j].job < ended[k].job \/ (ended[j].job = ended[k].job /\ j < k)}
ByPort ==
    [i \in DOMAIN ended |->
        ended[CHOOSE k \in DOMAIN ended : Cardinality(Before(k)) = i - 1]]

Results ==
    CASE Pings(asked) -> ByTarget
      [] asked.kind = "ports" -> ByPort
      [] asked.kind = "checks" -> ended
      [] asked.kind = "passive" -> PassiveReport
      [] asked.kind \in VendorKinds -> DevicesFound

Report ==
    /\ phase = "running" /\ todo = <<>> /\ busy = {}
    /\ phase' = "reported"
    /\ report' = Results
    /\ UNCHANGED <<asked, todo, busy, ended>>

\* The kernel is asked again for the MAC address of every gateway that has not said it.
RaiseLookup ==
    /\ phase = "running" /\ todo = <<>> /\ busy = {}
    /\ asked.kind = "industrial"
    /\ \E d \in ToSet(EwonDevices(FoundByAll(EwonProbes), FoundBy("neighbors"))) : d.mac = ""
    /\ Fail

JobsNext == Submit \/ Take \/ EndJob \/ RaiseJob \/ RaiseLookup \/ Report

JobsSpec == JobsInit /\ [][JobsNext]_jobVars

-------------------------------------------------------------------------------
(* Properties.                                                                  *)

JobsTypeOK ==
    /\ asked \in Requests
    /\ phase \in {"idle", "running", "reported", "failed"}
    /\ Cardinality(busy) <= Threads(asked)
    /\ phase \in {"running", "reported"} =>
           Len(todo) + Cardinality(busy) + Len(ended) = Len(JobsOf(asked))

Once(jobs) == \A i, j \in DOMAIN jobs : jobs[i].job = jobs[j].job => i = j

PingsAreTrue ==
    /\ [i \in DOMAIN report |-> report[i].target] = Targets(asked)
    /\ \A i \in DOMAIN report : \A j \in DOMAIN ended :
           ended[j].job = report[i].target.host => report[i].result = ended[j].result
    /\ \A received \in 0..PingCount : Received(PingCount, Printed(PingCount, received)) = received

PortsAreTrue ==
    /\ \A i \in 1..Len(report) - 1 : report[i].job < report[i + 1].job
    /\ {report[i].job : i \in DOMAIN report} = ToSet(ProfilePorts(asked))
    /\ {report[i].job : i \in {k \in DOMAIN report : report[k].result}}
           = OpenPorts \cap ToSet(ProfilePorts(asked))
    /\ \A table \in {StandardPorts, IndustrialPorts, GatewayQuickPorts} :
           Distinct(table) = table

PoolIsTrue ==
    /\ IF asked.kind = "checks"
       THEN [i \in DOMAIN report |-> report[i].job] = Checks(asked)
       ELSE Once(ended)
    /\ Pings(asked) => PingsAreTrue
    /\ asked.kind = "ports" => PortsAreTrue

\* Frames with a VLAN tag, and those for a bridge group or with a BPDU.
IsTagged(f) == Size(f) >= 16 /\ Word(f, 12) \in VlanTypes
HoldsBpdu(f) ==
    /\ Size(f) >= 20 /\ Word(f, 12) <= 1500
    /\ Word(f, 14) = \h4242 /\ Byte(f, 16) = 3 /\ Word(f, 17) = 0
IsSpanning(f) == (Size(f) >= 14 /\ BridgeGroup(f.dest)) \/ HoldsBpdu(f)

\* The frames that the rows of a protocol count.
FramesOf(rows, protocol) ==
    LET sum[n \in 0..Len(rows)] ==
            IF n = 0 THEN 0
            ELSE sum[n - 1] + IF rows[n].protocol = protocol THEN rows[n].frames ELSE 0
    IN sum[Len(rows)]

\* Each frame counts once as a VLAN's and once as spanning tree's, if it is one; what
\* was heard most comes first, and nothing twice.
CheckIsTrue ==
    LET heard == ResultOf("l2").heard
    IN /\ FramesOf(report.l2, "VLAN") = Cardinality({i \in DOMAIN heard : IsTagged(heard[i])})
       /\ FramesOf(report.l2, "Spanning Tree")
              = Cardinality({i \in DOMAIN heard : IsSpanning(heard[i])})
       /\ \A i, j \in DOMAIN report.l2 : i < j =>
              /\ report.l2[i].frames >= report.l2[j].frames
              /\ report.l2[i].protocol = report.l2[j].protocol
                     => report.l2[i].variant # report.l2[j].variant
       /\ \A i \in DOMAIN report.summary :
              (report.summary[i].status = "none") = (report.summary[i].count = 0)

HasReplies(probe) == probe \notin {"mdns", "ssdp", "neighbors"}

\* What a reply says that tells its device from others; a Zebra printer's host name does.
Marks(probe, r) ==
    ({HostOf(probe, r), r.mac, r.serial, r.url}
        \cup IF probe = "zebra" THEN {r.name} ELSE {}) \ {""}

\* Zebra printers that say no host name are told from each other by their model alone.
OfOneModel(p, r, q, s) ==
    /\ p = "zebra" /\ q = "zebra"
    /\ r.name = "" /\ s.name = "" /\ r.model = s.model
SeemOne(p, r, q, s) == Marks(p, r) \cap Marks(q, s) # {} \/ OfOneModel(p, r, q, s)

HostsOf(devices) == {devices[i].host : i \in DOMAIN devices}

\* A device that answered is in the list, or one that seems to be the same.
IsListed(probe, r) ==
    \E k \in DOMAIN ended :
        /\ HasReplies(ended[k].job)
        /\ \E i \in DOMAIN ended[k].result.heard :
               LET other == ended[k].result.heard[i]
               IN /\ other.valid
                  /\ SeemOne(ended[k].job, other, probe, r)
                  /\ HostOf(ended[k].job, other) \in HostsOf(report)

\* There is one entry for a MAC address, with every field that an answer with it fills.
IsMerged(r, found) ==
    \E i \in DOMAIN found :
        /\ {j \in DOMAIN found : found[j].mac = r.mac} = {i}
        /\ \A f \in {"serial", "name", "model"} : r[f] # "" => found[i][f] # ""

\* Answers that seem to be one device's have one address.
Agree(probe, heard) ==
    /\ probe = "ssdp" =>
           \A i, j \in DOMAIN heard : heard[i].usn = heard[j].usn =>
               heard[i].host = heard[j].host /\ heard[i].hints = heard[j].hints
    /\ HasReplies(probe) =>
           \A i, j \in DOMAIN heard :
               /\ heard[i].valid /\ heard[j].valid
               /\ SeemOne(probe, heard[i], probe, heard[j])
               => HostOf(probe, heard[i]) = HostOf(probe, heard[j])

DevicesAreKept ==
    \A k \in DOMAIN ended :
        LET probe == ended[k].job
            heard == ended[k].result.heard
            found == ended[k].result.found
        IN /\ HasReplies(probe) =>
                  \A i \in DOMAIN heard : heard[i].valid => IsListed(probe, heard[i])
           /\ Contains(EwonProbes, probe) =>
                  \A i \in DOMAIN heard :
                      heard[i].valid /\ heard[i].mac # "" => IsMerged(heard[i], found)
           /\ probe # "neighbors" /\ Agree(probe, heard) =>
                  HostsOf(Devices(asked.kind, probe, Reverse(heard))) = HostsOf(found)

\* In whatever order the threads end: a ping's report has every target in its place
\* with the result of its own host, pinged once, and counts the packets ping has
\* counted; a scan's report has each port once, in order, and says which are open, and
\* no profile names a port twice; the checks are in the order of the servers
\* (service.py:111-134, collectors/ping.py:75-102, 182-205, ports.py:59-76, 107-129,
\* dns.py:169-177).
ReportsAreTrue == phase = "reported" => PoolIsTrue

\* A passive check counts a frame once for what it is.  Every device that answered has
\* the address of one that seems to be the same in the list, by MAC address, serial
\* number, address, URL or host name; of Zebra printers of one model that say no host
\* name one is listed (zebra_discovery.py:129).  Of what a port has heard, the answers
\* of a gateway that say its MAC address make one entry with all they say; the one on its
\* firmware, which does not, is an entry of its own (ewon.py:133).  In another order
\* answers that agree name the same devices
\* (passive_check.py:117-229, cameras.py:188-218, nas.py:401-438, printers.py:36-48,
\* weintek_hmi.py:309-336, ewon.py:137-160, 269-296).
FindingsAreTrue ==
    phase = "reported" =>
        /\ asked.kind = "passive" => CheckIsTrue
        /\ asked.kind \in VendorKinds => DevicesAreKept

\* A DHCP message with relay information that the check's probe has heard shows up
\* among its samples (protocols.py:109-115: "Sniff Relay Agent Information nei
\* pacchetti DHCP."; dhcp_option82.py:134-223).
RelayAgentIsDetected ==
    phase = "reported" /\ asked.kind = "passive" =>
        LET heard == ResultOf("dhcp").heard
        IN (\E i \in DOMAIN heard : ParseDhcpPacket(heard[i].options) # <<>>)
               => report.dhcp # <<>>

===============================================================================
