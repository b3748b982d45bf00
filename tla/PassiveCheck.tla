------------------------------ MODULE PassiveCheck ------------------------------
(* What the six probes of a passive check make of what they hear                  *)
(* (ndp/discovery/passive_check.py, dhcp_option82.py, ethertype_probe.py, mdns.py, *)
(* ssdp.py, snmp_probe.py), and the summary of passive_suite.py.                  *)
(*                                                                                *)
(* A frame has its destination, the bytes from offset 12 on as far as they matter, *)
(* the number of bytes after those, and the options of the DHCP message in it.    *)
EXTENDS Integers, Sequences, SequencesExt, FiniteSets

KeepNew(kept, x) == IF Contains(kept, x) THEN kept ELSE Append(kept, x)
Distinct(seq) ==
    LET kept[n \in 0..Len(seq)] == IF n = 0 THEN <<>> ELSE KeepNew(kept[n - 1], seq[n])
    IN kept[Len(seq)]

UpTo(n, seq) == SubSeq(seq, 1, IF Len(seq) < n THEN Len(seq) ELSE n)

\* A set in an order given as a set of pairs: at each place the element that has as
\* many before it.
InOrder(set, before) ==
    [i \in 1..Cardinality(set) |->
        CHOOSE k \in set : Cardinality({j \in set : <<j, k>> \in before}) = i - 1]

Ascending(set) == InOrder(set, {p \in set \X set : p[1] < p[2]})

\* The elements of a list at some of its places, in their order.
Picked(seq, places) == [i \in DOMAIN Ascending(places) |-> seq[Ascending(places)[i]]]

\* The lists with one element for each key, keys being those of the elements: the first
\* one, as a set of keys seen gives it, or the last one in the first one's place, as a
\* dictionary does.
FirstPlaces(keys) == {i \in DOMAIN keys : \A j \in 1..i - 1 : keys[j] # keys[i]}
LastPlace(keys, key) == CHOOSE i \in DOMAIN keys :
                            keys[i] = key /\ \A j \in DOMAIN keys : keys[j] = key => j <= i

KeepFirst(seq, keys) == Picked(seq, FirstPlaces(keys))
KeepLast(seq, keys) ==
    [k \in DOMAIN Picked(keys, FirstPlaces(keys)) |->
        seq[LastPlace(keys, Picked(keys, FirstPlaces(keys))[k])]]

Size(f) == 12 + Len(f.bytes) + f.more
Byte(f, n) == IF n - 11 \in DOMAIN f.bytes THEN f.bytes[n - 11] ELSE 0
Word(f, n) == 256 * Byte(f, n) + Byte(f, n + 1)

-------------------------------------------------------------------------------
(* Classification.                                                              *)

VlanTypes == {\h8100, \h88A8, \h9100}
Ipv4 == \h0800

Hit(protocol, variant, sample) ==
    [protocol |-> protocol, variant |-> variant, sample |-> sample]

Has(hits, protocol) == \E i \in DOMAIN hits : hits[i].protocol = protocol

\* The hit when the condition holds, and the one that is added when none has it yet;
\* the mutant adds it to those that have it.
When(cond, hit) == IF cond THEN <<hit>> ELSE <<>>
Also(hits, cond, hit) == hits \o When(cond, hit)
Unless(hits, cond, hit) == hits \o When(cond /\ ~Has(hits, hit.protocol), hit)

BridgeGroup(dest) == dest \in {"stp", "lacp", "lldp"}

\* The tags from offset 12 on, where they end, and the type found there.
VlanStack(f) ==
    LET Tag(k) == 12 + 4 * k + 4 <= Size(f) /\ Word(f, 12 + 4 * k) \in VlanTypes
        tags == CHOOSE n \in 0..Len(f.bytes) : ~Tag(n) /\ \A k \in 0..n - 1 : Tag(k)
        next == 12 + 4 * tags
    IN [vlans |-> [k \in 1..tags |-> Word(f, 10 + 4 * k) % 4096],
        next |-> next,
        inner |-> IF next + 4 <= Size(f) THEN Word(f, next) ELSE Word(f, 12)]

StpVariant(f, bpdu) ==
    LET version == Byte(f, bpdu + 2)
    IN IF Size(f) - bpdu < 6 \/ Word(f, bpdu) # 0 \/ version \in {0, 1} THEN "STP"
       ELSE IF version = 2 THEN "RSTP" ELSE "MSTP"

Classify8023(f) ==
    LET subtype == Byte(f, 17)
    IN IF 19 > Size(f) \/ Word(f, 14) # \h4242 \/ Byte(f, 16) # 3 THEN <<>>
       ELSE When(subtype = 1, Hit("LACP", "802.3ad", "subtype 1"))
            \o When(subtype \in {2, 3}, Hit("LACP", "slow-protocol", subtype))
            \o When(Size(f) >= 20 /\ Word(f, 17) = 0,
                    Hit("Spanning Tree", StpVariant(f, 17), Byte(f, 19)))

\* By destination, and by the first bytes of an encapsulation.
ByDestination(f) ==
    When(f.dest = "multicast", Hit("IGMP", "multicast-mac", f.dest))
    \o When(f.dest = "vtp", Hit("VTP", "Cisco", f.dest))
    \o When(f.dest = "isl", Hit("ISL", "Cisco", f.dest))
    \o When(Size(f) >= 16 /\ Word(f, 12) = \hAAAA /\ Word(f, 14) = \h0300,
            Hit("ISL", "encap", "header"))

Length8023(f) ==
    LET hits == Unless(ByDestination(f) \o Classify8023(f), BridgeGroup(f.dest),
                       Hit("Spanning Tree", "unknown", "bridge-group MAC"))
    IN Unless(hits, f.dest = "lacp", Hit("LACP", "802.3ad", "multicast"))

\* The header is looked for where the type is, two bytes before it begins.
Igmp(f, stack) ==
    LET header == (Byte(f, stack.next) % 16) * 4
    IN When(/\ stack.inner = Ipv4
            /\ stack.next + 20 <= Size(f)
            /\ stack.next + header + 1 <= Size(f)
            /\ Byte(f, stack.next + 9) = 2,
            Hit("IGMP", ToString(Byte(f, stack.next + header)), "IPv4 proto 2"))

Typed(f) ==
    LET stack == VlanStack(f)
        tagged == When(stack.vlans # <<>>,
                       Hit("VLAN", IF Word(f, 12) = \h88A8 THEN "Q-in-Q" ELSE "802.1Q",
                           stack.vlans))
        hits == Unless(ByDestination(f) \o tagged \o Igmp(f, stack), f.dest = "lacp",
                       Hit("LACP", "802.3ad", "destination"))
    IN Unless(hits, BridgeGroup(f.dest),
              Hit("Spanning Tree", "unknown", "bridge-group MAC"))

Classify(f) ==
    IF Size(f) < 14 THEN <<>>
    ELSE IF Word(f, 12) <= 1500 THEN Length8023(f) ELSE Typed(f)

-------------------------------------------------------------------------------
(* The sniffers: what each makes of the frames of its own listening time.       *)

Alphabetical == <<"IGMP", "ISL", "LACP", "Spanning Tree", "VLAN", "VTP">>
Rank(protocol) == CHOOSE i \in DOMAIN Alphabetical : Alphabetical[i] = protocol

\* One entry for each protocol and variant, at the first hit of them.
Like(hits, i) ==
    {j \in DOMAIN hits : hits[j].protocol = hits[i].protocol /\ hits[j].variant = hits[i].variant}
Entry(hits, i) ==
    [protocol |-> hits[i].protocol, variant |-> hits[i].variant,
     frames |-> Cardinality(Like(hits, i)),
     samples |-> LET like == Picked(hits, Like(hits, i))
                 IN UpTo(5, Distinct([k \in DOMAIN like |-> like[k].sample]))]

\* The most frequent first, then by protocol, as they were found otherwise.
Sooner(hits, i, j) ==
    LET a == Cardinality(Like(hits, i))
        b == Cardinality(Like(hits, j))
        c == Rank(hits[i].protocol)
        d == Rank(hits[j].protocol)
    IN a > b \/ (a = b /\ (c < d \/ (c = d /\ i < j)))

Hits(frames) == FlattenSeq([i \in DOMAIN frames |-> Classify(frames[i])])
FirstHits(hits) == {i \in DOMAIN hits : \A j \in Like(hits, i) : i <= j}
HitOrder(hits) ==
    InOrder(FirstHits(hits),
            {p \in FirstHits(hits) \X FirstHits(hits) : Sooner(hits, p[1], p[2])})

SniffPassive(frames) ==
    [k \in DOMAIN HitOrder(Hits(frames)) |-> Entry(Hits(frames), HitOrder(Hits(frames))[k])]

EtherTypes == <<\h2000, \h88D9, \hEEEE>>

OfType(frames, type) ==
    {i \in DOMAIN frames : Size(frames[i]) >= 14 /\ Word(frames[i], 12) = type}
ProbeL2(frames) ==
    Picked([k \in DOMAIN EtherTypes |->
               [type |-> EtherTypes[k], frames |-> Cardinality(OfType(frames, EtherTypes[k]))]],
           {k \in DOMAIN EtherTypes : OfType(frames, EtherTypes[k]) # {}})

-------------------------------------------------------------------------------
(* DHCP option 82.                                                              *)

\* Options, or the parts of one, up to the end or to one that is cut off.
UpToCut(items, ends, pads) ==
    LET Stops(i) == items[i].code \in ends \/ items[i].cut
        n == CHOOSE k \in 0..Len(items) :
                 /\ k = Len(items) \/ Stops(k + 1)
                 /\ \A i \in 1..k : ~Stops(i)
    IN SelectSeq(SubSeq(items, 1, n), LAMBDA item : item.code \notin pads)

\* The value of a code, the last as a dictionary keeps it; none is <<>>.
LastValue(items, code) ==
    LET given == SelectSeq(items, LAMBDA item : item.code = code)
    IN IF given = <<>> THEN <<>> ELSE <<given[Len(given)].value>>

ParseOption82(parts) ==
    LET whole == UpToCut(parts, {}, {})
    IN [circuit |-> LastValue(whole, 1), remote |-> LastValue(whole, 2)]

\* One sample, or none without option 82.
ParseDhcpPacket(options) ==
    LET whole == UpToCut(options, {255}, {0})
        relay == LastValue(whole, 82)
    IN [i \in DOMAIN relay |->
           [message |-> LastValue(whole, 53), parts |-> ParseOption82(relay[i])]]

\* The options of a DHCP message, if the frame is taken for one and long enough to have
\* any: those behind the cookie.  The IP header is looked for where the type is, two
\* bytes before it begins.
ExtractUdpPayload(f) ==
    LET type == IF Word(f, 12) \in VlanTypes THEN 16 ELSE 12
        udp == type + (Byte(f, type) % 16) * 4
    IN IF /\ Size(f) >= type + 20
          /\ Word(f, type) = Ipv4
          /\ Byte(f, type + 9) = 17
          /\ udp + 8 <= Size(f)
          /\ {Word(f, udp), Word(f, udp + 2)} \cap {67, 68} # {}
          /\ Min({Size(f) - (udp + 8), Word(f, udp + 4) - 8}) >= 240
       THEN f.options ELSE <<>>

SniffOption82(frames) ==
    Distinct(FlattenSeq([i \in DOMAIN frames |->
                               ParseDhcpPacket(ExtractUdpPayload(frames[i]))]))

-------------------------------------------------------------------------------
(* Services.                                                                    *)

\* What follows a PTR record goes to the service named last, whomever it is of: of its
\* SRV records the last counts.
FollowingOf(packet, p, type) ==
    {j \in p + 1..Len(packet) :
        packet[j].type = type /\ \A q \in p + 1..j : packet[q].type # "PTR"}
ServiceOf(packet, p) ==
    LET srv == FollowingOf(packet, p, "SRV")
        as == Picked(packet, FollowingOf(packet, p, "A"))
    IN [name |-> packet[p].target, kind |-> packet[p].name, hints |-> packet[p].hints,
        host |-> IF srv = {} THEN "" ELSE packet[Max(srv)].target,
        port |-> IF srv = {} THEN 0 ELSE packet[Max(srv)].port,
        addresses |-> [k \in DOMAIN as |-> as[k].target]]

\* The first of each name and type in a packet; over packets all are kept.
ParseResponse(packet) ==
    LET ptr == Ascending({p \in DOMAIN packet : packet[p].type = "PTR"})
        services == [k \in DOMAIN ptr |-> ServiceOf(packet, ptr[k])]
    IN KeepFirst(services,
                 [k \in DOMAIN services |-> <<services[k].name, services[k].kind>>])

DiscoverMdns(packets) == FlattenSeq([i \in DOMAIN packets |-> ParseResponse(packets[i])])

DiscoverSsdp(replies) ==
    LET devices == Picked(replies, {i \in DOMAIN replies : replies[i].usn # "" /\ replies[i].http})
    IN KeepFirst(devices, [i \in DOMAIN devices |-> devices[i].usn])

-------------------------------------------------------------------------------
(* SNMP: the communities in turn, until one has an answer.                       *)

Communities == <<"public", "private", "ro", "snmp">>

\* The first text of an answer; the community comes before the description.
SnmpString(texts) == SelectSeq(texts, LAMBDA t : t # "")[1]

\* answers: for each community its description, "timeout", "error" or "empty".
ProbeSnmp(host, answers) ==
    LET Answered(i) == answers[i] \notin {"timeout", "error", "empty"}
        heard == {i \in DOMAIN answers : Answered(i)}
        first == CHOOSE i \in heard : \A j \in heard : i <= j
    IN IF host = "" THEN [available |-> FALSE, reachable |-> FALSE]
       ELSE IF heard = {} THEN [available |-> TRUE, reachable |-> FALSE]
       ELSE [available |-> TRUE, reachable |-> TRUE, community |-> Communities[first],
             descr |-> SnmpString(<<Communities[first], answers[first]>>)]

-------------------------------------------------------------------------------
(* The summary.                                                                 *)

Row(protocol, category, status, count) ==
    [protocol |-> protocol, category |-> category, status |-> status, count |-> count]
ServiceRow(protocol, category, things) ==
    Row(protocol, category, IF things = <<>> THEN "none" ELSE "ok", Len(things))

BuildSummary(l2, mdns, ssdp, probes, dhcp) ==
    [i \in DOMAIN l2 |-> Row(l2[i].protocol, "L2 broadcast", "detected", l2[i].frames)]
    \o [i \in DOMAIN probes |->
           Row(probes[i].type, "L2 ethertype", "detected", probes[i].frames)]
    \o <<ServiceRow("mDNS", "service discovery", mdns),
         ServiceRow("SSDP", "service discovery", ssdp),
         ServiceRow("DHCP Option 82", "DHCP", dhcp)>>

===============================================================================
