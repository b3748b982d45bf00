------------------------------ MODULE VendorProbes ------------------------------
(* The vendors' discovery protocols, one probe after the other, and the list that *)
(* is made of their answers: cameras (ndp/discovery/cameras.py, hikvision_sadp.py, *)
(* dahua_discover.py), storage (nas.py), printers (printers.py, epson_enpc.py,    *)
(* zebra_discovery.py), HMIs and gateways (weintek_hmi.py, ewon.py).              *)
(*                                                                                *)
(* A reply has the address it comes from and what it says of its device, "" where *)
(* it does not say; valid is FALSE when the probe's parser refuses it.            *)
EXTENDS PassiveCheck

Otherwise(a, b) == IF a = "" THEN b ELSE a

\* Only some protocols give an address and a serial number; storage has a name, its
\* address otherwise.  The source of a camera, a disk or a printer is its probe.
FromOnly == {"onvif", "QNAP", "WS_Discovery"}
NasProtocols == {"Synology", "QNAP", "ASUSTOR", "Netgear_ReadyNAS", "WS_Discovery"}

HostOf(source, r) == IF source \in FromOnly THEN r.from ELSE Otherwise(r.ip, r.from)

DeviceOf(source, r) ==
    [source |-> source, host |-> HostOf(source, r), mac |-> r.mac,
     serial |-> IF source \in {"QNAP", "WS_Discovery"} THEN "" ELSE r.serial,
     name |-> IF source \in NasProtocols THEN Otherwise(r.name, r.from) ELSE r.name,
     model |-> r.model, url |-> r.url]

Valid(replies) == Picked(replies, {i \in DOMAIN replies : replies[i].valid})
DevicesFrom(source, replies) ==
    [i \in DOMAIN Valid(replies) |-> DeviceOf(source, Valid(replies)[i])]

-------------------------------------------------------------------------------
(* Cameras.                                                                     *)

DiscoverOnvif(replies) ==
    LET devices == DevicesFrom("onvif", replies)
    IN KeepFirst(devices, [i \in DOMAIN devices |-> Otherwise(devices[i].url, devices[i].host)])

DiscoverSadp(replies) ==
    LET devices == DevicesFrom("sadp", replies)
    IN KeepFirst(devices, [i \in DOMAIN devices |-> Otherwise(devices[i].mac, devices[i].host)])

DahuaKey(d) == Otherwise(d.serial, Otherwise(d.mac, d.host))
DiscoverDahua(replies) ==
    LET devices == DevicesFrom("dahua", replies)
    IN KeepFirst(devices, [i \in DOMAIN devices |-> DahuaKey(devices[i])])

FromService(s) ==
    [source |-> "mdns", host |-> s.host, mac |-> "", serial |-> "",
     name |-> Otherwise(s.name, s.kind), model |-> "", url |-> ToString(s.port)]
FromSsdp(d) ==
    [source |-> "ssdp", host |-> d.host, mac |-> "", serial |-> "", name |-> d.usn,
     model |-> "", url |-> ""]

\* The devices that some of the services, or of the SSDP devices, are.
ServicesIn(packets, places) ==
    LET services == Picked(DiscoverMdns(packets), places)
    IN [i \in DOMAIN services |-> FromService(services[i])]
NotifiersIn(replies, places) ==
    LET devices == Picked(DiscoverSsdp(replies), places)
    IN [i \in DOMAIN devices |-> FromSsdp(devices[i])]

CameraFromMdns(s) ==
    \/ s.kind \in {"onvif", "rtsp", "axis-video"}
    \/ s.kind = "http" /\ "camera" \in s.hints
CameraFromSsdp(d) == "camera" \in d.hints

CamerasOf(probe, heard) ==
    CASE probe = "onvif" -> DiscoverOnvif(heard)
      [] probe = "sadp" -> DiscoverSadp(heard)
      [] probe = "dahua" -> DiscoverDahua(heard)
      [] probe = "mdns" ->
             ServicesIn(heard, {i \in DOMAIN DiscoverMdns(heard) :
                                   CameraFromMdns(DiscoverMdns(heard)[i])})
      [] probe = "ssdp" ->
             NotifiersIn(heard, {i \in DOMAIN DiscoverSsdp(heard) :
                                    CameraFromSsdp(DiscoverSsdp(heard)[i])})

CameraProbes == <<"onvif", "sadp", "dahua", "mdns", "ssdp">>

\* url is the port of a service.
CameraKey(d) ==
    <<d.source, d.host,
      CASE d.source = "onvif" -> d.url
        [] d.source = "sadp" -> d.model
        [] d.source = "dahua" -> Otherwise(d.serial, d.model)
        [] d.source \in {"mdns", "ssdp"} -> d.name,
      IF d.source = "mdns" THEN d.url ELSE "">>

DiscoverCameras(found) == KeepLast(found, [i \in DOMAIN found |-> CameraKey(found[i])])

-------------------------------------------------------------------------------
(* Network storage.                                                             *)

SerialOrName(d) == Otherwise(d.serial, d.name)
NasKey(d) == <<d.host, SerialOrName(d)>>

UdpBroadcastCollect(protocol, replies) ==
    LET devices == DevicesFrom(protocol, replies)
    IN KeepFirst(devices, [i \in DOMAIN devices |-> NasKey(devices[i])])

NasFromMdns(s) == "nas" \in s.hints \/ s.kind \in {"smb", "afp"}
NasFromSsdp(d) == "nas" \in d.hints

\* ASUSTOR has two ports, and a device may answer at both.
AsustorPorts == {8888, 8889}
AtPort(heard, port) ==
    UdpBroadcastCollect("ASUSTOR", Picked(heard, {i \in DOMAIN heard : heard[i].port = port}))
ProbeAsustor(heard) ==
    LET devices == AtPort(heard, 8888) \o AtPort(heard, 8889)
    IN KeepLast(devices, [i \in DOMAIN devices |-> NasKey(devices[i])])

NasOf(probe, heard) ==
    CASE probe \in {"Synology", "QNAP", "Netgear_ReadyNAS", "WS_Discovery"} ->
             UdpBroadcastCollect(probe, heard)
      [] probe = "ASUSTOR" -> ProbeAsustor(heard)
      [] probe = "mdns" ->
             ServicesIn(heard, {i \in DOMAIN DiscoverMdns(heard) :
                                   NasFromMdns(DiscoverMdns(heard)[i])})
      [] probe = "ssdp" ->
             NotifiersIn(heard, {i \in DOMAIN DiscoverSsdp(heard) :
                                    NasFromSsdp(DiscoverSsdp(heard)[i])})

NasProbes ==
    <<"Synology", "QNAP", "ASUSTOR", "Netgear_ReadyNAS", "WS_Discovery", "mdns", "ssdp">>

DiscoverNas(found) ==
    KeepLast(found, [i \in DOMAIN found |-> <<found[i].source, NasKey(found[i])>>])

-------------------------------------------------------------------------------
(* Printers; name is a Zebra printer's host name.                               *)

EpsonKey(d) == IF d.mac # "" THEN <<d.mac>> ELSE <<d.host, d.model>>
ZebraKey(d) == Otherwise(d.name, Otherwise(d.model, d.host))

PrintersOf(probe, heard) ==
    LET devices == DevicesFrom(probe, heard)
    IN KeepLast(devices,
                [i \in DOMAIN devices |-> IF probe = "epson" THEN EpsonKey(devices[i])
                                          ELSE ZebraKey(devices[i])])

PrinterProbes == <<"epson", "zebra">>

PrinterKey(d) ==
    <<d.source, d.model, Otherwise(IF d.source = "epson" THEN d.mac ELSE d.name, d.host)>>
DiscoverPrinters(found) == KeepLast(found, [i \in DOMAIN found |-> PrinterKey(found[i])])

-------------------------------------------------------------------------------
(* HMIs, and gateways, whose firmware, here their name, comes in an answer of its *)
(* own without the MAC address; entries of the kernel's neighbor table.         *)

MacOrHost(d) == Otherwise(d.mac, d.host)
KeysOf(devices) == [i \in DOMAIN devices |-> MacOrHost(devices[i])]

DiscoverWeintek(replies) ==
    LET devices == DevicesFrom("Weintek HMI Search", replies)
    IN KeepFirst(devices, KeysOf(devices))

\* Answers of one device are put together; what the first one says stays.
Said(partials, key, f) ==
    LET saying == {i \in DOMAIN partials : MacOrHost(partials[i]) = key /\ partials[i][f] # ""}
    IN IF saying = {} THEN "" ELSE partials[Min(saying)][f]
Merged(partials, d) ==
    [f \in DOMAIN d |->
        IF f \in {"source", "host"} THEN d[f] ELSE Said(partials, MacOrHost(d), f)]
MergeDevices(partials) ==
    LET firsts == KeepFirst(partials, KeysOf(partials))
    IN [i \in DOMAIN firsts |-> Merged(partials, firsts[i])]

IpconfCollect(replies) == MergeDevices(DevicesFrom("eWON IPCONF", replies))

Usable(entries) ==
    Picked(entries, {i \in DOMAIN entries :
                        entries[i].mac # "" /\ entries[i].state \notin {"FAILED", "INCOMPLETE"}})

\* Those whose MAC address has one of eWON's prefixes.
OfEwon(entries) == Picked(entries, {i \in DOMAIN entries : entries[i].ewon})
EwonFromOuiNeighbors(entries) == DevicesFrom("eWON OUI/neighbor", OfEwon(Usable(entries)))

\* The MAC address of a gateway that did not say it.
Resolved(d, entries) ==
    LET known == {i \in DOMAIN Usable(entries) : Usable(entries)[i].ip = d.host}
    IN IF d.mac # "" \/ known = {} THEN d ELSE [d EXCEPT !.mac = Usable(entries)[Min(known)].mac]

WeintekProbes == <<"weintek_60000", "weintek_10275", "weintek_20249">>
EwonProbes == <<"ewon_1507", "ewon_1234", "ewon_4242">>

IndustrialOf(probe, heard) ==
    CASE Contains(WeintekProbes, probe) -> DiscoverWeintek(heard)
      [] Contains(EwonProbes, probe) -> IpconfCollect(heard)
      [] probe = "neighbors" -> heard

\* The first answer of an HMI; the last port's of a gateway, and the neighbors that
\* have not answered.
EwonDevices(gateways, entries) ==
    LET devices == KeepLast(gateways, KeysOf(gateways)) \o EwonFromOuiNeighbors(entries)
    IN KeepFirst(devices, KeysOf(devices))
DiscoverIndustrial(hmis, gateways, entries) ==
    KeepFirst(hmis, KeysOf(hmis))
    \o [i \in DOMAIN EwonDevices(gateways, entries) |->
           Resolved(EwonDevices(gateways, entries)[i], entries)]

===============================================================================
