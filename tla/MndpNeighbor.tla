----------------------------- MODULE MndpNeighbor ------------------------------
(* What ndp/core/collectors/mndp.py makes of the MNDP replies it hears: the      *)
(* devices, which of them is on the cable, and the neighbor record.              *)
EXTENDS LldpNeighbor

\* The types of the TLVs that are read, the fields they give and the lengths asked
\* of them (0 is any).
Field == 1 :> "mac" @@ 5 :> "identity" @@ 8 :> "platform" @@ 12 :> "board"
         @@ 13 :> "interface" @@ 16 :> "interface" @@ 17 :> "ipv4"
Length == 1 :> 6 @@ 17 :> 4

NoFields == [f \in {"mac", "identity", "platform", "board", "interface", "ipv4"} |-> ""]

\* A payload is a sequence of TLVs behind a header; one that says more than is left of
\* it ends the parse.  One that is too short is not parsed.  A later TLV of a field
\* replaces an earlier one.
MinResponse == 18
Bytes(payload) == FoldLeft(LAMBDA n, t : n + 4 + t.len, 4, payload)

WellFormed(payload) ==
    IF Bytes(payload) < MinResponse THEN <<>> ELSE
    SelectSeq(SubSeq(payload, 1,
                     Min({i \in DOMAIN payload : payload[i].cut}
                         \cup {Len(payload) + 1}) - 1),
              LAMBDA t : /\ t.type \in DOMAIN Field
                         /\ t.type \in DOMAIN Length => t.len = Length[t.type])

ParsePayload(payload) ==
    FoldLeft(LAMBDA fields, t : [fields EXCEPT ![Field[t.type]] = t.text],
             NoFields, WellFormed(payload))

\* A reply without MAC and name is not a device.
IsDevice(fields) == fields.mac # "" \/ fields.identity # ""

Key(d) == IF d.mac # "" THEN <<d.mac>> ELSE <<d.identity, d.ipv4>>

\* A device says the same in all its replies.
SaySame(replies) ==
    \A p, q \in replies :
        IsDevice(ParsePayload(p)) /\ Key(ParsePayload(p)) = Key(ParsePayload(q))
            => ParsePayload(p) = ParsePayload(q)

\* A later reply of a device takes the place of the earlier one.
Heard(devices, payload) ==
    LET d == ParsePayload(payload)
        same == {i \in DOMAIN devices : Key(devices[i]) = Key(d)}
    IN IF ~IsDevice(d) THEN devices
       ELSE IF same = {} THEN Append(devices, d)
       ELSE [devices EXCEPT ![Min(same)] = d]

Discover(payloads) ==
    LET devices[n \in 0..Len(payloads)] ==
            IF n = 0 THEN <<>> ELSE Heard(devices[n - 1], payloads[n])
    IN devices[Len(payloads)]

SwitchLike(d) == "CRS" \in {d.board, d.platform, d.identity, d.interface}

\* Of the devices that answer, the one on the cable is the only one there is, or the
\* only one that looks like a switch.
OneIsOnCable(replies) ==
    LET devices == {d \in {ParsePayload(r) : r \in replies} : IsDevice(d)}
    IN \E d \in devices : devices = {d} \/ {e \in devices : SwitchLike(e)} = {d}

-------------------------------------------------------------------------------
(* pick_connected_mndp_device: by the chassis LLDP has named, by the gateway's   *)
(* MAC, by its address, or the only one that looks like a switch.  The mutant    *)
(* takes any that looks like one.                                               *)

AnySwitch(switches) == switches # {}
OnlySwitch(switches) == Cardinality(switches) = 1

Pick(devices, chassis, gwMac, gwIp) ==
    LET By(text, f) == {i \in DOMAIN devices : text # "" /\ devices[i][f] = text}
        switches == {i \in DOMAIN devices : SwitchLike(devices[i])}
        named == IF By(chassis, "mac") # {} THEN By(chassis, "mac")
                 ELSE IF By(gwMac, "mac") # {} THEN By(gwMac, "mac")
                 ELSE IF By(gwIp, "ipv4") # {} THEN By(gwIp, "ipv4")
                 ELSE IF OnlySwitch(switches) THEN switches
                 ELSE {}
    IN IF named = {} THEN 0 ELSE Min(named)

\* MndpDevice.to_neighbor_state.
ToNeighbor(d) ==
    [NoNeighbor("ok") EXCEPT
        !.protocol = "MNDP",
        !.name = FirstOf(<<d.identity, d.board, d.platform, "MikroTik">>),
        !.port = d.interface,
        !.chassis = d.mac,
        !.descr = FirstOf(<<d.platform, d.board>>),
        !.board = d.board,
        !.available = TRUE]

\* The device on the cable, or the only one heard, whose place on the LAN nothing
\* is known of.
CollectMndp(payloads, chassis, gwMac, gwIp) ==
    LET devices == Discover(payloads)
        connected == Pick(devices, chassis, gwMac, gwIp)
    IN CASE connected # 0 -> ToNeighbor(devices[connected])
         [] connected = 0 /\ Len(devices) = 1 -> ToNeighbor(devices[1])
         [] OTHER -> [NoNeighbor("no mndp neighbor") EXCEPT !.protocol = "MNDP"]

===============================================================================
