----------------------------- MODULE NeighborMerge -----------------------------
(* ndp/core/collectors/neighbors.py: one neighbor from what LLDP or CDP says and *)
(* what MNDP says.                                                              *)
EXTENDS MndpNeighbor

Weak == {"", "bridge"}
IsWeakPort(port) == port \in Weak

SaysNothing(n) ==
    ~n.available /\ n.port = "" /\ n.vlan = "" /\ n.name = "" /\ n.chassis = ""

\* The first of the texts that those of the two give that speak one of protocols.
TextOf(f, protocols, n, m) ==
    Or(IF n.protocol \in protocols THEN n[f] ELSE "",
       IF m.protocol \in protocols THEN m[f] ELSE "")

Lldp == {"LLDP", "CDP"}

\* Whether the port MNDP names replaces the one at hand.  The mutant lets any.
AnyMndpPort(port, mndp) == mndp # ""
StrongerMndpPort(port, mndp) == IsWeakPort(port) /\ ~IsWeakPort(mndp)

MergedPort(n, m) ==
    LET port == Or(TextOf("port", Lldp, n, m), Or(n.port, m.port))
        mndp == TextOf("port", {"MNDP"}, n, m)
    IN IF StrongerMndpPort(port, mndp) THEN mndp ELSE port

Merge(n, m) ==
    IF SaysNothing(m) THEN n
    ELSE [n EXCEPT
             !.name = Or(@, m.name),
             !.port = MergedPort(n, m),
             !.vlan = Or(TextOf("vlan", Lldp, n, m), Or(n.vlan, m.vlan)),
             !.chassis = Or(@, m.chassis),
             !.descr = Or(@, m.descr),
             !.board = Or(@, m.board),
             !.available = TRUE,
             !.message = "ok"]

HasTopology(n) ==
    n.available \/ \E f \in Texts \ {"protocol"} : n[f] # ""

Combine(lldp, mndp) ==
    CASE HasTopology(lldp) /\ HasTopology(mndp) -> Merge(lldp, mndp)
      [] HasTopology(lldp) /\ ~HasTopology(mndp) -> lldp
      [] ~HasTopology(lldp) /\ HasTopology(mndp) -> mndp
      [] OTHER -> [lldp EXCEPT !.available = FALSE, !.protocol = Or(@, "LLDP")]

\* neighbor_from_mndp_device: what the page's scan knows of a device.
Hints(d) ==
    [NoNeighbor("ok") EXCEPT
        !.protocol = "MNDP", !.name = d.identity, !.port = d.interface,
        !.chassis = d.mac, !.board = d.board, !.available = TRUE]

\* What one refresh collects.  The chassis is handed to MNDP to find the device.
Collect(lldpAnswer, payloads, interface, gwMac, gwIp) ==
    LET lldp == CollectLldp(lldpAnswer, interface)
        mndp == CollectMndp(payloads, lldp.chassis, gwMac, gwIp)
    IN Combine(lldp, mndp)

===============================================================================
