----------------------------- MODULE LldpNeighbor ------------------------------
(* What ndp/core/collectors/lldp.py makes of the interface entries of lldpctl:  *)
(* one neighbor record.  An absent text is "", as Python's "or" treats it, and   *)
(* a text that several spellings of a key could give is given once.             *)
EXTENDS Integers, Sequences, SequencesExt, FiniteSetsExt

\* An age that is missing counts as this one in the score.
NoAge == 999999

\* The neighbor's fields (of NeighborState) that the collectors and the merge read.
Texts == {"protocol", "name", "port", "vlan", "chassis", "descr", "board"}
NoNeighbor(message) ==
    [protocol |-> "", name |-> "", port |-> "", vlan |-> "", chassis |-> "", descr |-> "",
     board |-> "", age |-> NoAge, available |-> FALSE, message |-> message]

\* a or b, and a or b or c or ...
Or(a, b) == IF a # "" THEN a ELSE b
FirstOf(texts) == FoldRight(Or, texts, "")

\* An entry has an age, in seconds, a missing one counting as NoAge, and comes from
\* lldpd, which does not speak MNDP.
IsEntry(e) == e.age \in Nat /\ e.via # "MNDP"
IsAnswer(answer) == answer \in Seq(Range(answer)) /\ \A e \in Range(answer) : IsEntry(e)

-------------------------------------------------------------------------------
(* One interface entry: chassis, port, vlan (of the port, its ppvid, and of the *)
(* entry) and age.                                                              *)

PortId(port) == FirstOf(<<port.id, port.descr, port.ifname, port.local>>)

VlanId(e) == FirstOf(<<e.port.vlan, IF e.port.ppvidEnabled THEN e.port.ppvid ELSE "",
                       e.vlan>>)

\* A description that names a switch is shown whole, another up to its first comma.
SwitchName(chassis) == Or(chassis.name, chassis.descr)

ParseEntry(e) ==
    LET n == [NoNeighbor("neighbor present but no usable TLV fields") EXCEPT
                 !.protocol = e.via,
                 !.name = SwitchName(e.chassis),
                 !.port = PortId(e.port),
                 !.vlan = VlanId(e),
                 !.chassis = e.chassis.id,
                 !.descr = e.chassis.descr,
                 !.age = e.age]
    IN IF {n.name, n.port, n.vlan, n.chassis} = {""} THEN n
       ELSE [n EXCEPT !.available = TRUE, !.message = "ok"]

-------------------------------------------------------------------------------
(* Several entries.                                                            *)

\* Descriptions that speak for a switch, and for a computer.
Points(n) ==
    (IF n.port # "" THEN 10 ELSE 0) + (IF n.name # "" THEN 8 ELSE 0)
    + (IF n.vlan # "" THEN 4 ELSE 0) + (IF n.chassis # "" THEN 2 ELSE 0)
    + (CASE n.descr = "switch os" -> 6 [] n.descr = "linux" -> -4 [] OTHER -> 0)

\* The score and the tie-break.
Better(m, n) ==
    Points(m) > Points(n) \/ (Points(m) = Points(n) /\ m.age < n.age)

\* The first of the best, as a stable sort leaves it.
Best(candidates) ==
    LET available == {i \in DOMAIN candidates : candidates[i].available}
        best == {i \in available :
                    \A j \in available : ~Better(candidates[j], candidates[i])}
    IN IF available = {} THEN NoNeighbor("no neighbor data")
       ELSE candidates[Min(best)]

\* What the best one lacks is taken from the others, in their order, and the age
\* is the least of all.
FilledFrom(best, n) ==
    [best EXCEPT !.port = Or(@, n.port), !.vlan = Or(@, n.vlan),
                 !.name = Or(@, n.name), !.chassis = Or(@, n.chassis),
                 !.descr = Or(@, n.descr), !.protocol = Or(@, n.protocol),
                 !.age = Min({@, n.age})]

Consolidate(candidates) ==
    LET filled[k \in 0..Len(candidates)] ==
            IF k = 0 THEN Best(candidates) ELSE FilledFrom(filled[k - 1], candidates[k])
        n == filled[Len(candidates)]
    IN IF <<n.port, n.vlan, n.name, n.chassis>> # <<"", "", "", "">>
       THEN [n EXCEPT !.available = TRUE, !.message = "ok"]
       ELSE n

\* The entries of the interface, or all of them when none is of it.  Without lldpd,
\* or without an answer, there is nothing to parse.
Matching(entries, interface) ==
    LET own[k \in 0..Len(entries)] ==
            IF k = 0 THEN <<>>
            ELSE IF entries[k].interface = interface THEN Append(own[k - 1], entries[k])
            ELSE own[k - 1]
        found == own[Len(entries)]
    IN IF found = <<>> THEN entries ELSE found

CollectLldp(answer, interface) ==
    IF answer = <<>> THEN NoNeighbor("lldpctl unavailable")
    ELSE Consolidate([i \in DOMAIN Matching(answer, interface) |->
                         ParseEntry(Matching(answer, interface)[i])])

===============================================================================
