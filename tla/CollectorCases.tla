---------------------------- MODULE CollectorCases -----------------------------
(* The collectors and the merge over every answer of a small set: one behaviour   *)
(* each, a single state, in which what they make of the answer is looked at.     *)
EXTENDS NeighborMerge

CONSTANTS
    Answers,    \* what lldpctl may answer: sequences of interface entries
    Replies,    \* MNDP replies; a device says the same in all of its own
    Gateways,   \* the gateway's address and MAC, "" when they are not known
    MaxHeard    \* bound on the devices heard

ASSUME CasesAssumption ==
    /\ MaxHeard \in Nat
    /\ \A answer \in Answers : IsAnswer(answer)
    /\ SaySame(Replies)
    /\ \A g \in Gateways : g.ip = "" => g.mac = ""

VARIABLE collected   \* the answer, the replies heard in their order, the gateway

Heards ==
    UNION {{s \in [1..n -> Replies] : Cardinality({s[i] : i \in 1..n}) = n} :
               n \in 0..MaxHeard}

CasesInit ==
    \E answer \in Answers, replies \in Heards, gateway \in Gateways :
        collected = [answer |-> answer, replies |-> replies, gateway |-> gateway]
CasesSpec == CasesInit /\ [][FALSE]_collected

Lldp1 == CollectLldp(collected.answer, "eth0")
MndpOfReplies(replies) ==
    CollectMndp(replies, Lldp1.chassis, collected.gateway.mac, collected.gateway.ip)

\* The entries that speak of the interface, each parsed by itself.
Parsed ==
    LET own == Matching(collected.answer, "eth0")
    IN {ParseEntry(own[i]) : i \in DOMAIN own}

\* Nothing that an entry or the MNDP device knows is missing from the neighbor, what
\* LLDP says of name, VLAN, chassis and of a port with a name of its own stands, and
\* a port that only says "bridge" gives way to a better one.
\* (lldp.py:224-257, neighbors.py:26-67, 84-114)
NothingIsLost ==
    LET mndp == MndpOfReplies(collected.replies)
        n == Combine(Lldp1, mndp)
        sources == Parsed \cup {mndp}
    IN /\ \A f \in {"name", "port", "vlan", "chassis", "descr"} :
              n[f] = "" => \A s \in sources : s[f] = ""
       /\ \A f \in {"name", "vlan", "chassis"} : Lldp1[f] # "" => n[f] = Lldp1[f]
       /\ ~IsWeakPort(Lldp1.port) => n.port = Lldp1.port
       /\ IsWeakPort(n.port) => IsWeakPort(mndp.port) /\ IsWeakPort(Lldp1.port)

\* Two devices say that the gateway's address is theirs.
Claims(payload) ==
    /\ IsDevice(ParsePayload(payload))
    /\ collected.gateway.ip # ""
    /\ ParsePayload(payload).ipv4 = collected.gateway.ip
Contended(replies) ==
    \E i, j \in DOMAIN replies :
        /\ Claims(replies[i]) /\ Claims(replies[j])
        /\ ParsePayload(replies[i]) # ParsePayload(replies[j])

\* Broadcast replies come in any order, and more than once: the device that is taken
\* for the one on the cable - by LLDP's chassis, the gateway's MAC, its address, or as
\* the only switch - does not depend on it, unless two claim the gateway's address, of
\* which the first one is taken.  (mndp.py:136-171, 230-261, neighbors.py:159-167)
RepliesInAnyOrder ==
    LET replies == collected.replies
        n == MndpOfReplies(replies)
    IN ~Contended(replies) =>
          /\ MndpOfReplies(Reverse(replies)) = n
          /\ MndpOfReplies(replies \o replies) = n

===============================================================================
