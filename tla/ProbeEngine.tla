------------------------------ MODULE ProbeEngine ------------------------------
(* ndp/core/engine.py: refreshes, the neighbor they resolve and the cache that   *)
(* answers for a neighbor that is not heard.  The cable is moved between switches *)
(* meanwhile, and the page's scan hands over the MikroTik device it has found.   *)
EXTENDS NeighborMerge

CONSTANTS
    Places,     \* sockets the cable may be in
    LldpOf,     \* per place: the answers lldpctl may give there
    MndpOf,     \* per place: the MNDP replies that can be heard there
    IpOf,       \* per place: the routes and the neighbor table the kernel may have
    Ttl         \* lldp_cache_ttl_seconds, in ticks; ages stop growing beyond it

ASSUME EngineAssumption == Ttl \in Nat

\* At a place MNDP is silent, or tells which device is on the cable.
ASSUME PlacesAssumption ==
    \A p \in Places :
        /\ \A lldp \in LldpOf[p] : IsAnswer(lldp)
        /\ SaySame(MndpOf[p])
        /\ MndpOf[p] # {} => OneIsOnCable(MndpOf[p])

Unplugged == "unplugged"
None == NoNeighbor("none")
NoAnswer == [lldp |-> <<>>, ip |-> [routes |-> <<>>, table |-> <<>>]]

VARIABLES
    place,      \* where the cable is
    carrier,    \* state.link.carrier, as last read
    neighbor,   \* state.neighbor
    cached,     \* _cached_neighbor, None before the first
    cachedAge,  \* ticks since _cached_neighbor_at
    patient,    \* discovery_mndp_listen_seconds is above zero
    listening,  \* "no" refresh is under way, or it listens "quick" or in "full"
    answer,     \* what lldpctl and the kernel have answered to this refresh
    heard,      \* the MNDP replies this refresh has heard
    heardAge,   \* history: ticks since a neighbor was last heard or handed over
    settled,    \* history: ticks, between refreshes, since the cable was moved or a
                \* device handed over
    due,        \* history: this refresh began on a settled cable that has not moved
    missed      \* history: the last refresh has shown nothing

world == <<place, patient>>
refresh == <<listening, answer, heard>>
cache == <<cached, cachedAge>>
engineVars ==
    <<world, carrier, neighbor, cache, refresh, heardAge, settled, due, missed>>

Later(ticks) == IF ticks > Ttl THEN ticks ELSE ticks + 1

EngineInit ==
    /\ place \in Places \cup {Unplugged}
    /\ patient \in BOOLEAN
    /\ carrier = FALSE
    /\ neighbor = NoNeighbor("waiting")
    /\ cached = None /\ cachedAge = 0
    /\ listening = "no" /\ answer = NoAnswer /\ heard = <<>>
    /\ heardAge = Ttl + 1 /\ settled = 0 /\ due = FALSE /\ missed = FALSE

-------------------------------------------------------------------------------
(* What the kernel answers: the first default route's gateway, and its MAC, unless *)
(* the neighbor table holds no entry of it that has been resolved.               *)

First(entries, field) == IF entries = <<>> THEN "" ELSE entries[1][field]

Gateway(routes) ==
    First(SelectSeq(routes, LAMBDA r : r.dst = "default" /\ r.gateway # ""), "gateway")

MacOf(table, ip) ==
    First(SelectSeq(table, LAMBDA e : ip # "" /\ e.dst = ip /\ e.lladdr # ""
                                      /\ e.state \notin {"FAILED", "INCOMPLETE"}),
          "lladdr")

-------------------------------------------------------------------------------
(* A refresh: the link, the address and lldpctl at once, then the listening.    *)

\* Whether the cache may still answer.  The mutant lets it answer for ever.
EverFresh == cached # None
CacheFresh == cached # None /\ cachedAge <= Ttl

MissingTopology == cached.port = "" /\ cached.vlan = ""

ListenTime ==
    IF patient /\ (~CacheFresh \/ MissingTopology) THEN "full" ELSE "quick"

\* What the carrier file of the interface says.
Carrier == place # Unplugged

RefreshDown ==
    /\ listening = "no" /\ ~Carrier
    /\ carrier' = FALSE
    /\ neighbor' = NoNeighbor("link down")
    /\ missed' = TRUE
    /\ UNCHANGED <<world, cache, refresh, heardAge, settled, due>>

RefreshBegin ==
    /\ listening = "no" /\ Carrier
    /\ carrier' = TRUE
    /\ listening' = ListenTime
    /\ \E lldp \in LldpOf[place], ip \in IpOf[place] :
           answer' = [lldp |-> lldp, ip |-> ip]
    /\ heard' = <<>>
    /\ due' = (settled > Ttl)
    /\ UNCHANGED <<world, neighbor, cache, heardAge, settled, missed>>

Hear ==
    /\ listening # "no" /\ Carrier
    /\ \E reply \in MndpOf[place] :
           /\ \A i \in DOMAIN heard : heard[i] # reply
           /\ heard' = Append(heard, reply)
    /\ UNCHANGED <<world, carrier, neighbor, cache, listening, answer, heardAge,
                   settled, due, missed>>

\* The probe of a full listen is answered by all that have been there throughout.
HeardAll ==
    listening = "full" /\ due =>
        \A reply \in MndpOf[place] : \E i \in DOMAIN heard : heard[i] = reply

Primary ==
    LET gateway == Gateway(answer.ip.routes)
    IN Collect(answer.lldp, heard, "eth0", MacOf(answer.ip.table, gateway), gateway)

RefreshEnd ==
    /\ listening # "no" /\ HeardAll
    /\ listening' = "no" /\ answer' = NoAnswer /\ heard' = <<>>
    /\ due' = FALSE
    /\ missed' = ~neighbor'.available
    /\ UNCHANGED <<world, carrier, settled>>

Found ==
    /\ Primary.available
    /\ neighbor' = Primary
    /\ RefreshEnd
    /\ cached' = Primary /\ cachedAge' = 0
    /\ heardAge' = 0

\* The age of a cache that has answered.  The mutant takes the answer for news.
Renewed == 0
StillAsOld == cachedAge

FoundInCache ==
    /\ ~Primary.available /\ CacheFresh
    /\ neighbor' = [cached EXCEPT !.message = "cached"]
    /\ RefreshEnd
    /\ cachedAge' = StillAsOld
    /\ UNCHANGED <<cached, heardAge>>

NotFound ==
    /\ ~Primary.available /\ ~CacheFresh
    /\ neighbor' = Primary
    /\ RefreshEnd
    /\ UNCHANGED <<cache, heardAge>>

Refresh == RefreshDown \/ RefreshBegin \/ Hear \/ Found \/ FoundInCache \/ NotFound

-------------------------------------------------------------------------------
(* The page's scan, which holds the lock a refresh holds; a device may be handed *)
(* over long after it was heard, elsewhere, and with the link down.             *)

ApplyMndpDevice ==
    /\ listening = "no"
    /\ \E p \in Places : \E reply \in MndpOf[p] :
           neighbor' = Merge(neighbor, Hints(ParsePayload(reply)))
    /\ cached' = neighbor' /\ cachedAge' = 0
    /\ heardAge' = 0 /\ settled' = 0
    /\ UNCHANGED <<world, carrier, refresh, due, missed>>

Tick ==
    /\ cachedAge' = Later(cachedAge)
    /\ heardAge' = Later(heardAge)
    /\ settled' = IF listening = "no" THEN Later(settled) ELSE settled
    /\ UNCHANGED <<world, carrier, neighbor, cached, refresh, due, missed>>

Move ==
    /\ place' \in (Places \cup {Unplugged}) \ {place}
    /\ settled' = 0 /\ due' = FALSE
    /\ UNCHANGED <<patient, carrier, neighbor, cache, refresh, heardAge, missed>>

EngineNext == Refresh \/ ApplyMndpDevice \/ Tick \/ Move
EngineSpec == EngineInit /\ [][EngineNext]_engineVars

-------------------------------------------------------------------------------
Ages == 0..Ttl + 1

EngineTypeOK ==
    /\ place \in Places \cup {Unplugged}
    /\ {patient, carrier, due, missed} \subseteq BOOLEAN
    /\ listening \in {"no", "quick", "full"}
    /\ cachedAge \in Ages /\ heardAge \in Ages /\ settled \in Ages

\* The cache is no younger than the last time anything was heard.
CacheIsAged == cached # None => heardAge <= cachedAge

Ends == listening # "no" /\ listening' = "no"

\* What a refresh shows as available was heard, or handed over by the page, at most
\* the time to live ago: however often the cache answers, and whatever is plugged,
\* it does not keep itself alive.  (engine.py:84-98)
ShownIsFresh == [][Ends /\ neighbor'.available => heardAge' <= Ttl]_engineVars

\* A neighbor that a device at the place, by MNDP or by LLDP, has named.
OfPlace(n, p) ==
    \/ \E reply \in MndpOf[p] : n.chassis = ParsePayload(reply).mac
    \/ \E lldp \in LldpOf[p] :
           /\ CollectLldp(lldp, "eth0").available
           /\ n.chassis = CollectLldp(lldp, "eth0").chassis

\* A cable left alone for longer than the time to live on a switch that answers MNDP
\* shows a device of that place: the switch of before is gone, and the short listens
\* of a fresh cache, which may miss the new one, do not go on.  One refresh may show
\* nothing, when the cache runs out while it listens, but not two in a row.
\* (engine.py:55-68, 84-98; it takes a listen time above zero.)
FoundInTime ==
    [][Ends /\ due /\ patient /\ MndpOf[place] # {} =>
          IF neighbor'.available THEN OfPlace(neighbor', place) ELSE ~missed]_engineVars

===============================================================================
