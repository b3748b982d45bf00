---------------------------- MODULE InstrumentsProofs ---------------------------
(* The parts of MCInstruments, first each by itself and then together, for all     *)
(* constants: the engine and its neighbor cache, the knob and the keys of           *)
(* InputDevices, the wizard's scans of UpDownScans, the learned vendors of          *)
(* OuiDatabase, the file of ConfigStore; the collectors and the pool of ScanJobs    *)
(* have proofs of their own.                                                        *)
EXTENDS MCInstruments, ScanJobsProofs

-------------------------------------------------------------------------------
(* The engine: whatever switches the cable is moved between, whatever they answer  *)
(* and however long the time to live, a refresh shows no neighbor that was last    *)
(* heard before it, and a cable left alone shows a device of its place.  For the   *)
(* first it is enough that only a neighbor that was heard, or handed over by the   *)
(* page, makes the cache young; the second takes the places of all that is kept.  *)

\* The ages, and what has to be known of them.
AgesOK == cachedAge \in Nat /\ heardAge \in Nat /\ CacheIsAged

LEMMA InitAges == EngineInit => AgesOK
BY EngineAssumption DEF EngineInit, AgesOK, CacheIsAged

\* Growing older keeps the order of two ages, though both stop at the same bound.
LEMMA LaterInOrder ==
    ASSUME NEW a \in Nat, NEW b \in Nat
    PROVE  /\ Later(a) \in Nat
           /\ a <= b => Later(a) <= Later(b)
BY EngineAssumption DEF Later

LEMMA NextAges == AgesOK /\ [EngineNext]_engineVars => AgesOK'
<1> SUFFICES ASSUME AgesOK, [EngineNext]_engineVars PROVE AgesOK'
  OBVIOUS
<1> USE DEF AgesOK, CacheIsAged
<1>1. CASE RefreshDown
  BY <1>1 DEF RefreshDown, cache
<1>2. CASE RefreshBegin
  BY <1>2 DEF RefreshBegin, cache
<1>3. CASE Hear
  BY <1>3 DEF Hear, cache
<1>4. CASE Found
  BY <1>4 DEF Found
<1>5. CASE FoundInCache
  BY <1>5 DEF FoundInCache, StillAsOld
<1>6. CASE NotFound
  BY <1>6 DEF NotFound, cache
<1>7. CASE ApplyMndpDevice
  BY <1>7 DEF ApplyMndpDevice
<1>8. CASE Tick
  BY <1>8, LaterInOrder DEF Tick
<1>9. CASE Move
  BY <1>9 DEF Move, cache
<1>10. CASE UNCHANGED engineVars
  BY <1>10 DEF engineVars, cache
<1> QED
  BY <1>1, <1>2, <1>3, <1>4, <1>5, <1>6, <1>7, <1>8, <1>9, <1>10
     DEF EngineNext, Refresh

\* The end of a refresh that shows something: it was heard in this refresh, or the
\* cache that answers is within its time to live and no younger than what was heard.
LEMMA EndsFresh ==
    AgesOK /\ [EngineNext]_engineVars
    => (Ends /\ neighbor'.available => heardAge' <= Ttl)
<1> SUFFICES ASSUME AgesOK, [EngineNext]_engineVars, Ends, neighbor'.available
             PROVE  heardAge' <= Ttl
  OBVIOUS
<1> USE EngineAssumption DEF AgesOK, Ends
<1>1. CASE Found
  BY <1>1 DEF Found
<1>2. CASE FoundInCache
  BY <1>2 DEF FoundInCache, CacheFresh, CacheIsAged
<1>3. CASE NotFound
  BY <1>3 DEF NotFound
<1>4. CASE RefreshDown \/ RefreshBegin \/ Hear \/ ApplyMndpDevice \/ Tick \/ Move
           \/ UNCHANGED engineVars
  BY <1>4 DEF RefreshDown, RefreshBegin, Hear, ApplyMndpDevice, Tick, Move,
              engineVars, refresh
<1> QED
  BY <1>1, <1>2, <1>3, <1>4 DEF EngineNext, Refresh

\* The cache is no younger than the last neighbor heard (engine.py:84-98).
THEOREM CacheAges == EngineSpec => []CacheIsAged
<1>1. AgesOK => CacheIsAged
  BY DEF AgesOK
<1> QED
  BY InitAges, NextAges, <1>1, PTL DEF EngineSpec

\* No refresh shows a neighbor heard longer than the time to live ago
\* (engine.py:84-98).
THEOREM FreshnessHolds == EngineSpec => ShownIsFresh
<1>1. AgesOK /\ [EngineNext]_engineVars
      => [Ends /\ neighbor'.available => heardAge' <= Ttl]_engineVars
  BY EndsFresh
<1> QED
  BY InitAges, NextAges, <1>1, PTL DEF EngineSpec, ShownIsFresh

-------------------------------------------------------------------------------
(* The place of what is shown.  A cache younger than the cable has lain where it  *)
(* lies is of that place; a refresh that shows nothing leaves no cache that could *)
(* answer for a settled cable, so the next one listens in full.                  *)

AnyReply == UNION {MndpOf[p] : p \in Places}

EngineTypes ==
    /\ place \in Places \cup {Unplugged}
    /\ patient \in BOOLEAN /\ carrier \in BOOLEAN /\ due \in BOOLEAN /\ missed \in BOOLEAN
    /\ listening \in {"no", "quick", "full"}
    /\ cachedAge \in Ages /\ heardAge \in Ages /\ settled \in Ages

NeighborsInv ==
    /\ IsNeighbor(neighbor)
    /\ cached # None => IsNeighbor(cached) /\ cached.available

\* What has been heard, and that none of it is of another place if the cable has not
\* been moved.
HeardInv ==
    /\ listening # "no" =>
           /\ \E p \in Places : answer.lldp \in LldpOf[p]
           /\ heard \in Seq(AnyReply)
    /\ listening # "no" /\ settled > 0 =>
           /\ place \in Places
           /\ answer.lldp \in LldpOf[place]
           /\ heard \in Seq(MndpOf[place])

DueInv ==
    /\ due => listening # "no" /\ settled > Ttl
    /\ due /\ missed /\ patient => listening = "full"

CachePlaceInv ==
    cached # None /\ cachedAge < settled => place \in Places /\ OfPlace(cached, place)

MissedInv ==
    missed => \/ place = Unplugged \/ cached = None
              \/ cachedAge > Ttl \/ cachedAge >= settled

EngineInv ==
    EngineTypes /\ NeighborsInv /\ HeardInv /\ DueInv /\ CachePlaceInv /\ MissedInv

LEMMA InitEngineInv == EngineInit => EngineInv
<1> SUFFICES ASSUME EngineInit PROVE EngineInv
  OBVIOUS
<1> USE EngineAssumption DEF EngineInit
<1>1. EngineTypes
  <2>1. 0 \in Ages /\ Ttl + 1 \in Ages
    BY DEF Ages
  <2> QED
    BY <2>1 DEF EngineTypes
<1>2. NeighborsInv
  BY NoNeighborIsLldp DEF NeighborsInv, IsLldp
<1>3. HeardInv /\ DueInv /\ CachePlaceInv /\ MissedInv
  BY DEF HeardInv, DueInv, CachePlaceInv, MissedInv
<1> QED
  BY <1>1, <1>2, <1>3 DEF EngineInv

LEMMA LaterInRange ==
    ASSUME NEW a \in Ages
    PROVE  Later(a) \in Ages /\ a <= Later(a) /\ (a > Ttl => Later(a) > Ttl)
BY EngineAssumption DEF Later, Ages

LEMMA NextTypes == EngineTypes /\ [EngineNext]_engineVars => EngineTypes'
<1> SUFFICES ASSUME EngineTypes, [EngineNext]_engineVars PROVE EngineTypes'
  OBVIOUS
<1> USE EngineAssumption DEF EngineTypes
<1>0. 0 \in Ages
  BY DEF Ages
<1>1. CASE RefreshDown
  BY <1>1 DEF RefreshDown, world, cache, refresh
<1>2. CASE RefreshBegin
  BY <1>2 DEF RefreshBegin, ListenTime, world, cache
<1>3. CASE Hear
  BY <1>3 DEF Hear, world, cache
<1>4. CASE Found
  BY <1>0, <1>4 DEF Found, RefreshEnd, world
<1>5. CASE FoundInCache
  BY <1>5 DEF FoundInCache, RefreshEnd, StillAsOld, world
<1>6. CASE NotFound
  BY <1>6 DEF NotFound, RefreshEnd, world, cache
<1>7. CASE ApplyMndpDevice
  BY <1>0, <1>7 DEF ApplyMndpDevice, world, refresh
<1>8. CASE Tick
  BY <1>8, LaterInRange DEF Tick, world, refresh
<1>9. CASE Move
  BY <1>0, <1>9 DEF Move, cache, refresh
<1>10. CASE UNCHANGED engineVars
  BY <1>10 DEF engineVars, world, cache, refresh
<1> QED
  BY <1>1, <1>2, <1>3, <1>4, <1>5, <1>6, <1>7, <1>8, <1>9, <1>10
     DEF EngineNext, Refresh

-------------------------------------------------------------------------------
(* What a refresh collects.                                                     *)

\* Whatever was moved while it was under way, it makes a neighbor of what it heard.
LEMMA PrimaryIsNeighbor ==
    ASSUME HeardInv, listening # "no"
    PROVE  IsNeighbor(Primary)
<1> DEFINE l == CollectLldp(answer.lldp, "eth0")
           gateway == Gateway(answer.ip.routes)
           mac == MacOf(answer.ip.table, gateway)
           m == CollectMndp(heard, l.chassis, mac, gateway)
<1>1. PICK p \in Places : answer.lldp \in LldpOf[p]
  BY DEF HeardInv
<1>2. IsLldp(l) /\ (l.available \/ l.chassis = "")
  BY <1>1, PlacesAssumption, LldpKeeps DEF IsAnswer
<1>3. heard \in Seq(AnyReply)
  BY DEF HeardInv
<1> HIDE DEF l
<1>4. IsMndp(m)
  BY <1>3, MndpIsNeighbor
<1>5. Primary = Combine(l, m)
  BY DEF Primary, Collect, l
<1> HIDE DEF m
<1> QED
  BY <1>2, <1>4, <1>5, CombineNames

\* Of a cable that has not been moved meanwhile, it is of the place.
LEMMA PrimaryIsOfPlace ==
    ASSUME HeardInv, listening # "no", settled > 0, Primary.available
    PROVE  place \in Places /\ OfPlace(Primary, place)
<1> DEFINE l == CollectLldp(answer.lldp, "eth0")
           gateway == Gateway(answer.ip.routes)
           mac == MacOf(answer.ip.table, gateway)
           m == CollectMndp(heard, l.chassis, mac, gateway)
<1>1. place \in Places /\ answer.lldp \in LldpOf[place] /\ heard \in Seq(MndpOf[place])
  BY DEF HeardInv
<1>2. IsLldp(l) /\ (l.available \/ l.chassis = "")
  BY <1>1, PlacesAssumption, LldpKeeps DEF IsAnswer
<1>3. IsMndp(m)
  <2> HIDE DEF l
  <2> QED
    BY <1>1, MndpIsNeighbor
<1>4. m.available => \E reply \in MndpOf[place] : m.chassis = ParsePayload(reply).mac
  <2> HIDE DEF l, mac, gateway
  <2> QED
    BY <1>1, MndpNames
<1>5. Primary = Combine(l, m)
  BY DEF Primary, Collect
<1>6. l.available => \E lldp \in LldpOf[place] :
          CollectLldp(lldp, "eth0").available /\ l.chassis = CollectLldp(lldp, "eth0").chassis
  BY <1>1
<1> HIDE DEF l, m
<1>7. \/ m.available /\ Primary.chassis = m.chassis
      \/ l.available /\ Primary.chassis = l.chassis
  BY <1>2, <1>3, <1>5, CombineNames
<1> QED
  BY <1>1, <1>4, <1>6, <1>7 DEF OfPlace

\* A full listen on a settled cable, where MNDP answers, finds something.
LEMMA FullListenFinds ==
    ASSUME HeardInv, DueInv, EngineTypes, due, listening = "full", HeardAll,
           MndpOf[place] # {}
    PROVE  Primary.available
<1> DEFINE l == CollectLldp(answer.lldp, "eth0")
           gateway == Gateway(answer.ip.routes)
           mac == MacOf(answer.ip.table, gateway)
           m == CollectMndp(heard, l.chassis, mac, gateway)
<1>0. settled > 0
  BY EngineAssumption DEF DueInv, EngineTypes, Ages
<1>1. place \in Places /\ answer.lldp \in LldpOf[place] /\ heard \in Seq(MndpOf[place])
  BY <1>0 DEF HeardInv
<1>2. IsLldp(l) /\ (l.available \/ l.chassis = "")
  BY <1>1, PlacesAssumption, LldpKeeps DEF IsAnswer
<1>3. IsMndp(m)
  <2> HIDE DEF l
  <2> QED
    BY <1>1, MndpIsNeighbor
<1>4. m.available
  <2>1. SaySame(MndpOf[place]) /\ OneIsOnCable(MndpOf[place])
    BY <1>1, PlacesAssumption
  <2>2. \A reply \in MndpOf[place] : \E i \in DOMAIN heard : heard[i] = reply
    BY DEF HeardAll
  <2> HIDE DEF l, mac, gateway
  <2> QED
    BY <1>1, <2>1, <2>2, SwitchIsFound
<1>5. Primary = Combine(l, m)
  BY DEF Primary, Collect
<1> HIDE DEF l, m
<1> QED
  BY <1>2, <1>3, <1>4, <1>5, CombineNames

\* The device the page hands over makes whatever is shown available.
LEMMA HandedOverIsNeighbor ==
    ASSUME NEW n, IsNeighbor(n), NEW d
    PROVE  IsNeighbor(Merge(n, Hints(d))) /\ Merge(n, Hints(d)).available
<1>1. Hints(d).available
  <2>1. IsNeighbor(NoNeighbor("ok"))
    BY NoNeighborIsLldp DEF IsLldp
  <2> QED
    BY <2>1 DEF Hints, IsNeighbor, Fields, Texts
<1> QED
  BY <1>1 DEF Merge, SaysNothing, IsNeighbor, Fields, Texts

-------------------------------------------------------------------------------
(* Every step keeps the invariant.                                             *)

LEMMA NextNeighbors ==
    EngineTypes /\ NeighborsInv /\ HeardInv /\ [EngineNext]_engineVars => NeighborsInv'
<1> SUFFICES ASSUME EngineTypes, NeighborsInv, HeardInv, [EngineNext]_engineVars
             PROVE  NeighborsInv'
  OBVIOUS
<1> USE DEF NeighborsInv
<1>1. CASE RefreshDown
  <2>1. IsNeighbor(NoNeighbor("link down"))
    BY NoNeighborIsLldp DEF IsLldp
  <2> QED
    BY <1>1, <2>1 DEF RefreshDown, cache
<1>2. CASE RefreshBegin \/ Hear \/ Tick \/ Move \/ UNCHANGED engineVars
  BY <1>2 DEF RefreshBegin, Hear, Tick, Move, engineVars, cache
<1>3. CASE Found
  <2>1. IsNeighbor(Primary) /\ Primary.available
    BY <1>3, PrimaryIsNeighbor DEF Found, RefreshEnd
  <2> QED
    BY <1>3, <2>1 DEF Found
<1>4. CASE FoundInCache
  <2>1. IsNeighbor(cached)
    BY <1>4 DEF FoundInCache, CacheFresh
  <2>2. IsNeighbor([cached EXCEPT !.message = "cached"])
    BY <2>1 DEF IsNeighbor, Fields, Texts
  <2>3. neighbor' = [cached EXCEPT !.message = "cached"] /\ cached' = cached
    BY <1>4 DEF FoundInCache
  <2> QED
    BY <2>2, <2>3
<1>5. CASE NotFound
  <2>1. IsNeighbor(Primary)
    BY <1>5, PrimaryIsNeighbor DEF NotFound, RefreshEnd
  <2> QED
    BY <1>5, <2>1 DEF NotFound, cache
<1>6. CASE ApplyMndpDevice
  <2>1. PICK d : neighbor' = Merge(neighbor, Hints(d)) /\ cached' = neighbor'
    BY <1>6 DEF ApplyMndpDevice
  <2> QED
    BY <2>1, HandedOverIsNeighbor
<1> QED
  BY <1>1, <1>2, <1>3, <1>4, <1>5, <1>6 DEF EngineNext, Refresh

LEMMA NextHeard == EngineTypes /\ HeardInv /\ [EngineNext]_engineVars => HeardInv'
<1> SUFFICES ASSUME EngineTypes, HeardInv, [EngineNext]_engineVars PROVE HeardInv'
  OBVIOUS
<1> USE DEF HeardInv
<1>1. CASE RefreshDown
  BY <1>1 DEF RefreshDown, refresh
<1>2. CASE RefreshBegin
  <2>1. place \in Places /\ place' = place
    BY <1>2 DEF RefreshBegin, Carrier, EngineTypes, world
  <2>2. answer'.lldp \in LldpOf[place] /\ heard' = <<>>
    BY <1>2 DEF RefreshBegin
  <2> QED
    BY <2>1, <2>2
<1>3. CASE Hear
  <2>1. PICK reply \in MndpOf[place] : heard' = Append(heard, reply)
    BY <1>3 DEF Hear
  <2>2. place \in Places /\ reply \in AnyReply
    BY <1>3 DEF Hear, Carrier, EngineTypes, AnyReply
  <2>3. /\ heard \in Seq(AnyReply) => heard' \in Seq(AnyReply)
        /\ heard \in Seq(MndpOf[place]) => heard' \in Seq(MndpOf[place])
    BY <2>1, <2>2
  <2>4. /\ place' = place /\ answer' = answer /\ settled' = settled
        /\ listening' = listening /\ listening # "no"
    BY <1>3 DEF Hear, world
  <2> QED
    BY <2>3, <2>4
<1>4. CASE Found \/ FoundInCache \/ NotFound
  BY <1>4 DEF Found, FoundInCache, NotFound, RefreshEnd
<1>5. CASE ApplyMndpDevice
  BY <1>5 DEF ApplyMndpDevice, refresh
<1>6. CASE Tick
  <2>1. /\ place' = place /\ answer' = answer /\ heard' = heard /\ listening' = listening
        /\ listening # "no" => settled' = settled
    BY <1>6 DEF Tick, world, refresh
  <2> QED
    BY <2>1
<1>7. CASE Move
  BY <1>7 DEF Move, refresh
<1>8. CASE UNCHANGED engineVars
  BY <1>8 DEF engineVars, world, refresh
<1> QED
  BY <1>1, <1>2, <1>3, <1>4, <1>5, <1>6, <1>7, <1>8 DEF EngineNext, Refresh

\* A cache that could answer is missed by no refresh on a settled cable.
LEMMA FullAfterMiss ==
    ASSUME EngineTypes, MissedInv, missed, patient, settled > Ttl, place # Unplugged
    PROVE  ListenTime = "full"
<1>1. cachedAge \in Int /\ settled \in Int /\ Ttl \in Int
  BY EngineAssumption DEF EngineTypes, Ages
<1>2. ~CacheFresh
  BY <1>1 DEF CacheFresh, MissedInv
<1> QED
  BY <1>2 DEF ListenTime

LEMMA NextDue ==
    EngineTypes /\ DueInv /\ MissedInv /\ [EngineNext]_engineVars => DueInv'
<1> SUFFICES ASSUME EngineTypes, DueInv, MissedInv, [EngineNext]_engineVars
             PROVE  DueInv'
  OBVIOUS
<1> USE DEF DueInv
<1>1. CASE RefreshDown
  BY <1>1 DEF RefreshDown, refresh
<1>2. CASE RefreshBegin
  <2>1. /\ place # Unplugged /\ listening' = ListenTime /\ due' = (settled > Ttl)
        /\ patient' = patient /\ missed' = missed /\ settled' = settled
    BY <1>2 DEF RefreshBegin, Carrier, world
  <2>2. ListenTime # "no"
    BY DEF ListenTime
  <2> QED
    BY <2>1, <2>2, FullAfterMiss
<1>3. CASE Hear
  BY <1>3 DEF Hear, world
<1>4. CASE Found \/ FoundInCache \/ NotFound
  BY <1>4 DEF Found, FoundInCache, NotFound, RefreshEnd
<1>5. CASE ApplyMndpDevice
  BY <1>5 DEF ApplyMndpDevice, refresh
<1>6. CASE Tick
  BY <1>6 DEF Tick, world, refresh
<1>7. CASE Move
  BY <1>7 DEF Move
<1>8. CASE UNCHANGED engineVars
  BY <1>8 DEF engineVars, world, refresh
<1> QED
  BY <1>1, <1>2, <1>3, <1>4, <1>5, <1>6, <1>7, <1>8 DEF EngineNext, Refresh

\* A cable that has lain still gains on no cache by growing older.
LEMMA TickInOrder ==
    ASSUME EngineTypes, Tick
    PROVE  /\ cachedAge' < settled' => cachedAge < settled
           /\ cachedAge >= settled => cachedAge' >= settled'
           /\ cachedAge > Ttl => cachedAge' > Ttl
<1>1. cachedAge \in Ages /\ settled \in Ages
  BY DEF EngineTypes
<1>2. cachedAge \in Nat /\ settled \in Nat
  BY <1>1, EngineAssumption DEF Ages
<1>3. /\ cachedAge' = Later(cachedAge)
      /\ settled' = Later(settled) \/ settled' = settled
  BY DEF Tick
<1>4. /\ Later(cachedAge) \in Nat /\ Later(settled) \in Nat
      /\ settled <= cachedAge => Later(settled) <= Later(cachedAge)
  BY <1>2, LaterInOrder
<1>5. cachedAge <= Later(cachedAge) /\ (cachedAge > Ttl => Later(cachedAge) > Ttl)
  BY <1>1, LaterInRange
<1> QED
  BY <1>2, <1>3, <1>4, <1>5

LEMMA NextCachePlace ==
    EngineTypes /\ HeardInv /\ CachePlaceInv /\ [EngineNext]_engineVars
    => CachePlaceInv'
<1> SUFFICES ASSUME EngineTypes, HeardInv, CachePlaceInv, [EngineNext]_engineVars,
                    cached' # None, cachedAge' < settled'
             PROVE  place' \in Places /\ OfPlace(cached', place')
  BY DEF CachePlaceInv, OfPlace
<1>0. EngineTypes'
  BY NextTypes
<1>1. CASE Found
  <2>1. place' = place /\ settled' = settled /\ cached' = Primary /\ cachedAge' = 0
    BY <1>1 DEF Found, RefreshEnd, world
  <2>2. place \in Places /\ OfPlace(Primary, place)
    BY <1>1, <2>1, PrimaryIsOfPlace DEF Found, RefreshEnd
  <2> QED
    BY <2>1, <2>2
<1>2. CASE FoundInCache \/ NotFound
  <2>1. /\ place' = place /\ settled' = settled /\ cached' = cached
        /\ cachedAge' = cachedAge
    BY <1>2 DEF FoundInCache, NotFound, RefreshEnd, StillAsOld, world, cache
  <2> QED
    BY <2>1 DEF CachePlaceInv
<1>3. CASE ApplyMndpDevice \/ Move
  <2>1. settled' = 0 /\ cachedAge' \in Nat
    BY <1>0, <1>3, EngineAssumption DEF ApplyMndpDevice, Move, EngineTypes, Ages
  <2> QED
    BY <2>1
<1>4. CASE Tick
  <2>1. cachedAge < settled
    BY <1>4, TickInOrder
  <2>2. place' = place /\ cached' = cached
    BY <1>4 DEF Tick, world
  <2> QED
    BY <2>1, <2>2 DEF CachePlaceInv
<1>5. CASE RefreshDown \/ RefreshBegin \/ Hear \/ UNCHANGED engineVars
  <2>1. /\ place' = place /\ settled' = settled /\ cached' = cached
        /\ cachedAge' = cachedAge
    BY <1>5 DEF RefreshDown, RefreshBegin, Hear, engineVars, world, cache
  <2> QED
    BY <2>1 DEF CachePlaceInv
<1> QED
  BY <1>1, <1>2, <1>3, <1>4, <1>5 DEF EngineNext, Refresh

LEMMA NextMissed ==
    EngineTypes /\ NeighborsInv /\ MissedInv /\ [EngineNext]_engineVars => MissedInv'
<1> SUFFICES ASSUME EngineTypes, NeighborsInv, MissedInv, [EngineNext]_engineVars,
                    missed'
             PROVE  MissedInv'
  BY DEF MissedInv
<1> USE DEF MissedInv
<1>0. EngineTypes'
  BY NextTypes
<1>1. CASE RefreshDown
  BY <1>1 DEF RefreshDown, Carrier, world
<1>2. CASE Found \/ FoundInCache
  <2>1. CASE Found
    BY <2>1 DEF Found, RefreshEnd
  <2>2. CASE FoundInCache
    <3>1. IsNeighbor(cached) /\ cached.available
      BY <2>2 DEF FoundInCache, CacheFresh, NeighborsInv
    <3>2. [cached EXCEPT !.message = "cached"].available
      BY <3>1 DEF IsNeighbor, Fields, Texts
    <3>3. neighbor' = [cached EXCEPT !.message = "cached"] /\ missed' = ~neighbor'.available
      BY <2>2 DEF FoundInCache, RefreshEnd
    <3> QED
      BY <3>2, <3>3
  <2> QED
    BY <1>2, <2>1, <2>2
<1>3. CASE NotFound
  <2>1. ~CacheFresh /\ cached' = cached /\ cachedAge' = cachedAge
    BY <1>3 DEF NotFound, cache
  <2>2. cachedAge \in Int /\ Ttl \in Int
    BY EngineAssumption DEF EngineTypes, Ages
  <2> QED
    BY <2>1, <2>2 DEF CacheFresh
<1>4. CASE ApplyMndpDevice \/ Move
  <2>1. settled' = 0
    BY <1>4 DEF ApplyMndpDevice, Move
  <2>2. cachedAge' \in Ages
    BY <1>0 DEF EngineTypes
  <2> QED
    BY <2>1, <2>2, EngineAssumption DEF Ages
<1>5. CASE Tick
  <2>1. place' = place /\ cached' = cached /\ missed' = missed
    BY <1>5 DEF Tick, world
  <2> QED
    BY <1>5, <2>1, TickInOrder
<1>6. CASE RefreshBegin \/ Hear \/ UNCHANGED engineVars
  BY <1>6 DEF RefreshBegin, Hear, engineVars, world, cache
<1> QED
  BY <1>1, <1>2, <1>3, <1>4, <1>5, <1>6 DEF EngineNext, Refresh

LEMMA NextEngineInv == EngineInv /\ [EngineNext]_engineVars => EngineInv'
BY NextTypes, NextNeighbors, NextHeard, NextDue, NextCachePlace, NextMissed
   DEF EngineInv

-------------------------------------------------------------------------------
(* The end of a refresh on a cable that was left alone.                         *)

\* What answers for a place keeps its name in the cache.
LEMMA CachedIsOfPlace ==
    ASSUME NEW n, IsNeighbor(n), NEW p, OfPlace(n, p)
    PROVE  OfPlace([n EXCEPT !.message = "cached"], p)
<1>1. [n EXCEPT !.message = "cached"].chassis = n.chassis
  BY DEF IsNeighbor, Fields, Texts
<1> QED
  BY <1>1 DEF OfPlace

LEMMA EndsOfPlace ==
    EngineInv /\ [EngineNext]_engineVars
    => (Ends /\ due /\ patient /\ MndpOf[place] # {} =>
            IF neighbor'.available THEN OfPlace(neighbor', place) ELSE ~missed)
<1> SUFFICES ASSUME EngineInv, [EngineNext]_engineVars, Ends, due, patient,
                    MndpOf[place] # {}
             PROVE  IF neighbor'.available THEN OfPlace(neighbor', place) ELSE ~missed
  OBVIOUS
<1> USE DEF EngineInv
<1>0. settled > Ttl /\ settled \in Nat /\ Ttl \in Nat /\ cachedAge \in Nat
  BY EngineAssumption DEF DueInv, EngineTypes, Ages
<1>1. CASE Found
  <2>1. neighbor' = Primary /\ Primary.available
    BY <1>1 DEF Found
  <2>2. OfPlace(Primary, place)
    BY <1>0, <2>1, PrimaryIsOfPlace DEF Ends
  <2> QED
    BY <2>1, <2>2
<1>2. CASE FoundInCache
  <2>1. cached # None /\ cachedAge < settled
    BY <1>0, <1>2 DEF FoundInCache, CacheFresh
  <2>2. OfPlace(cached, place) /\ IsNeighbor(cached) /\ cached.available
    BY <2>1 DEF CachePlaceInv, NeighborsInv
  <2>3. OfPlace([cached EXCEPT !.message = "cached"], place)
    BY <2>2, CachedIsOfPlace
  <2>4. [cached EXCEPT !.message = "cached"].available
    BY <2>2 DEF IsNeighbor, Fields, Texts
  <2>5. neighbor' = [cached EXCEPT !.message = "cached"]
    BY <1>2 DEF FoundInCache
  <2> QED
    BY <2>3, <2>4, <2>5
<1>3. CASE NotFound
  <2>1. neighbor' = Primary /\ ~Primary.available /\ HeardAll
    BY <1>3 DEF NotFound, RefreshEnd
  <2>2. ~missed
    <3> SUFFICES ASSUME missed PROVE FALSE
      OBVIOUS
    <3>1. listening = "full"
      BY DEF DueInv
    <3> QED
      BY <2>1, <3>1, FullListenFinds
  <2> QED
    BY <2>1, <2>2
<1>4. CASE RefreshDown \/ RefreshBegin \/ Hear \/ ApplyMndpDevice \/ Tick \/ Move
           \/ UNCHANGED engineVars
  BY <1>4 DEF RefreshDown, RefreshBegin, Hear, ApplyMndpDevice, Tick, Move,
              engineVars, refresh, Ends
<1> QED
  BY <1>1, <1>2, <1>3, <1>4 DEF EngineNext, Refresh

\* The variables of the engine keep their types, the switches of carrier and of the
\* listening as well as the three ages, which stop at their bound (engine.py:29-98).
THEOREM EngineIsTyped == EngineSpec => []EngineTypeOK
<1>1. EngineInv => EngineTypeOK
  BY DEF EngineInv, EngineTypes, EngineTypeOK
<1> QED
  BY InitEngineInv, NextEngineInv, <1>1, PTL DEF EngineSpec

\* A cable left alone for longer than the time to live, on a switch that answers MNDP,
\* shows a device of that place, and no two refreshes in a row show nothing
\* (engine.py:55-68, 84-98).
THEOREM SettledCableIsShown == EngineSpec => FoundInTime
<1>1. EngineInv /\ [EngineNext]_engineVars
      => [Ends /\ due /\ patient /\ MndpOf[place] # {} =>
             IF neighbor'.available THEN OfPlace(neighbor', place) ELSE ~missed]_engineVars
  BY EndsOfPlace
<1> QED
  BY InitEngineInv, NextEngineInv, <1>1, PTL DEF EngineSpec, FoundInTime

-------------------------------------------------------------------------------
(* The knob and the keys.                                                          *)

\* A knob that n phases have been turned since the last poll: two of them, skipped,
\* are not seen, one will be.
KnobInv ==
    /\ steps \in Int /\ steps >= 1
    /\ {knob, skipped, offset, acc, detents} \subseteq Int
    /\ knob \in -MaxTurns..MaxTurns
    /\ acc < steps /\ -acc < steps
    /\ \E n \in -2..2 :
           /\ lastAb = Ab(knob - n)
           /\ steps * detents + acc
                  = offset + knob - skipped - (IF n \in {-1, 1} THEN n ELSE 0)

ByLevel == device = "level"

KeyTypes ==
    /\ finger \in BOOLEAN /\ armed \in BOOLEAN /\ quiet \in BOOLEAN
    /\ level \in {0, 1} /\ fires \in 0..2
    /\ fired \in 0..Long /\ down \in 0..Long /\ held \in -1..Long

\* The contact is uncertain for Bounce polls, and then the level is that of the key.
ContactInv ==
    /\ bouncing = IF down <= Bounce THEN Bounce - down ELSE 0
    /\ finger /\ down > Bounce => level = 0

\* By edge: what has fired has done so since the finger last moved, so the debounce
\* outlasts the bouncing; what has not, after a quiet time, has yet to see an edge.
EdgeInv ==
    /\ finger => fires <= 1
    /\ finger /\ fires = 1 => fired < down \/ down > Bounce
    /\ ~finger /\ fires = 2 => fired < down \/ down > Bounce
    /\ finger /\ quiet /\ fires = 0 => level = 1 /\ fired >= Debounce

\* By level: a key that has fired is disarmed until its release, which bounces for
\* less than a press is to be held; one that has not is armed and held for long.
LevelInv ==
    /\ fires <= 1
    /\ level = 1 => armed /\ held = -1
    /\ finger => held < down \/ down = Long
    /\ finger /\ fires = 1 => ~armed /\ down > Bounce
    /\ ~finger /\ fires = 1 => ~armed \/ held < down \/ down > Bounce
    /\ finger /\ fires = 0 =>
           /\ armed /\ fired >= down /\ down < Long - 1
           /\ down > Bounce => held >= down - Bounce - 1

KeyInv ==
    /\ device \in {"encoder", "edge", "level"}
    /\ KeyTypes /\ ContactInv
    /\ ~ByLevel => EdgeInv
    /\ ByLevel => LevelInv

-------------------------------------------------------------------------------
(* The decoder's tables and its division.                                      *)

\* The four phases are told apart, one step clockwise adds one, one back takes one
\* off, and two steps, like none, leave the sum as it is.
LEMMA AbIsPeriodic ==
    ASSUME NEW k \in Int
    PROVE  /\ Ab(k) \in 0..3
           /\ \A n \in -2..2 : Ab(k - n) = Ab(k) => n = 0
           /\ \A n \in -2..2 :
                  Delta(Ab(k - n), Ab(k)) = IF n \in {-1, 1} THEN n ELSE 0
<1>1. PICK r \in 0..3 : r = k % 4
  OBVIOUS
<1>2. \A n \in -2..2 : (k - n) % 4 = (r - n) % 4
  BY <1>1
<1>3. Ab(k) = Phases[r + 1] /\ \A n \in -2..2 : Ab(k - n) = Phases[((r - n) % 4) + 1]
  BY <1>1, <1>2 DEF Ab
<1>4. \A n \in -2..2 : (r - n) % 4 \in 0..3 /\ ((r - n) % 4 = r => n = 0)
  OBVIOUS
<1>5. Phases[1] = 3 /\ Phases[2] = 1 /\ Phases[3] = 0 /\ Phases[4] = 2
  BY DEF Phases
<1>6. ASSUME NEW n \in -2..2
      PROVE  /\ Ab(k - n) = Ab(k) => n = 0
             /\ Delta(Ab(k - n), Ab(k)) = IF n \in {-1, 1} THEN n ELSE 0
  <2>1. n = -2 \/ n = -1 \/ n = 0 \/ n = 1 \/ n = 2
    OBVIOUS
  <2>2. CASE r = 0
    <3>1. Ab(k) = 3
      BY <1>3, <1>5, <2>2
    <3>2. Ab(k - n) = Phases[((0 - n) % 4) + 1]
      BY <1>3, <2>2
    <3> QED
      BY <1>5, <2>1, <3>1, <3>2 DEF Delta
  <2>3. CASE r = 1
    <3>1. Ab(k) = 1
      BY <1>3, <1>5, <2>3
    <3>2. Ab(k - n) = Phases[((1 - n) % 4) + 1]
      BY <1>3, <2>3
    <3> QED
      BY <1>5, <2>1, <3>1, <3>2 DEF Delta
  <2>4. CASE r = 2
    <3>1. Ab(k) = 0
      BY <1>3, <1>5, <2>4
    <3>2. Ab(k - n) = Phases[((2 - n) % 4) + 1]
      BY <1>3, <2>4
    <3> QED
      BY <1>5, <2>1, <3>1, <3>2 DEF Delta
  <2>5. CASE r = 3
    <3>1. Ab(k) = 2
      BY <1>3, <1>5, <2>5
    <3>2. Ab(k - n) = Phases[((3 - n) % 4) + 1]
      BY <1>3, <2>5
    <3> QED
      BY <1>5, <2>1, <3>1, <3>2 DEF Delta
  <2> QED
    BY <1>1, <2>2, <2>3, <2>4, <2>5
<1>7. Ab(k) \in 0..3
  BY <1>1, <1>3, <1>5
<1> QED
  BY <1>6, <1>7

\* Whole steps are taken off, and less than one is left.
LEMMA LessThanADetentIsLeft ==
    ASSUME NEW sum \in Int, steps \in Int, steps >= 1
    PROVE  /\ Whole(sum) \in Int /\ Left(sum) \in Int
           /\ steps * Whole(sum) + Left(sum) = sum
           /\ Left(sum) < steps /\ -Left(sum) < steps
<1>1. ASSUME NEW n \in Nat
      PROVE  /\ n \div steps \in Int /\ steps * (n \div steps) \in Int
             /\ n - steps * (n \div steps) \in 0..steps - 1
  OBVIOUS
<1>2. CASE sum >= 0
  <2>1. Whole(sum) = sum \div steps
    BY <1>2 DEF Whole
  <2> QED
    BY <1>1, <1>2, <2>1 DEF Left
<1>3. CASE sum < 0
  <2>1. Whole(sum) = -((-sum) \div steps)
    BY <1>3 DEF Whole
  <2>2. steps * Whole(sum) = -(steps * ((-sum) \div steps)) /\ Whole(sum) \in Int
    BY <1>1, <1>3, <2>1
  <2> QED
    BY <1>1, <1>3, <2>2 DEF Left
<1> QED
  BY <1>2, <1>3

-------------------------------------------------------------------------------
(* The knob.                                                                    *)

\* Before the first update the sum is 0, and what it leaves is the offset.
LEMMA InitKnob == InputInit => KnobInv
<1> SUFFICES ASSUME InputInit PROVE KnobInv
  OBVIOUS
<1>1. steps \in Int /\ steps >= 1
  BY InputAssumption DEF InputInit
<1>2. knob \in 0..3 /\ skipped = knob /\ lastAb = Ab(knob)
  BY DEF InputInit
<1>3. Delta(0, Ab(knob)) \in Int
  <2>1. Ab(knob) \in 0..3
    BY <1>2, AbIsPeriodic
  <2> QED
    BY <2>1 DEF Delta
<1>4. acc \in Int /\ acc < steps /\ -acc < steps
  BY <1>1, <1>3, LessThanADetentIsLeft DEF InputInit
<1>5. offset = acc /\ detents = 0
  BY DEF InputInit
<1>6. knob \in -MaxTurns..MaxTurns
  BY <1>2, InputAssumption
<1>7. 0 \in -2..2 /\ lastAb = Ab(knob - 0)
  BY <1>2
<1>8. steps * detents + acc = offset + knob - skipped - (IF 0 \in {-1, 1} THEN 0 ELSE 0)
  BY <1>1, <1>2, <1>4, <1>5
<1> QED
  BY <1>1, <1>2, <1>4, <1>5, <1>6, <1>7, <1>8 DEF KnobInv

\* The knob is turned when a poll has seen where it stood.
LEMMA TurnKnob == KnobInv /\ Turn => KnobInv'
<1> SUFFICES ASSUME KnobInv, Turn PROVE KnobInv'
  OBVIOUS
<1>1. /\ Seen
      /\ UNCHANGED <<steps, offset, lastAb, acc, detents>>
      /\ knob' \in -MaxTurns..MaxTurns
  BY DEF Turn, TurnBy
<1>2. PICK n \in -2..2 :
          /\ knob' = knob + n /\ n # 0
          /\ skipped' = skipped + (IF n \in {-1, 1} THEN 0 ELSE n)
  <2>1. CASE \E n \in {-1, 1} : TurnBy(n) /\ UNCHANGED skipped
    BY <2>1 DEF TurnBy, KnobInv
  <2>2. CASE \E n \in {-2, 2} : TurnBy(n) /\ skipped' = skipped + n
    BY <2>2 DEF TurnBy, KnobInv
  <2> QED
    BY <2>1, <2>2 DEF Turn
<1>3. knob \in Int /\ skipped \in Int /\ offset \in Int /\ acc \in Int /\ detents \in Int
  BY DEF KnobInv
<1>4. lastAb = Ab(knob) /\ steps * detents + acc = offset + knob - skipped
  <2>1. PICK m \in -2..2 :
            /\ lastAb = Ab(knob - m)
            /\ steps * detents + acc
                   = offset + knob - skipped - (IF m \in {-1, 1} THEN m ELSE 0)
    BY DEF KnobInv
  <2>2. m = 0
    BY <1>1, <1>3, <2>1, AbIsPeriodic DEF Seen
  <2> QED
    BY <1>1, <1>3, <2>1, <2>2 DEF Seen
<1>5. lastAb' = Ab(knob' - n)
  <2>1. knob' - n = knob
    BY <1>2, <1>3
  <2> QED
    BY <1>1, <1>4, <2>1
<1>6. steps' * detents' + acc'
          = offset' + knob' - skipped' - (IF n \in {-1, 1} THEN n ELSE 0)
  BY <1>1, <1>2, <1>3, <1>4
<1>7. knob' \in Int /\ skipped' \in Int
  BY <1>2, <1>3
<1>8. /\ steps' \in Int /\ steps' >= 1
      /\ {offset', acc', detents'} \subseteq Int
      /\ acc' < steps' /\ -acc' < steps'
  BY <1>1 DEF KnobInv
<1> QED
  BY <1>1, <1>5, <1>6, <1>7, <1>8 DEF KnobInv

\* A poll adds what it sees and takes whole detents off.
LEMMA DecodeKnob == KnobInv /\ Decode /\ UNCHANGED <<steps, offset>> => KnobInv'
<1> SUFFICES ASSUME KnobInv, Decode, UNCHANGED <<steps, offset>> PROVE KnobInv'
  OBVIOUS
<1>1. /\ steps \in Int /\ steps >= 1
      /\ knob \in Int /\ skipped \in Int /\ offset \in Int /\ acc \in Int /\ detents \in Int
  BY DEF KnobInv
<1>2. PICK n \in -2..2 :
          /\ lastAb = Ab(knob - n)
          /\ steps * detents + acc
                 = offset + knob - skipped - (IF n \in {-1, 1} THEN n ELSE 0)
  BY DEF KnobInv
<1> DEFINE seen == IF n \in {-1, 1} THEN n ELSE 0
           sum == acc + seen
<1>3. Delta(lastAb, Ab(knob)) = seen /\ seen \in Int
  BY <1>1, <1>2, AbIsPeriodic
<1>4. /\ lastAb' = Ab(knob) /\ acc' = Left(sum) /\ detents' = detents + Whole(sum)
      /\ UNCHANGED <<knob, skipped, steps, offset>>
  BY <1>3 DEF Decode
<1>5. sum \in Int
  BY <1>1, <1>3
<1>6. steps * detents + sum = offset + knob - skipped
  BY <1>1, <1>2, <1>3
<1> HIDE DEF seen, sum
<1>7. /\ Whole(sum) \in Int /\ Left(sum) \in Int
      /\ steps * Whole(sum) + Left(sum) = sum
      /\ Left(sum) < steps /\ -Left(sum) < steps
  BY <1>1, <1>5, LessThanADetentIsLeft
<1>8. steps * (detents + Whole(sum)) + Left(sum) = offset + knob - skipped
  <2>1. steps * (detents + Whole(sum)) = steps * detents + steps * Whole(sum)
    BY <1>1, <1>7
  <2>2. ASSUME NEW x \in Int, NEW y \in Int, NEW left \in Int,
               x + sum = offset + knob - skipped, y + left = sum
        PROVE  (x + y) + left = offset + knob - skipped
    BY <1>1, <1>5, <2>2
  <2>3. steps * detents \in Int /\ steps * Whole(sum) \in Int
    BY <1>1, <1>7
  <2> QED
    BY <1>6, <1>7, <2>1, <2>2, <2>3
<1>9. 0 \in -2..2 /\ lastAb' = Ab(knob' - 0)
  BY <1>1, <1>4
<1>10. steps' * detents' + acc'
           = offset' + knob' - skipped' - (IF 0 \in {-1, 1} THEN 0 ELSE 0)
  BY <1>1, <1>4, <1>8
<1>11. /\ knob' \in -MaxTurns..MaxTurns
       /\ {knob', skipped', offset', acc', detents'} \subseteq Int
       /\ steps' \in Int /\ steps' >= 1 /\ acc' < steps' /\ -acc' < steps'
  BY <1>1, <1>4, <1>7 DEF KnobInv
<1> QED
  BY <1>9, <1>10, <1>11 DEF KnobInv

LEMMA KnobStep == KnobInv /\ [InputNext]_inputVars => KnobInv'
<1> SUFFICES ASSUME KnobInv, [InputNext]_inputVars PROVE KnobInv'
  OBVIOUS
<1>1. CASE Turn
  BY <1>1, TurnKnob
<1>2. CASE UNCHANGED <<steps, offset, knobVars>>
  BY <1>2 DEF KnobInv, knobVars
<1>3. CASE MoveFinger
  BY <1>2, <1>3 DEF MoveFinger
<1>4. CASE Poll
  <2>1. UNCHANGED <<steps, offset>> /\ (Decode \/ UNCHANGED knobVars)
    BY <1>4 DEF Poll
  <2> QED
    BY <1>2, <2>1, DecodeKnob
<1>5. CASE UNCHANGED inputVars
  BY <1>2, <1>5 DEF inputVars
<1> QED
  BY <1>1, <1>3, <1>4, <1>5 DEF InputNext

LEMMA KnobIsDecoded == InputSpec => []KnobInv
<1> QED
  BY InitKnob, KnobStep, PTL DEF InputSpec

\* However the knob is turned, and however the polls fall, what has been handled and
\* what is left in the accumulator make up the phases the polls could see
\* (encoder.py:60-75), for every number of phases to a detent.
THEOREM EveryDetentIsCounted == InputSpec => []DetentsAreCounted
<1>1. KnobInv => DetentsAreCounted
  <2> SUFFICES ASSUME KnobInv, Seen
               PROVE  /\ steps * detents + acc = offset + knob - skipped
                      /\ acc < steps /\ -acc < steps
    BY DEF DetentsAreCounted
  <2>1. knob \in Int /\ skipped \in Int /\ offset \in Int
    BY DEF KnobInv
  <2>2. PICK n \in -2..2 :
            /\ lastAb = Ab(knob - n)
            /\ steps * detents + acc
                   = offset + knob - skipped - (IF n \in {-1, 1} THEN n ELSE 0)
    BY DEF KnobInv
  <2>3. n = 0
    BY <2>1, <2>2, AbIsPeriodic DEF Seen
  <2>4. steps * detents + acc = offset + knob - skipped
    BY <2>1, <2>2, <2>3
  <2> QED
    BY <2>4 DEF KnobInv
<1> QED
  BY <1>1, KnobIsDecoded, PTL

-------------------------------------------------------------------------------
(* The keys.                                                                    *)

LEMMA CountIsCapped ==
    /\ Long \in Nat /\ Long = Bounce + Confirm + Debounce + 1
    /\ \A p \in -1..Long :
           /\ p < Long => Count(p) = p + 1
           /\ p = Long => Count(p) = Long
<1>1. Long \in Nat /\ Long = Bounce + Confirm + Debounce + 1
  BY InputAssumption DEF Long
<1> QED
  BY <1>1 DEF Count

LEMMA InitKeys == InputInit => KeyInv
<1> SUFFICES ASSUME InputInit PROVE KeyInv
  OBVIOUS
<1>1. Long \in Nat /\ Long > Bounce /\ Bounce \in Nat
  BY CountIsCapped, InputAssumption
<1>2. /\ finger = FALSE /\ bouncing = 0 /\ level = 1 /\ fired = Long
      /\ held = -1 /\ armed = TRUE /\ down = Long /\ quiet = TRUE /\ fires = 0
  BY DEF InputInit
<1>3. KeyTypes
  <2>1. finger \in BOOLEAN /\ armed \in BOOLEAN /\ quiet \in BOOLEAN
    BY <1>2
  <2>2. /\ level \in {0, 1} /\ fires \in 0..2
        /\ fired \in 0..Long /\ down \in 0..Long /\ held \in -1..Long
    BY <1>1, <1>2
  <2> QED
    BY <2>1, <2>2 DEF KeyTypes
<1>4. ContactInv /\ EdgeInv /\ LevelInv
  BY <1>1, <1>2 DEF ContactInv, EdgeInv, LevelInv
<1> QED
  BY <1>3, <1>4 DEF KeyInv, InputInit

\* The finger moves when the contact is at rest, so a press begins with the key up,
\* and, by level, armed.
LEMMA MoveKeeps == KeyInv /\ MoveFinger => KeyInv'
<1> SUFFICES ASSUME KeyInv, MoveFinger PROVE KeyInv'
  OBVIOUS
<1>1. /\ bouncing = 0 /\ level = Rest
      /\ finger' = ~finger /\ bouncing' = Bounce /\ down' = 0
      /\ UNCHANGED <<device, level, fired, held, armed>>
      /\ IF finger THEN UNCHANGED <<quiet, fires>>
         ELSE quiet' = (fired >= Debounce) /\ fires' = 0
  BY DEF MoveFinger
<1>2. /\ Long \in Nat /\ Long > Bounce + Confirm + 1 /\ Bounce \in Nat /\ Confirm \in Nat
      /\ Debounce \in Nat /\ Confirm > Bounce /\ Debounce > Bounce
  BY CountIsCapped, InputAssumption
<1>3. KeyTypes
  BY DEF KeyInv
<1>4. KeyTypes'
  <2>1. finger' \in BOOLEAN /\ armed' \in BOOLEAN /\ quiet' \in BOOLEAN
    <3>1. finger' \in BOOLEAN /\ armed' \in BOOLEAN
      BY <1>1, <1>3 DEF KeyTypes
    <3>2. quiet' = quiet \/ quiet' = (fired >= Debounce)
      BY <1>1
    <3>3. quiet \in BOOLEAN /\ (fired >= Debounce) \in BOOLEAN
      BY <1>3 DEF KeyTypes
    <3> QED
      BY <3>1, <3>2, <3>3
  <2>2. fires' \in 0..2
    BY <1>1, <1>3 DEF KeyTypes
  <2>3. /\ level' \in {0, 1} /\ down' \in 0..Long
        /\ fired' \in 0..Long /\ held' \in -1..Long
    BY <1>1, <1>2, <1>3 DEF KeyTypes
  <2> QED
    BY <2>1, <2>2, <2>3 DEF KeyTypes
<1>5. ContactInv'
  BY <1>1, <1>2 DEF ContactInv
<1>6. CASE finger
  <2>1. ~finger' /\ fires' = fires
    BY <1>1, <1>3, <1>6 DEF KeyTypes
  <2>2. level' = 0
    BY <1>1, <1>6 DEF Rest
  <2>3. ~ByLevel => EdgeInv'
    BY <1>3, <1>6, <2>1 DEF KeyInv, KeyTypes, EdgeInv
  <2>4. ByLevel => LevelInv'
    BY <1>1, <1>3, <1>6, <2>1, <2>2 DEF KeyInv, KeyTypes, LevelInv
  <2> QED
    BY <1>1, <1>4, <1>5, <2>3, <2>4 DEF KeyInv, ByLevel
<1>7. CASE ~finger
  <2>1. finger' /\ fires' = 0 /\ quiet' = (fired >= Debounce)
    BY <1>1, <1>3, <1>7 DEF KeyTypes
  <2>2. level = 1 /\ level' = 1
    BY <1>1, <1>7 DEF Rest
  <2>3. ~ByLevel => EdgeInv'
    <3>1. quiet' => fired' >= Debounce
      BY <1>1, <2>1
    <3>2. ~(fires' = 1) /\ fires' <= 1 /\ ~(~finger')
      BY <2>1
    <3> QED
      BY <2>2, <3>1, <3>2 DEF EdgeInv
  <2>4. ByLevel => LevelInv'
    <3>1. ByLevel => armed /\ held = -1
      BY <2>2 DEF KeyInv, LevelInv
    <3> QED
      BY <1>1, <1>2, <1>3, <2>1, <2>2, <3>1 DEF LevelInv, KeyTypes
  <2> QED
    BY <1>1, <1>4, <1>5, <2>3, <2>4 DEF KeyInv, ByLevel
<1> QED
  BY <1>6, <1>7

\* A poll reads the contact, uncertain or not, and counts what has passed.
LEMMA PollReads ==
    ASSUME KeyInv, PollKey
    PROVE  /\ level' \in {0, 1} /\ fires \in 0..2
           /\ down' = Count(down) /\ down \in 0..Long /\ down' \in 1..Long
           /\ down >= Bounce => level' = IF finger THEN 0 ELSE 1
           /\ ContactInv'
           /\ finger' = finger /\ quiet' = quiet
<1>1. PICK now \in Read :
          /\ level' = now /\ down' = Count(down)
          /\ bouncing' = IF bouncing > 0 THEN bouncing - 1 ELSE 0
          /\ UNCHANGED <<finger, quiet>>
  BY DEF PollKey
<1>2. /\ Long \in Nat /\ Long > Bounce /\ Bounce \in Nat
      /\ down < Long => Count(down) = down + 1
      /\ down = Long => Count(down) = Long
  BY CountIsCapped, InputAssumption DEF KeyInv, KeyTypes
<1>3. down \in 0..Long /\ fires \in 0..2 /\ ContactInv
  BY DEF KeyInv, KeyTypes
<1>4. down' \in 1..Long
  BY <1>1, <1>2, <1>3, InputAssumption, CountIsCapped
<1>5. now \in {0, 1} /\ (bouncing = 0 => now = IF finger THEN 0 ELSE 1)
  BY <1>1 DEF Read, Rest
<1>6. down >= Bounce => bouncing = 0
  BY <1>2, <1>3 DEF ContactInv
<1>7. bouncing' = IF down' <= Bounce THEN Bounce - down' ELSE 0
  BY <1>1, <1>2, <1>3 DEF ContactInv
<1>8. finger' /\ down' > Bounce => level' = 0
  <2>1. down' > Bounce => down >= Bounce
    BY <1>1, <1>2, <1>3
  <2> QED
    BY <1>1, <1>5, <1>6, <2>1
<1> QED
  BY <1>1, <1>3, <1>4, <1>5, <1>6, <1>7, <1>8 DEF ContactInv

\* By edge: while the contact bounces, what has fired since the finger moved cannot
\* fire again; later there is no edge.
LEMMA PollByEdge == KeyInv /\ ~ByLevel /\ PollKey => KeyTypes' /\ EdgeInv'
<1> SUFFICES ASSUME KeyInv, ~ByLevel, PollKey PROVE KeyTypes' /\ EdgeInv'
  OBVIOUS
<1> DEFINE fire == level = 1 /\ level' = 0 /\ Count(fired) >= Debounce
<1>1. /\ fired' = IF fire THEN 0 ELSE Count(fired)
      /\ fires' = fires + IF fire THEN 1 ELSE 0
      /\ held' = held /\ armed' = armed
  BY DEF PollKey, EdgeFires, Debounced, ByLevel
<1>2. /\ level' \in {0, 1} /\ fires \in 0..2
      /\ down' = Count(down) /\ down \in 0..Long /\ down' \in 1..Long
      /\ down >= Bounce => level' = IF finger THEN 0 ELSE 1
      /\ finger' = finger /\ quiet' = quiet
  BY PollReads
<1>3. /\ Long \in Nat /\ Long > Bounce /\ Bounce \in Nat /\ Debounce \in Nat
      /\ Debounce > Bounce /\ Long > Debounce
  BY CountIsCapped, InputAssumption
<1>4. /\ fired \in 0..Long /\ held \in -1..Long
      /\ level \in {0, 1} /\ {finger, armed, quiet} \subseteq BOOLEAN
  BY DEF KeyInv, KeyTypes
<1>5. /\ fired < Long => Count(fired) = fired + 1
      /\ fired = Long => Count(fired) = Long
      /\ down < Long => Count(down) = down + 1
      /\ down = Long => Count(down) = Long
  BY <1>2, <1>4, CountIsCapped
<1>6. EdgeInv /\ (finger /\ down > Bounce => level = 0)
  BY DEF KeyInv, ContactInv
<1>7. finger /\ fires = 1 => ~fire
  BY <1>2, <1>3, <1>4, <1>5, <1>6 DEF EdgeInv
<1>8. ~finger /\ fires = 2 => ~fire
  BY <1>2, <1>3, <1>4, <1>5, <1>6 DEF EdgeInv
<1>9. finger /\ fires = 0 /\ quiet => (fire \/ level' = 1) /\ Count(fired) >= Debounce
  BY <1>2, <1>3, <1>4, <1>5, <1>6 DEF EdgeInv
<1> HIDE DEF fire
<1>10. finger => fires <= 1
  BY <1>6 DEF EdgeInv
<1>11. fires' \in 0..2 /\ (finger' => fires' <= 1)
  BY <1>1, <1>2, <1>7, <1>8, <1>10
<1>12. fired' \in 0..Long
  BY <1>1, <1>3, <1>4, <1>5
<1>13. finger' /\ fires' = 1 => fired' < down' \/ down' > Bounce
  <2>1. CASE fire
    BY <1>1, <1>2, <2>1
  <2>2. CASE ~fire
    <3>1. finger /\ fires = 1 => fired < down \/ down > Bounce
      BY <1>6 DEF EdgeInv
    <3> QED
      BY <1>1, <1>2, <1>3, <1>4, <1>5, <2>2, <3>1
  <2> QED
    BY <2>1, <2>2
<1>14. ~finger' /\ fires' = 2 => fired' < down' \/ down' > Bounce
  <2>1. CASE fire
    BY <1>1, <1>2, <2>1
  <2>2. CASE ~fire
    <3>1. ~finger /\ fires = 2 => fired < down \/ down > Bounce
      BY <1>6 DEF EdgeInv
    <3> QED
      BY <1>1, <1>2, <1>3, <1>4, <1>5, <2>2, <3>1
  <2> QED
    BY <2>1, <2>2
<1>15. finger' /\ quiet' /\ fires' = 0 => level' = 1 /\ fired' >= Debounce
  BY <1>1, <1>2, <1>9
<1> QED
  BY <1>1, <1>2, <1>4, <1>11, <1>12, <1>13, <1>14, <1>15 DEF KeyTypes, EdgeInv

\* By level: a press is held for Confirm polls only behind the bouncing, which is
\* shorter, and then until the release; and a key that has fired stays disarmed.
LEMMA PollByLevel == KeyInv /\ ByLevel /\ PollKey => KeyTypes' /\ LevelInv'
<1> SUFFICES ASSUME KeyInv, ByLevel, PollKey PROVE KeyTypes' /\ LevelInv'
  OBVIOUS
<1> DEFINE longer == IF level' = 1 THEN -1 ELSE IF held = -1 THEN 0 ELSE Count(held)
           fire == level' = 0 /\ longer >= Confirm /\ armed /\ Count(fired) >= Debounce
<1>1. /\ fired' = IF fire THEN 0 ELSE Count(fired)
      /\ fires' = fires + IF fire THEN 1 ELSE 0
      /\ held' = longer
      /\ armed' = (level' = 1 \/ (armed /\ ~fire))
  BY DEF PollKey, LevelFires, HeldFor, Debounced, ByLevel
<1>2. /\ level' \in {0, 1} /\ fires \in 0..2
      /\ down' = Count(down) /\ down \in 0..Long /\ down' \in 1..Long
      /\ down >= Bounce => level' = IF finger THEN 0 ELSE 1
      /\ finger' = finger /\ quiet' = quiet
  BY PollReads
<1>3. /\ Long \in Nat /\ Long = Bounce + Confirm + Debounce + 1
      /\ Bounce \in Nat /\ Confirm \in Nat /\ Debounce \in Nat
      /\ Debounce > Bounce /\ Confirm > Bounce
  BY CountIsCapped, InputAssumption
<1>4. /\ fired \in 0..Long /\ held \in -1..Long /\ level \in {0, 1}
      /\ {finger, armed, quiet} \subseteq BOOLEAN
  BY DEF KeyInv, KeyTypes
<1>5. /\ fired < Long => Count(fired) = fired + 1
      /\ fired = Long => Count(fired) = Long
      /\ down < Long => Count(down) = down + 1
      /\ down = Long => Count(down) = Long
      /\ held < Long => Count(held) = held + 1
      /\ held = Long => Count(held) = Long
  BY <1>2, <1>4, CountIsCapped
<1>6. /\ fires <= 1
      /\ finger => held < down \/ down = Long
      /\ finger /\ fires = 1 => ~armed /\ down > Bounce
      /\ ~finger /\ fires = 1 => ~armed \/ held < down \/ down > Bounce
      /\ finger /\ fires = 0 =>
             /\ armed /\ fired >= down /\ down < Long - 1
             /\ down > Bounce => held >= down - Bounce - 1
  BY DEF KeyInv, LevelInv
<1>7. longer \in -1..Long /\ fired' \in 0..Long
  BY <1>1, <1>2, <1>3, <1>4, <1>5
<1>8. finger /\ fire => down > Bounce
  BY <1>2, <1>3, <1>4, <1>5, <1>6
<1>9. ~finger /\ fires = 1 => ~fire
  BY <1>2, <1>3, <1>4, <1>5, <1>6
<1>10. finger /\ fires = 0 /\ ~fire => down' < Long - 1
  <2> SUFFICES ASSUME finger, fires = 0, ~fire, down' >= Long - 1 PROVE FALSE
    BY <1>2, <1>3
  <2>1. down = Long - 2 /\ down >= Bounce + Confirm /\ down + 1 >= Debounce
    BY <1>2, <1>3, <1>5, <1>6
  <2>2. level' = 0 /\ Count(fired) >= Debounce
    BY <1>2, <1>3, <1>4, <1>5, <1>6, <2>1
  <2>3. longer >= Confirm
    BY <1>3, <1>4, <1>5, <1>6, <2>1, <2>2
  <2> QED
    BY <1>6, <2>2, <2>3
<1>11. finger => longer < down' \/ down' = Long
  BY <1>2, <1>3, <1>4, <1>5, <1>6
<1>12. ~finger => level' = 1 \/ down' <= Bounce
  BY <1>2, <1>3, <1>5
<1>13. finger /\ fires = 0 /\ down' > Bounce => longer >= down' - Bounce - 1
  <2>1. down' > Bounce => down >= Bounce
    BY <1>2, <1>3, <1>5
  <2> QED
    BY <1>2, <1>3, <1>4, <1>5, <1>6, <2>1
<1>14. ~finger /\ fires = 1 => ~armed \/ longer < down'
  BY <1>2, <1>3, <1>4, <1>5, <1>6
<1>15. finger /\ fires = 0 => Count(fired) >= down'
  BY <1>2, <1>3, <1>4, <1>5, <1>6
<1>16. level' = 1 => longer = -1 /\ ~fire
  BY <1>2
<1>17. down' >= down
  BY <1>2, <1>3, <1>5
<1> HIDE DEF fire, longer
<1>18. fires' \in 0..1 /\ fires' = IF fire THEN 1 ELSE fires
  <2>1. fire => fires = 0
    <3>1. finger /\ fires = 1 => ~fire
      <4>1. fire => armed
        BY DEF fire
      <4> QED
        BY <1>6, <4>1
    <3>2. fires = 0 \/ fires = 1
      BY <1>2, <1>6
    <3> QED
      BY <1>9, <3>1, <3>2
  <2> QED
    BY <1>1, <1>2, <1>6, <2>1
<1>19. finger' \in BOOLEAN /\ armed' \in BOOLEAN /\ quiet' \in BOOLEAN
  BY <1>1, <1>2, <1>4
<1>20. KeyTypes'
  BY <1>1, <1>2, <1>7, <1>18, <1>19 DEF KeyTypes
<1>21. level' = 1 => armed' /\ held' = -1
  BY <1>1, <1>16
<1>22. finger' => held' < down' \/ down' = Long
  BY <1>1, <1>2, <1>11
<1>23. finger' /\ fires' = 1 => ~armed' /\ down' > Bounce
  <2> SUFFICES ASSUME finger, fires' = 1 PROVE ~armed' /\ down' > Bounce
    BY <1>2
  <2>1. down > Bounce /\ (fire \/ ~armed)
    BY <1>6, <1>8, <1>18
  <2>2. level' # 1 /\ down' > Bounce
    BY <1>2, <1>3, <1>17, <2>1
  <2>3. ~armed'
    BY <1>1, <2>1, <2>2, Zenon
  <2> QED
    BY <2>2, <2>3
<1>24. ~finger' /\ fires' = 1 => ~armed' \/ held' < down' \/ down' > Bounce
  <2> SUFFICES ASSUME ~finger, fires' = 1 PROVE ~armed' \/ held' < down'
    BY <1>2
  <2>1. CASE level' = 1
    BY <1>1, <1>2, <1>16, <2>1
  <2>2. CASE level' # 1 /\ fire
    BY <1>1, <2>2, Zenon
  <2>3. CASE level' # 1 /\ ~fire
    <3>1. ~armed \/ longer < down'
      BY <1>14, <1>18, <2>3
    <3> QED
      BY <1>1, <2>3, <3>1, Zenon
  <2> QED
    BY <1>2, <2>1, <2>2, <2>3
<1>25. finger' /\ fires' = 0 =>
           /\ armed' /\ fired' >= down' /\ down' < Long - 1
           /\ down' > Bounce => held' >= down' - Bounce - 1
  <2> SUFFICES ASSUME finger, fires' = 0
               PROVE  /\ armed' /\ fired' >= down' /\ down' < Long - 1
                      /\ down' > Bounce => held' >= down' - Bounce - 1
    BY <1>2
  <2>1. ~fire /\ fires = 0
    BY <1>18
  <2>2. armed' /\ fired' >= down'
    BY <1>1, <1>6, <1>15, <2>1
  <2> QED
    BY <1>1, <1>10, <1>13, <2>1, <2>2
<1> QED
  BY <1>18, <1>20, <1>21, <1>22, <1>23, <1>24, <1>25 DEF LevelInv

LEMMA KeyStep == KeyInv /\ [InputNext]_inputVars => KeyInv'
<1> SUFFICES ASSUME KeyInv, [InputNext]_inputVars PROVE KeyInv'
  OBVIOUS
<1>1. CASE UNCHANGED <<device, keyVars>>
  BY <1>1 DEF KeyInv, KeyTypes, ContactInv, EdgeInv, LevelInv, ByLevel, keyVars
<1>2. CASE Turn
  BY <1>1, <1>2 DEF Turn
<1>3. CASE MoveFinger
  BY <1>3, MoveKeeps
<1>4. CASE Poll
  <2>1. PollKey /\ device' = device
    BY <1>4 DEF Poll
  <2>2. ContactInv'
    BY <2>1, PollReads
  <2> QED
    BY <2>1, <2>2, PollByEdge, PollByLevel DEF KeyInv, ByLevel
<1>5. CASE UNCHANGED inputVars
  BY <1>1, <1>5 DEF inputVars
<1> QED
  BY <1>2, <1>3, <1>4, <1>5 DEF InputNext

LEMMA KeysAreRead == InputSpec => []KeyInv
<1> QED
  BY InitKeys, KeyStep, PTL DEF InputSpec

\* One press is one action (encoder.py:145-152, buttons.py:108-152) for every
\* debounce and every time to confirm that are longer than the contact bounces.
THEOREM EveryPressActsOnce == InputSpec => []OneActionPerPress
<1>1. KeyInv => OneActionPerPress
  <2> SUFFICES ASSUME KeyInv PROVE OneActionPerPress
    OBVIOUS
  <2>1. /\ Long \in Nat /\ Long - 1 > Bounce /\ Bounce \in Nat
        /\ down \in 0..Long /\ fires \in 0..2
    BY CountIsCapped, InputAssumption DEF KeyInv, KeyTypes
  <2>2. finger \/ ByLevel => fires <= 1
    BY DEF KeyInv, EdgeInv, LevelInv
  <2>3. ASSUME finger, down >= Long - 1, ByLevel \/ quiet PROVE fires = 1
    <3>1. fires # 0
      <4>1. level = 0
        BY <2>1, <2>3 DEF KeyInv, ContactInv
      <4>2. CASE ByLevel
        <5>1. fires = 0 => down < Long - 1
          BY <2>3, <4>2 DEF KeyInv, LevelInv
        <5> QED
          BY <2>1, <2>3, <5>1
      <4>3. CASE ~ByLevel
        BY <2>3, <4>1, <4>3 DEF KeyInv, EdgeInv
      <4> QED
        BY <4>2, <4>3
    <3> QED
      BY <2>1, <2>2, <2>3, <3>1
  <2> QED
    BY <2>1, <2>2, <2>3 DEF OneActionPerPress, ByLevel
<1> QED
  BY <1>1, KeysAreRead, PTL

\* The types of the knob's and the keys' variables, the accumulator within a detent
\* and the uncertain polls within Bounce.
THEOREM InputsAreTyped == InputSpec => []InputTypeOK
<1>1. KnobInv /\ KeyInv => InputTypeOK
  <2> SUFFICES ASSUME KnobInv, KeyInv PROVE InputTypeOK
    OBVIOUS
  <2>1. lastAb \in 0..3
    <3>1. PICK n \in -2..2 : lastAb = Ab(knob - n)
      BY DEF KnobInv
    <3>2. knob - n \in Int
      BY DEF KnobInv
    <3> QED
      BY <3>1, <3>2, AbIsPeriodic
  <2>2. {acc, -acc} \subseteq -steps..steps
    BY DEF KnobInv
  <2>3. bouncing \in 0..Bounce
    BY CountIsCapped, InputAssumption DEF KeyInv, KeyTypes, ContactInv
  <2>4. /\ {finger, armed, quiet} \subseteq BOOLEAN
        /\ held \in -1..Long /\ {fired, down} \subseteq 0..Long /\ level \in {0, 1}
    BY DEF KeyInv, KeyTypes
  <2> QED
    BY <2>1, <2>2, <2>3, <2>4 DEF KnobInv, KeyInv, InputTypeOK
<1> QED
  BY <1>1, KnobIsDecoded, KeysAreRead, PTL

-------------------------------------------------------------------------------
(* The wizard's scans.                                                          *)

\* Of finitely many hosts, one has an address that no other's is behind.
LEMMA HighestAddress ==
    ASSUME NEW hosts, IsFiniteSet(hosts), hosts # {}, \A h \in hosts : h.ip \in Nat
    PROVE  \E h \in hosts : \A g \in hosts : g.ip <= h.ip
<1> DEFINE Topless(n) == \E A \in SUBSET hosts :
                             /\ A # {} /\ Cardinality(A) = n
                             /\ ~\E h \in A : \A g \in A : g.ip <= h.ip
           Bad == {n \in Nat : Topless(n)}
<1>1. SUFFICES ASSUME Bad # {} PROVE FALSE
  <2>1. Cardinality(hosts) \in Nat
    BY FS_CardinalityType
  <2> QED
    BY <2>1
<1>2. PICK n \in Bad : \A m \in Bad : n <= m
  <2>1. Bad \in SUBSET Nat
    OBVIOUS
  <2> QED
    BY <1>1, <2>1, LeastNumber
<1>3. PICK A \in SUBSET hosts :
          /\ A # {} /\ Cardinality(A) = n
          /\ ~\E h \in A : \A g \in A : g.ip <= h.ip
  BY <1>2
<1>4. PICK a \in A : TRUE
  BY <1>3
<1>5. IsFiniteSet(A)
  BY FS_Subset
<1>6. Cardinality(A \ {a}) = n - 1 /\ n - 1 \in Nat /\ n \in Nat
  <2>1. Cardinality(A \ {a}) = Cardinality(A) - 1 /\ IsFiniteSet(A \ {a})
    BY <1>4, <1>5, FS_RemoveElement
  <2>2. Cardinality(A \ {a}) \in Nat
    BY <2>1, FS_CardinalityType
  <2> QED
    BY <1>3, <2>1, <2>2
<1>7. CASE A \ {a} = {}
  <2>1. \A g \in A : g = a
    BY <1>7
  <2>2. a.ip <= a.ip
    BY <1>4
  <2> QED
    BY <1>3, <1>4, <2>1, <2>2
<1>8. CASE A \ {a} # {}
  <2>1. ~Topless(n - 1)
    BY <1>2, <1>6
  <2>2. PICK h \in A \ {a} : \A g \in A \ {a} : g.ip <= h.ip
    BY <1>6, <1>8, <2>1
  <2>3. h.ip \in Nat /\ a.ip \in Nat /\ \A g \in A : g.ip \in Nat
    BY <1>4, <2>2
  <2>4. CASE a.ip <= h.ip
    BY <1>3, <2>2, <2>4
  <2>5. CASE h.ip <= a.ip
    <3>1. \A g \in A : g.ip <= a.ip
      BY <2>2, <2>3, <2>5
    <3> QED
      BY <1>3, <1>4, <3>1
  <2> QED
    BY <2>3, <2>4, <2>5
<1> QED
  BY <1>7, <1>8

\* Of the hosts of one device ByMac gives one of them.
LEMMA ByMacIsOfMac ==
    ASSUME NEW hosts \in SUBSET Hosts, NEW mac \in MacsOf(hosts)
    PROVE  ByMac(hosts, mac) \in hosts /\ ByMac(hosts, mac).mac = mac
<1> DEFINE mine == {h \in hosts : h.mac = mac}
<1>1. IsFiniteSet(mine)
  <2>1. mine \in SUBSET Hosts /\ IsFiniteSet(Hosts)
    BY ScansAssumption
  <2> QED
    BY <2>1, FS_Subset
<1>2. mine # {}
  BY DEF MacsOf
<1>3. \A h \in mine : h.ip \in Nat
  BY ScansAssumption
<1>4. PICK h \in mine : \A g \in mine : g.ip <= h.ip
  <2> HIDE DEF mine
  <2> QED
    BY <1>1, <1>2, <1>3, HighestAddress
<1>5. h \in hosts /\ h.mac = mac /\ \A g \in hosts : g.mac = mac => g.ip <= h.ip
  BY <1>4
<1> QED
  BY <1>5 DEF ByMac

\* The missing hosts are one for each device of the baseline that is missing.
LEMMA MissingDevices ==
    ASSUME NEW baseline \in SUBSET Hosts, NEW current
    PROVE  MacsOf(OfflineHosts(baseline, current)) = MacsOf(baseline) \ MacsOf(current)
<1>1. \A mac \in MacsOf(baseline) : ByMac(baseline, mac).mac = mac
  BY ByMacIsOfMac
<1>2. MacsOf(OfflineHosts(baseline, current))
          = {ByMac(baseline, mac).mac : mac \in MacsOf(baseline) \ MacsOf(current)}
  <2> DEFINE missing == MacsOf(baseline) \ MacsOf(current)
  <2> HIDE DEF missing
  <2>1. MacsOf({ByMac(baseline, mac) : mac \in missing})
            = {ByMac(baseline, mac).mac : mac \in missing}
    BY DEF MacsOf
  <2> QED
    BY <2>1 DEF OfflineHosts, missing
<1> QED
  BY <1>1, <1>2

\* One device that is missing is the probable match.
LEMMA OneMissing ==
    ASSUME NEW baseline \in SUBSET Hosts, NEW current,
           Cardinality(MacsOf(baseline) \ MacsOf(current)) = 1
    PROVE  Cardinality(OfflineHosts(baseline, current)) = 1
<1> DEFINE missing == MacsOf(baseline) \ MacsOf(current)
<1>1. OfflineHosts(baseline, current) = {ByMac(baseline, mac) : mac \in missing}
  BY DEF OfflineHosts
<1>2. IsFiniteSet(missing)
  <2>1. IsFiniteSet(baseline)
    BY ScansAssumption, FS_Subset
  <2>2. IsFiniteSet(MacsOf(baseline))
    <3> DEFINE f == [h \in baseline |-> h.mac]
    <3>1. f \in Surjection(baseline, MacsOf(baseline))
      BY DEF Surjection, MacsOf
    <3> HIDE DEF f
    <3> QED
      BY <2>1, <3>1, FS_Surjection
  <2> QED
    BY <2>2, FS_Subset
<1>3. PICK mac : missing = {mac}
  BY <1>2, FS_Singleton
<1> HIDE DEF missing
<1>4. OfflineHosts(baseline, current) = {ByMac(baseline, mac)}
  BY <1>1, <1>3
<1> QED
  BY <1>4, FS_Singleton

Slots == {"baseline", "after", "verify"}
Compared == stage \in {"diff", "done"}

\* Whoever is counted as out is: not connected, not in the table that was flushed,
\* not in a second scan that tells; and one that all answered tells of all.
OutInv ==
    /\ gone \cap plugged = {}
    /\ stage = "second" /\ flushed => MacsOf(kernel) \cap gone = {}
    /\ Compared /\ (flushed \/ snaps["after"].source = "arp-scan") =>
           MacsOf(snaps["after"].hosts) \cap gone = {}
    /\ Compared /\ whole => outside = MacsOf(Hosts) \ MacsOf(snaps["after"].hosts)

ScansInv == ScansTypeOK /\ DOMAIN snaps = Slots /\ OutInv

LEMMA InitScans == ScansInit => ScansInv
<1> SUFFICES ASSUME ScansInit PROVE ScansInv
  OBVIOUS
<1>1. ScansTypeOK
  BY DEF ScansInit, ScansTypeOK, Nothing
<1>2. OutInv
  BY DEF ScansInit, OutInv, Compared
<1> QED
  BY <1>1, <1>2 DEF ScansInit, ScansInv, Slots

\* What changes around the wizard: who is plugged in again is no longer out, and the
\* kernel learns of who is connected only.
LEMMA AroundTheScans ==
    ScansInv /\ (Unplug \/ Plug \/ KernelLearns \/ KernelForgets) => ScansInv'
<1> SUFFICES ASSUME ScansInv, Unplug \/ Plug \/ KernelLearns \/ KernelForgets
             PROVE  ScansInv'
  OBVIOUS
<1> USE DEF ScansInv, ScansTypeOK, OutInv, Compared
<1>1. CASE Unplug
  BY <1>1 DEF Unplug
<1>2. CASE Plug
  BY <1>2 DEF Plug
<1>3. CASE KernelLearns
  BY <1>3 DEF KernelLearns, MacsOf
<1>4. CASE KernelForgets
  BY <1>4 DEF KernelForgets, MacsOf
<1> QED
  BY <1>1, <1>2, <1>3, <1>4

\* A scan fills its slot, with hosts that are connected or that the kernel knows.
LEMMA ScanFills ==
    ASSUME ScansInv, NEW slot \in Slots, ScanHosts(slot)
    PROVE  /\ DOMAIN snaps' = Slots
           /\ \A s \in Slots \ {slot} : snaps'[s] = snaps[s]
           /\ snaps'[slot].hosts \subseteq Hosts
           /\ \/ /\ snaps'[slot].source = "arp-scan"
                 /\ MacsOf(snaps'[slot].hosts) \subseteq plugged
                 /\ whole' = (whole /\ MacsOf(snaps'[slot].hosts) = plugged)
              \/ /\ snaps'[slot].source = "ip-neigh"
                 /\ MacsOf(snaps'[slot].hosts) \subseteq MacsOf(kernel)
                 /\ whole' = FALSE
<1>1. kernel \subseteq Hosts /\ DOMAIN snaps = Slots
  BY DEF ScansInv, ScansTypeOK
<1>2. CASE ScanWithArpScan(slot)
  <2>1. PICK answered \in SUBSET {h \in Hosts : h.mac \in plugged} :
            /\ snaps' = [snaps EXCEPT ![slot] = [hosts |-> answered, source |-> "arp-scan"]]
            /\ whole' = (whole /\ MacsOf(answered) = plugged)
    BY <1>2 DEF ScanWithArpScan
  <2>2. MacsOf(answered) \subseteq plugged
    BY DEF MacsOf
  <2>3. /\ DOMAIN snaps' = Slots
        /\ \A s \in Slots \ {slot} : snaps'[s] = snaps[s]
        /\ snaps'[slot].hosts = answered /\ snaps'[slot].source = "arp-scan"
    BY <1>1, <2>1
  <2> QED
    BY <2>1, <2>2, <2>3
<1>3. CASE ScanWithIpNeigh(slot)
  <2>1. PICK found \in {kernel, {}} :
            /\ snaps' = [snaps EXCEPT ![slot] = [hosts |-> found, source |-> "ip-neigh"]]
            /\ whole' = FALSE
    BY <1>3 DEF ScanWithIpNeigh
  <2>2. found \subseteq Hosts /\ MacsOf(found) \subseteq MacsOf(kernel)
    BY <1>1 DEF MacsOf
  <2>3. /\ DOMAIN snaps' = Slots
        /\ \A s \in Slots \ {slot} : snaps'[s] = snaps[s]
        /\ snaps'[slot].hosts = found /\ snaps'[slot].source = "ip-neigh"
    BY <1>1, <2>1
  <2> QED
    BY <2>1, <2>2, <2>3
<1> QED
  BY <1>2, <1>3 DEF ScanHosts

LEMMA FlushScans == ScansInv /\ FlushArpCache => ScansInv'
<1> SUFFICES ASSUME ScansInv, FlushArpCache PROVE ScansInv'
  OBVIOUS
<1>1. flushed' => kernel' = {}
  BY DEF FlushArpCache, AfterFlush
<1>2. MacsOf({}) = {}
  BY DEF MacsOf
<1>3. /\ stage' = "second" /\ gone' = MacsOf(Hosts) \ plugged
      /\ kernel' \subseteq kernel /\ UNCHANGED <<plugged, snaps, whole, outside>>
  BY DEF FlushArpCache, AfterFlush
<1>4. OutInv'
  BY <1>1, <1>2, <1>3 DEF OutInv, Compared
<1> QED
  BY <1>3, <1>4 DEF ScansInv, ScansTypeOK

\* The second scan: arp-scan's hosts are connected, and the kernel's, after a flush,
\* have not been out since.
LEMMA SecondScan == ScansInv /\ After => ScansInv'
<1> SUFFICES ASSUME ScansInv, After PROVE ScansInv'
  OBVIOUS
<1>1. /\ stage = "second" /\ stage' = "diff"
      /\ ScanHosts("after")
      /\ gone' = IF snaps'["after"].source = "arp-scan" THEN MacsOf(Hosts) \ plugged ELSE gone
      /\ outside' = MacsOf(Hosts) \ plugged
      /\ UNCHANGED <<plugged, kernel, flushed>>
  BY DEF After
<1>2. /\ DOMAIN snaps' = Slots
      /\ \A s \in Slots \ {"after"} : snaps'[s] = snaps[s]
      /\ snaps'["after"].hosts \subseteq Hosts
      /\ \/ /\ snaps'["after"].source = "arp-scan"
            /\ MacsOf(snaps'["after"].hosts) \subseteq plugged
            /\ whole' = (whole /\ MacsOf(snaps'["after"].hosts) = plugged)
         \/ /\ snaps'["after"].source = "ip-neigh"
            /\ MacsOf(snaps'["after"].hosts) \subseteq MacsOf(kernel)
            /\ whole' = FALSE
  BY <1>1, ScanFills DEF Slots
<1>3. ScansTypeOK'
  BY <1>1, <1>2 DEF ScansInv, ScansTypeOK
<1>4. flushed => MacsOf(kernel) \cap gone = {}
  BY <1>1 DEF ScansInv, OutInv
<1>5. OutInv'
  BY <1>1, <1>2, <1>4 DEF ScansInv, OutInv, Compared
<1> QED
  BY <1>2, <1>3, <1>5 DEF ScansInv

\* The first scan is before anything is compared, the check's scan leaves it alone.
LEMMA OtherScans == ScansInv /\ (Baseline \/ Verify \/ TimedOut) => ScansInv'
<1> SUFFICES ASSUME ScansInv, Baseline \/ Verify \/ TimedOut PROVE ScansInv'
  OBVIOUS
<1>1. CASE Baseline
  <2>1. DOMAIN snaps' = Slots /\ \A s \in Slots : snaps'[s].hosts \subseteq Hosts
    BY <1>1, ScanFills DEF Baseline, ScansInv, ScansTypeOK, Slots
  <2> QED
    BY <1>1, <2>1 DEF Baseline, ScansInv, ScansTypeOK, OutInv, Compared
<1>2. CASE Verify
  <2>1. /\ DOMAIN snaps' = Slots /\ \A s \in Slots : snaps'[s].hosts \subseteq Hosts
        /\ snaps'["after"] = snaps["after"] /\ (whole' => whole)
    <3>1. CASE ScanHosts("verify")
      BY <3>1, ScanFills DEF ScansInv, ScansTypeOK, Slots
    <3>2. CASE UNCHANGED <<snaps, whole>>
      BY <3>2 DEF ScansInv, ScansTypeOK, Slots
    <3> QED
      BY <1>2, <3>1, <3>2 DEF Verify
  <2> QED
    BY <1>2, <2>1 DEF Verify, ScansInv, ScansTypeOK, OutInv, Compared
<1>3. CASE TimedOut
  BY <1>3 DEF TimedOut, ScansInv, ScansTypeOK, OutInv, Compared
<1> QED
  BY <1>1, <1>2, <1>3

LEMMA ScansStep == ScansInv /\ [ScansNext]_scanVars => ScansInv'
<1> SUFFICES ASSUME ScansInv, [ScansNext]_scanVars PROVE ScansInv'
  OBVIOUS
<1>1. CASE UNCHANGED scanVars
  BY <1>1 DEF scanVars, ScansInv, ScansTypeOK, OutInv, Compared
<1> QED
  BY <1>1, AroundTheScans, FlushScans, SecondScan, OtherScans DEF ScansNext

LEMMA ScansAreKept == ScansSpec => []ScansInv
<1> QED
  BY InitScans, ScansStep, PTL DEF ScansSpec

\* The device that was unplugged is what the wizard finds (arp.py:20-28, 119-141,
\* diff.py:34-64), among any number of hosts, with any number of addresses each,
\* that come, go, and are cleared from the table as often as they like.
THEOREM WhatIsUnpluggedIsFound == ScansSpec => []UnpluggedIsOffline
<1>1. ScansInv => UnpluggedIsOffline
  <2> SUFFICES ASSUME ScansInv, Compared PROVE UnpluggedIsOffline
    BY DEF UnpluggedIsOffline, Compared
  <2> DEFINE baseline == snaps["baseline"].hosts
             after == snaps["after"].hosts
             missing == MacsOf(baseline) \ MacsOf(after)
  <2>1. baseline \in SUBSET Hosts /\ Offline = OfflineHosts(baseline, after)
    BY DEF ScansInv, ScansTypeOK, Slots, Offline
  <2> HIDE DEF baseline, after
  <2>2. MacsOf(Offline) = missing
    BY <2>1, MissingDevices
  <2>3. ASSUME flushed \/ snaps["after"].source = "arp-scan",
               NEW mac \in MacsOf(baseline) \cap gone
        PROVE  mac \in MacsOf(Offline)
    BY <2>2, <2>3 DEF ScansInv, OutInv, after
  <2>4. ASSUME whole, Cardinality(MacsOf(baseline) \cap outside) = 1
        PROVE  MacsOf(ProbableMatch) = MacsOf(baseline) \cap outside
    <3>1. MacsOf(baseline) \subseteq MacsOf(Hosts)
      BY <2>1 DEF MacsOf
    <3>2. MacsOf(baseline) \cap outside = missing
      BY <2>4, <3>1 DEF ScansInv, OutInv, after
    <3>3. Cardinality(Offline) = 1
      BY <2>1, <2>4, <3>2, OneMissing
    <3> QED
      BY <2>2, <3>2, <3>3 DEF ProbableMatch
  <2>5. Confirmed \subseteq Offline
    BY DEF Confirmed
  <2> QED
    BY <2>3, <2>4, <2>5 DEF UnpluggedIsOffline, baseline
<1> QED
  BY <1>1, ScansAreKept, PTL

\* The wizard's tables hold hosts of the network.
THEOREM ScansAreTyped == ScansSpec => []ScansTypeOK
<1> QED
  BY ScansAreKept, PTL DEF ScansInv

-------------------------------------------------------------------------------
(* The learned vendors: what the service has learned and saved is what it answers, *)
(* for any tables, any addresses and any number of calls.                        *)

\* What was noted is in a table.
HasEntry(table) ==
    \A q \in DOMAIN noted : q \in DOMAIN table /\ table[q] = noted[q]

\* What was noted is in the table in memory, and, saved, in the file; a table in memory
\* that is saved is the file's.
KeptInv ==
    /\ learned[Service] # NotLoaded => HasEntry(learned[Service])
    /\ ~unsaved => HasEntry(LoadLearned)
    /\ ~unsaved /\ learned[Service] # NotLoaded => learned[Service] = LoadLearned

TablesInv == DOMAIN learned = Processes /\ unsaved \in BOOLEAN

\* A table with a vendor is neither of the two that stand for none.
LEMMA NamesSomebody ==
    ASSUME NEW prefix, NEW entry, NEW table, entry # Entry0
    PROVE  /\ Over([q \in {prefix} |-> entry], table) # NotLoaded
           /\ Over([q \in {prefix} |-> entry], table) # Unreadable
<1> DEFINE new == Over([q \in {prefix} |-> entry], table)
<1>1. prefix \in DOMAIN new /\ new[prefix] = entry
  BY DEF Over
<1> HIDE DEF new
<1>2. new # NotLoaded
  <2> SUFFICES ASSUME new = NotLoaded PROVE FALSE
    OBVIOUS
  <2>1. prefix \in DOMAIN NotLoaded /\ NotLoaded[prefix] # Entry0
    BY <1>1
  <2> QED
    BY <2>1 DEF NotLoaded
<1>3. new # Unreadable
  <2> SUFFICES ASSUME new = Unreadable PROVE FALSE
    OBVIOUS
  <2>1. prefix \in DOMAIN Unreadable /\ Unreadable[prefix] # Entry0
    BY <1>1
  <2> QED
    BY <2>1 DEF Unreadable
<1> QED
  BY <1>2, <1>3 DEF new

LEMMA InitKept == OuiInit => TablesInv /\ KeptInv
<1>1. DOMAIN EmptyTable = {}
  BY DEF EmptyTable
<1> QED
  BY <1>1 DEF OuiInit, TablesInv, KeptInv, HasEntry, Processes, Service

\* An entry of the service: it is noted, in memory, and in the file if it could be
\* saved.
LEMMA ServiceKept ==
    ASSUME TablesInv, KeptInv, NEW mac \in Macs, NEW vendor, NEW source,
           RecordVendor(Service, mac, vendor, source)
    PROVE  TablesInv' /\ KeptInv'
<1> DEFINE old == EnsureLoaded(Service)
           prefix == Prefix[mac]
           entry == [vendor |-> vendor, source |-> source]
           new == Over([q \in {prefix} |-> entry], old)
           note == Over([q \in {prefix} |-> entry], Remembered)
<1>1. /\ vendor # ""
      /\ learned' = [learned EXCEPT ![Service] = new]
      /\ noted' = note
      /\ IF new = old THEN UNCHANGED <<learnedFile, unsaved>>
         ELSE SaveLearned(Service, old, new)
  BY DEF RecordVendor
<1>2. learned'[Service] = new /\ DOMAIN learned' = Processes
  BY <1>1 DEF TablesInv, Processes
<1>3. /\ DOMAIN new = {prefix} \cup DOMAIN old
      /\ new[prefix] = entry
      /\ \A q \in DOMAIN old : q # prefix => new[q] = old[q]
  <2>1. new = Over([q \in {prefix} |-> entry], old)
    OBVIOUS
  <2> HIDE DEF new, old, prefix, entry
  <2> QED
    BY <2>1 DEF Over
<1>4. /\ DOMAIN note = {prefix} \cup DOMAIN Remembered
      /\ note[prefix] = entry
      /\ \A q \in DOMAIN Remembered : q # prefix => note[q] = Remembered[q]
  <2>1. note = Over([q \in {prefix} |-> entry], Remembered)
    OBVIOUS
  <2> HIDE DEF note, prefix, entry
  <2> QED
    BY <2>1 DEF Over
<1>5. \A q \in DOMAIN Remembered : q \in DOMAIN old /\ old[q] = Remembered[q]
  <2>1. CASE learned[Service] = NotLoaded /\ unsaved
    BY <2>1 DEF Remembered, EmptyTable
  <2>2. CASE learned[Service] = NotLoaded /\ ~unsaved
    BY <2>2 DEF Remembered, EnsureLoaded, KeptInv, HasEntry
  <2>3. CASE learned[Service] # NotLoaded
    BY <2>3 DEF Remembered, EnsureLoaded, KeptInv, HasEntry
  <2> QED
    BY <2>1, <2>2, <2>3
<1>6. entry # Entry0
  BY <1>1 DEF Entry0
<1>7. new # NotLoaded /\ new # Unreadable
  BY <1>6, NamesSomebody
<1> HIDE DEF old, prefix, entry, new, note
<1>8. \A q \in DOMAIN note : q \in DOMAIN new /\ new[q] = note[q]
  BY <1>3, <1>4, <1>5
<1>9. CASE new = old
  <2>1. ~unsaved => LoadLearned = old
    BY DEF EnsureLoaded, KeptInv, old
  <2>2. LoadLearned' = LoadLearned /\ unsaved' = unsaved
    BY <1>1, <1>9 DEF LoadLearned
  <2> QED
    BY <1>1, <1>2, <1>8, <1>9, <2>1, <2>2 DEF TablesInv, KeptInv, HasEntry
<1>10. CASE learnedFile' = new /\ unsaved' = FALSE
  <2>1. LoadLearned' = new
    BY <1>7, <1>10 DEF LoadLearned
  <2> QED
    BY <1>1, <1>2, <1>8, <1>10, <2>1 DEF TablesInv, KeptInv, HasEntry
<1>11. CASE unsaved' = TRUE
  BY <1>1, <1>2, <1>8, <1>11 DEF TablesInv, KeptInv, HasEntry
<1> QED
  BY <1>1, <1>9, <1>10, <1>11 DEF SaveLearned, Payload

\* An entry of another process changes the file, and then nothing is claimed of it.
LEMMA OtherKept ==
    ASSUME TablesInv, KeptInv, NEW p \in Processes \ {Service}, NEW mac \in Macs,
           NEW vendor, NEW source, RecordVendor(p, mac, vendor, source)
    PROVE  TablesInv' /\ KeptInv'
<1>1. learned'[Service] = learned[Service] /\ DOMAIN learned' = Processes /\ noted' = noted
  BY DEF RecordVendor, TablesInv, Processes
<1>2. UNCHANGED <<learnedFile, unsaved>> \/ unsaved' = TRUE
  BY DEF RecordVendor, SaveLearned
<1>3. CASE UNCHANGED <<learnedFile, unsaved>>
  BY <1>1, <1>3 DEF TablesInv, KeptInv, HasEntry, LoadLearned
<1>4. CASE unsaved' = TRUE
  BY <1>1, <1>4 DEF TablesInv, KeptInv, HasEntry
<1> QED
  BY <1>2, <1>3, <1>4

LEMMA ReloadKept == TablesInv /\ KeptInv /\ Reload => TablesInv' /\ KeptInv'
<1> SUFFICES ASSUME TablesInv, KeptInv, Reload PROVE TablesInv' /\ KeptInv'
  OBVIOUS
<1>1. /\ learned'[Service] = LoadLearned /\ DOMAIN learned' = Processes
      /\ UNCHANGED <<learnedFile, unsaved>>
      /\ noted' = IF unsaved THEN EmptyTable ELSE noted
  BY DEF Reload, Forget, TablesInv, Processes
<1>2. LoadLearned' = LoadLearned
  BY <1>1 DEF LoadLearned
<1> QED
  BY <1>1, <1>2 DEF TablesInv, KeptInv, HasEntry, EmptyTable

LEMMA RestartKept == TablesInv /\ KeptInv /\ Restart => TablesInv' /\ KeptInv'
<1> SUFFICES ASSUME TablesInv, KeptInv, Restart PROVE TablesInv' /\ KeptInv'
  OBVIOUS
<1>1. PICK p \in Processes :
        /\ learned' = [learned EXCEPT ![p] = NotLoaded]
        /\ IF p = Service THEN Forget ELSE UNCHANGED <<learnedFile, noted, unsaved>>
  BY DEF Restart
<1>2. DOMAIN learned' = Processes /\ UNCHANGED <<learnedFile, unsaved>>
  BY <1>1 DEF TablesInv, Forget
<1>3. LoadLearned' = LoadLearned
  BY <1>2 DEF LoadLearned
<1>4. CASE p = Service
  <2>1. learned'[Service] = NotLoaded /\ noted' = IF unsaved THEN EmptyTable ELSE noted
    BY <1>1, <1>4 DEF Forget, TablesInv
  <2> QED
    BY <1>2, <1>3, <2>1 DEF TablesInv, KeptInv, HasEntry
<1>5. CASE p # Service
  <2>1. learned'[Service] = learned[Service] /\ noted' = noted
    BY <1>1, <1>5 DEF TablesInv, Processes
  <2> QED
    BY <1>2, <1>3, <2>1 DEF TablesInv, KeptInv, HasEntry
<1> QED
  BY <1>4, <1>5

LEMMA NextKept == TablesInv /\ KeptInv /\ [OuiNext]_ouiVars => TablesInv' /\ KeptInv'
<1> SUFFICES ASSUME TablesInv, KeptInv, [OuiNext]_ouiVars PROVE TablesInv' /\ KeptInv'
  OBVIOUS
<1>1. CASE RecordFromScan
  <2>1. PICK p \in Processes, mac \in Macs, said \in Vendors, source \in Sources :
          LET vendor == IF said = "" \/ source = "ip-neigh"
                        THEN LookupIn(EnsureLoaded(p), Prefix[mac]).vendor ELSE said
          IN RecordVendor(p, mac, vendor, source)
    BY <1>1 DEF RecordFromScan
  <2>2. \E vendor : RecordVendor(p, mac, vendor, source)
    BY <2>1
  <2> QED
    BY <2>2, ServiceKept, OtherKept
<1>2. CASE UNCHANGED ouiVars
  BY <1>2 DEF ouiVars, TablesInv, KeptInv, HasEntry, LoadLearned
<1> QED
  BY <1>1, <1>2, ReloadKept, RestartKept DEF OuiNext

\* The table of the page and its counts are those of the single lookups, of any tables.
LEMMA PageAgrees ==
    ASSUME NEW table
    PROVE  /\ \A prefix \in DOMAIN OuiTable(table) :
                 OuiTable(table)[prefix] = LookupIn(table, prefix)
           /\ Snapshot(table).total = Cardinality(DOMAIN OuiTable(table))
<1> DEFINE sys == SystemTable
           bun == BundledTable
<1>1. /\ DOMAIN Over(sys, bun) = DOMAIN sys \cup DOMAIN bun
      /\ DOMAIN OuiTable(table) = DOMAIN table \cup (DOMAIN sys \cup DOMAIN bun)
  BY DEF Over, OuiTable
<1>2. ASSUME NEW prefix \in DOMAIN OuiTable(table)
      PROVE  OuiTable(table)[prefix] = LookupIn(table, prefix)
  <2> HIDE DEF sys, bun
  <2>1. OuiTable(table)[prefix] =
          IF prefix \in DOMAIN table THEN table[prefix] ELSE Over(sys, bun)[prefix]
    BY <1>1 DEF Over, OuiTable, sys, bun
  <2>2. prefix \in DOMAIN sys \cup DOMAIN bun =>
          Over(sys, bun)[prefix] = IF prefix \in DOMAIN sys THEN sys[prefix] ELSE bun[prefix]
    BY DEF Over
  <2> QED
    BY <1>1, <2>1, <2>2 DEF LookupIn, sys, bun
<1>3. Snapshot(table).total = Cardinality(DOMAIN sys \cup DOMAIN bun \cup DOMAIN table)
  BY DEF Snapshot
<1>4. DOMAIN sys \cup DOMAIN bun \cup DOMAIN table = DOMAIN OuiTable(table)
  BY <1>1
<1> QED
  BY <1>2, <1>3, <1>4

\* What the service has learned and saved it answers, over any other table, whatever is
\* reloaded, restarted or written by another process meanwhile (oui.py:64-94, 105-157,
\* 181-224).
THEOREM LearnedStays == OuiSpec => []LearnedIsKept
<1>1. KeptInv => LearnedIsKept
  <2> SUFFICES ASSUME KeptInv PROVE LearnedIsKept
    OBVIOUS
  <2>1. ASSUME learned[Service] # NotLoaded \/ ~unsaved, NEW prefix \in DOMAIN noted
        PROVE  LookupIn(EnsureLoaded(Service), prefix) = noted[prefix]
    BY <2>1 DEF KeptInv, HasEntry, EnsureLoaded, LookupIn
  <2> QED
    BY <2>1, PageAgrees DEF LearnedIsKept
<1>2. TablesInv /\ KeptInv /\ [OuiNext]_ouiVars => TablesInv' /\ KeptInv'
  BY NextKept
<1> QED
  BY InitKept, <1>1, <1>2, PTL DEF OuiSpec

\* Every entry names a vendor and says who did.
NamesAll(table) ==
    \A q \in DOMAIN table : table[q].source \in Sources /\ table[q].vendor # ""

EntriesInv ==
    /\ DOMAIN learned = Processes /\ calls \in 0..MaxCalls
    /\ learnedFile # Unreadable => NamesAll(learnedFile)
    /\ \A p \in Processes : learned[p] # NotLoaded => NamesAll(learned[p])

\* A call works on such a table, and leaves one.
LEMMA NamesEnsured ==
    ASSUME EntriesInv, NEW p \in Processes
    PROVE  NamesAll(LoadLearned) /\ NamesAll(EnsureLoaded(p))
<1>1. NamesAll(EmptyTable)
  BY DEF NamesAll, EmptyTable
<1> QED
  BY <1>1 DEF EntriesInv, LoadLearned, EnsureLoaded

\* What is recorded names a vendor.
LEMMA EntryNames ==
    ASSUME EntriesInv, NEW p \in Processes, NEW mac, NEW vendor, NEW source \in Sources,
           RecordVendor(p, mac, vendor, source)
    PROVE  EntriesInv'
<1> DEFINE old == EnsureLoaded(p)
           prefix == Prefix[mac]
           entry == [vendor |-> vendor, source |-> source]
           new == Over([q \in {prefix} |-> entry], old)
<1>1. /\ vendor # "" /\ calls < MaxCalls /\ calls' = calls + 1
      /\ learned' = [learned EXCEPT ![p] = new]
      /\ learnedFile' = learnedFile \/ learnedFile' = new \/ learnedFile' = Unreadable
  BY DEF RecordVendor, Call, SaveLearned, Payload
<1>2. NamesAll(old)
  BY NamesEnsured
<1>3. entry.source \in Sources /\ entry.vendor # ""
  BY <1>1
<1>4. NamesAll(new)
  <2>1. new = Over([q \in {prefix} |-> entry], old)
    OBVIOUS
  <2> HIDE DEF new, old, prefix, entry
  <2> QED
    BY <1>2, <1>3, <2>1 DEF Over, NamesAll
<1> HIDE DEF new, old
<1>5. DOMAIN learned' = Processes /\ \A r \in Processes : learned'[r] \in {learned[r], new}
  BY <1>1 DEF EntriesInv
<1>6. calls' \in 0..MaxCalls
  <2>1. calls < MaxCalls /\ calls' = calls + 1
    BY <1>1
  <2> QED
    BY <2>1, OuiAssumption DEF EntriesInv
<1> QED
  BY <1>1, <1>4, <1>5, <1>6 DEF EntriesInv

LEMMA NextEntries == EntriesInv /\ [OuiNext]_ouiVars => EntriesInv'
<1> SUFFICES ASSUME EntriesInv, [OuiNext]_ouiVars PROVE EntriesInv'
  OBVIOUS
<1>1. CASE RecordFromScan
  <2>1. \E p \in Processes, mac \in Macs, source \in Sources :
            \E vendor : RecordVendor(p, mac, vendor, source)
    BY <1>1 DEF RecordFromScan
  <2> QED
    BY <2>1, EntryNames
<1>2. CASE Reload
  <2>1. /\ learned' = [learned EXCEPT ![Service] = LoadLearned] /\ learnedFile' = learnedFile
        /\ calls < MaxCalls /\ calls' = calls + 1
    BY <1>2 DEF Reload, Forget, Call
  <2>2. Service \in Processes /\ NamesAll(LoadLearned)
    BY NamesEnsured DEF Processes
  <2>3. DOMAIN learned' = Processes
        /\ \A r \in Processes : learned'[r] \in {learned[r], LoadLearned}
    BY <2>1 DEF EntriesInv
  <2>4. calls' \in 0..MaxCalls
    BY <2>1, OuiAssumption DEF EntriesInv
  <2> QED
    BY <2>1, <2>2, <2>3, <2>4 DEF EntriesInv
<1>3. CASE Restart
  <2>1. PICK p \in Processes :
          /\ learned' = [learned EXCEPT ![p] = NotLoaded]
          /\ IF p = Service THEN Forget ELSE UNCHANGED <<learnedFile, noted, unsaved>>
    BY <1>3 DEF Restart
  <2>2. learnedFile' = learnedFile /\ calls < MaxCalls /\ calls' = calls + 1
    BY <1>3, <2>1 DEF Restart, Forget, Call
  <2>3. DOMAIN learned' = Processes
        /\ \A r \in Processes : learned'[r] \in {learned[r], NotLoaded}
    BY <2>1 DEF EntriesInv
  <2>4. calls' \in 0..MaxCalls
    BY <2>2, OuiAssumption DEF EntriesInv
  <2> QED
    BY <2>2, <2>3, <2>4 DEF EntriesInv
<1>4. CASE UNCHANGED ouiVars
  BY <1>4 DEF ouiVars, EntriesInv
<1> QED
  BY <1>1, <1>2, <1>3, <1>4 DEF OuiNext

\* Whatever is recorded, reloaded or lost, the tables hold named vendors only
\* (oui.py:105-157).
THEOREM TablesAreTyped == OuiSpec => []OuiTypeOK
<1>1. OuiInit => EntriesInv
  <2> SUFFICES ASSUME OuiInit PROVE EntriesInv
    OBVIOUS
  <2>1. NamesAll(EmptyTable)
    BY DEF NamesAll, EmptyTable
  <2>2. calls \in 0..MaxCalls
    BY OuiAssumption DEF OuiInit
  <2> QED
    BY <2>1, <2>2 DEF OuiInit, EntriesInv
<1>2. EntriesInv /\ [OuiNext]_ouiVars => EntriesInv'
  BY NextEntries
<1>3. EntriesInv => OuiTypeOK
  BY NamesEnsured DEF EntriesInv, NamesAll, OuiTypeOK
<1> QED
  BY <1>1, <1>2, <1>3, PTL DEF OuiSpec

-------------------------------------------------------------------------------
(* The configuration file.  What a file says is a value for each key; its lines    *)
(* may be moved, and lines written twice, without a change to it.                *)
\* All keys and values there are, and the lines made of them.
AllLines == {Torn} \cup UNION {Range(lines) : lines \in Files \cup Edits \cup {Template}}
AllKeys == {line.at : line \in AllLines} \cup Range(FieldOrder)
Keys == ({key[1] : key \in AllKeys} \cup {""}) \X {key[2] : key \in AllKeys}
Words == {line.value : line \in AllLines} \cup UNION {Range(post) : post \in Posts}
Item == [at : Keys, value : Words]

LEMMA EndInFile ==
    ASSUME NEW lines \in Seq(Item), NEW section
    PROVE  EndOf(lines, section) \in 0..Len(lines)
<1> DEFINE mine == OfSection(lines, section)
<1>1. CASE mine = {}
  BY <1>1 DEF EndOf
<1>2. CASE mine # {}
  <2> DEFINE rest == {Len(lines) - i : i \in mine}
  <2>1. mine \subseteq 1..Len(lines)
    <3>1. mine \subseteq DOMAIN lines
      BY Zenon DEF OfSection
    <3> QED
      BY <3>1
  <2> HIDE DEF mine
  <2>2. rest \in SUBSET Nat /\ rest # {}
    <3>1. \A i \in mine : Len(lines) - i \in Nat
      BY <2>1
    <3> QED
      BY <1>2, <3>1
  <2>3. PICK r \in rest : \A q \in rest : r <= q
    BY <2>2, LeastNumber
  <2>4. PICK m \in mine : r = Len(lines) - m
    BY <2>3
  <2>5. \A i \in mine : m >= i
    <3> SUFFICES ASSUME NEW i \in mine PROVE m >= i
      OBVIOUS
    <3>1. Len(lines) - m <= Len(lines) - i
      BY <2>3, <2>4
    <3> QED
      BY <2>1, <3>1
  <2>6. Max(mine) \in mine
    BY <2>4, <2>5 DEF Max
  <2> QED
    BY <1>2, <2>1, <2>6 DEF EndOf, mine
<1> QED
  BY <1>1, <1>2

\* A line put between others.
IsBetween(new, lines, end, line) ==
    /\ new \in Seq(Item) /\ Len(new) = Len(lines) + 1
    /\ \A i \in 1..Len(lines) + 1 :
           new[i] = IF i <= end THEN lines[i] ELSE IF i = end + 1 THEN line ELSE lines[i - 1]

LEMMA Between ==
    ASSUME NEW lines \in Seq(Item), NEW end \in 0..Len(lines), NEW line \in Item
    PROVE  IsBetween(InsertBehind(lines, end, line), lines, end, line)
<1> DEFINE a == SubSeq(lines, 1, end)
           b == SubSeq(lines, end + 1, Len(lines))
           c == a \o <<line>>
           new == InsertBehind(lines, end, line)
<1>1. a \in Seq(Item) /\ Len(a) = end /\ \A i \in 1..end : a[i] = lines[i]
  <2>1. \A i \in 1..end : lines[i] \in Item
    OBVIOUS
  <2> QED
    BY <2>1, SubSeqProperties
<1>2. /\ b \in Seq(Item) /\ Len(b) = Len(lines) - end
      /\ \A i \in 1..Len(lines) - end : b[i] = lines[end + i]
  <2>1. \A i \in end + 1..Len(lines) : lines[i] \in Item
    OBVIOUS
  <2>3. Len(lines) - (end + 1) + 1 = Len(lines) - end
    OBVIOUS
  <2>4. /\ b \in Seq(Item)
        /\ Len(b) = IF end + 1 <= Len(lines) THEN Len(lines) - (end + 1) + 1 ELSE 0
        /\ \A i \in 1..Len(lines) - (end + 1) + 1 : b[i] = lines[end + 1 + i - 1]
    BY <2>1, SubSeqProperties
  <2> HIDE DEF b
  <2>5. Len(b) = Len(lines) - end
    BY <2>4
  <2>6. ASSUME NEW i \in 1..Len(lines) - end PROVE b[i] = lines[end + i]
    <3>1. b[i] = lines[end + 1 + i - 1]
      BY <2>3, <2>4
    <3>2. end + 1 + i - 1 = end + i
      OBVIOUS
    <3> QED
      BY <3>1, <3>2
  <2> QED
    BY <2>4, <2>5, <2>6
<1>0. new = c \o b
  BY DEF InsertBehind
<1> HIDE DEF a, b, new
<1>3. <<line>> \in Seq(Item) /\ Len(<<line>>) = 1 /\ <<line>>[1] = line
  OBVIOUS
<1>4. /\ c \in Seq(Item) /\ Len(c) = end + 1
      /\ \A i \in 1..end + 1 : c[i] = IF i <= end THEN lines[i] ELSE line
  BY <1>1, <1>3, ConcatProperties
<1> HIDE DEF c
<1>5. /\ new \in Seq(Item) /\ Len(new) = Len(lines) + 1
      /\ \A i \in 1..Len(lines) + 1 : new[i] = IF i <= end + 1 THEN c[i] ELSE b[i - (end + 1)]
  <2>1. /\ c \o b \in Seq(Item) /\ Len(c \o b) = Len(c) + Len(b)
        /\ \A i \in 1..Len(c) + Len(b) :
               (c \o b)[i] = IF i <= Len(c) THEN c[i] ELSE b[i - Len(c)]
    BY <1>2, <1>4, ConcatProperties
  <2>2. Len(c) = end + 1 /\ Len(c) + Len(b) = Len(lines) + 1
    BY <1>2, <1>4
  <2> QED
    BY <1>0, <2>1, <2>2
<1>6. ASSUME NEW i \in 1..Len(lines) + 1
      PROVE  new[i] = IF i <= end THEN lines[i] ELSE IF i = end + 1 THEN line ELSE lines[i - 1]
  <2>0. new[i] = IF i <= end + 1 THEN c[i] ELSE b[i - (end + 1)]
    BY <1>5
  <2>1. CASE i <= end
    BY <1>4, <2>0, <2>1
  <2>2. CASE i = end + 1
    BY <1>4, <2>0, <2>2
  <2>3. CASE i > end + 1
    <3>1. i - (end + 1) \in 1..Len(lines) - end /\ end + (i - (end + 1)) = i - 1
      BY <2>3
    <3> QED
      BY <1>2, <2>0, <2>3, <3>1
  <2> QED
    BY <2>1, <2>2, <2>3
<1> QED
  BY <1>5, <1>6 DEF new, IsBetween

\* What lines say depends on which they are, not on their order.
Lines(lines) == {lines[i] : i \in DOMAIN lines}

\* A line put in takes the place of all that stood there.
LEMMA PutLines ==
    ASSUME NEW lines \in Seq(Item), NEW key \in Keys, NEW value \in Words
    PROVE  /\ Put(lines, key, value) \in Seq(Item)
           /\ \A line : line \in Lines(Put(lines, key, value)) <=>
                  \/ line = [at |-> key, value |-> value]
                  \/ line \in Lines(lines) /\ line.at # key
<1> DEFINE put == [at |-> key, value |-> value]
           new == Put(lines, key, value)
           end == EndOf(lines, key[1])
<1>1. put \in Item
  BY DEF Item
<1>2. CASE At(lines, key) # {}
  <2>1. new = [i \in DOMAIN lines |->
                  IF lines[i].at = key THEN [lines[i] EXCEPT !.value = value] ELSE lines[i]]
    BY <1>2 DEF Put
  <2>2. ASSUME NEW i \in DOMAIN lines
        PROVE  IF lines[i].at = key THEN new[i] = put ELSE new[i] = lines[i]
    <3>1. lines[i] \in Item
      OBVIOUS
    <3>2. lines[i].at = key => [lines[i] EXCEPT !.value = value] = put
      BY <3>1 DEF Item
    <3> QED
      BY <2>1, <3>2
  <2>3. DOMAIN new = DOMAIN lines
    BY <2>1
  <2> HIDE DEF new, put
  <2>4. new \in Seq(Item)
    <3>1. \A i \in DOMAIN lines : new[i] \in Item
      BY <1>1, <2>2
    <3>2. DOMAIN new = 1..Len(lines) /\ new = [i \in DOMAIN new |-> new[i]]
      BY <2>1, <2>3
    <3> QED
      BY <2>3, <3>1, <3>2
  <2>5. PICK k \in DOMAIN lines : lines[k].at = key
    BY <1>2 DEF At
  <2>6. ASSUME NEW line
        PROVE  line \in Lines(new) <=> line = put \/ (line \in Lines(lines) /\ line.at # key)
    BY <2>2, <2>3, <2>5 DEF Lines
  <2> QED
    BY <2>4, <2>6 DEF new, put
<1>3. CASE At(lines, key) = {}
  <2>1. end \in 0..Len(lines)
    BY EndInFile
  <2>2. new = InsertBehind(lines, end, put)
    BY <1>3 DEF Put
  <2> HIDE DEF end, put, new
  <2>3. /\ new \in Seq(Item) /\ Len(new) = Len(lines) + 1
        /\ \A i \in 1..Len(lines) + 1 :
               new[i] = IF i <= end THEN lines[i]
                        ELSE IF i = end + 1 THEN put ELSE lines[i - 1]
    <3>1. IsBetween(InsertBehind(lines, end, put), lines, end, put)
      BY <1>1, <2>1, Between
    <3>2. IsBetween(new, lines, end, put)
      BY <2>2, <3>1
    <3> QED
      BY <3>2 DEF IsBetween
  <2>4. \A i \in DOMAIN lines : lines[i].at # key
    BY <1>3 DEF At
  <2>5. ASSUME NEW line
        PROVE  line \in Lines(new) <=> line = put \/ (line \in Lines(lines) /\ line.at # key)
    <3>1. ASSUME line \in Lines(new) PROVE line = put \/ line \in Lines(lines)
      <4>1. PICK i \in 1..Len(lines) + 1 : line = new[i]
        BY <2>3, <3>1 DEF Lines
      <4>2. CASE i <= end
        BY <2>1, <2>3, <4>1, <4>2 DEF Lines
      <4>3. CASE i = end + 1
        BY <2>1, <2>3, <4>1, <4>3
      <4>4. CASE i > end + 1
        <5>1. i - 1 \in DOMAIN lines /\ new[i] = lines[i - 1]
          BY <2>1, <2>3, <4>4
        <5> QED
          BY <4>1, <5>1 DEF Lines
      <4> QED
        BY <2>1, <4>2, <4>3, <4>4
    <3>2. put \in Lines(new)
      <4>1. end + 1 \in DOMAIN new /\ new[end + 1] = put
        BY <2>1, <2>3
      <4> QED
        BY <4>1 DEF Lines
    <3>3. ASSUME line \in Lines(lines) PROVE line \in Lines(new)
      <4>1. PICK i \in DOMAIN lines : line = lines[i]
        BY <3>3 DEF Lines
      <4>2. CASE i <= end
        <5>1. i \in DOMAIN new /\ new[i] = line
          BY <2>3, <4>1, <4>2
        <5> QED
          BY <5>1 DEF Lines
      <4>3. CASE i > end
        <5>1. i + 1 \in DOMAIN new /\ new[i + 1] = lines[i + 1 - 1] /\ i + 1 - 1 = i
          BY <2>1, <2>3, <4>3
        <5> QED
          BY <4>1, <5>1 DEF Lines
      <4> QED
        BY <2>1, <4>2, <4>3
    <3>4. line \in Lines(lines) => line.at # key
      BY <2>4 DEF Lines
    <3> QED
      BY <3>1, <3>2, <3>3, <3>4
  <2> QED
    BY <2>3, <2>5 DEF new, put
<1> QED
  BY <1>2, <1>3

\* What a file says is a value for each of its keys, on a line of its own or on several.
Says(lines, values) ==
    /\ lines \in Seq(Item)
    /\ values = [key \in {line.at : line \in Lines(lines)} |-> values[key]]
    /\ \A line \in Lines(lines) : line.at # Torn.at /\ values[line.at] = line.value

\* Values with one of them changed, or new.
With(values, key, value) ==
    [k \in DOMAIN values \cup {key} |-> IF k = key THEN value ELSE values[k]]

LEMMA PutSays ==
    ASSUME NEW lines, NEW values, Says(lines, values),
           NEW key \in Keys, key # Torn.at, NEW value \in Words
    PROVE  Says(Put(lines, key, value), With(values, key, value))
<1> DEFINE put == [at |-> key, value |-> value]
           new == Put(lines, key, value)
           after == With(values, key, value)
<1>1. /\ new \in Seq(Item)
      /\ \A line : line \in Lines(new) <=>
             line = put \/ (line \in Lines(lines) /\ line.at # key)
  BY PutLines DEF Says
<1>2. put.at = key /\ put.value = value
  OBVIOUS
<1> HIDE DEF put, new
<1>3. DOMAIN values = {line.at : line \in Lines(lines)}
  BY DEF Says
<1>4. {line.at : line \in Lines(new)} = DOMAIN values \cup {key}
  BY <1>1, <1>2, <1>3
<1>5. after = [k \in {line.at : line \in Lines(new)} |-> after[k]]
  BY <1>4 DEF With
<1>6. after[key] = value /\ \A k \in DOMAIN values : k # key => after[k] = values[k]
  BY DEF With
<1>7. ASSUME NEW line \in Lines(new) PROVE line.at # Torn.at /\ after[line.at] = line.value
  <2>1. CASE line = put
    BY <1>2, <1>6, <2>1
  <2>2. CASE line \in Lines(lines) /\ line.at # key
    <3>1. line.at \in DOMAIN values /\ line.at # Torn.at /\ values[line.at] = line.value
      BY <1>3, <2>2 DEF Says
    <3> QED
      BY <1>6, <2>2, <3>1
  <2> QED
    BY <1>1, <2>1, <2>2
<1> HIDE DEF after
<1> QED
  BY <1>1, <1>5, <1>7 DEF Says, new, after

\* A file that is read is read line by line.
LEMMA LoadedSteps ==
    ASSUME NEW lines \in Seq(Item)
    PROVE  \E g : /\ g[0] = <<>>
                  /\ \A i \in 1..Len(lines) :
                         g[i] = Put(g[i - 1], lines[i].at, lines[i].value)
                  /\ Loaded(lines) = g[Len(lines)]
<1> DEFINE n == Len(lines)
           D == Seq(Item)
           step == [i \in 1..n |-> [r \in D |-> Put(r, lines[i].at, lines[i].value)]]
           Steps(f) == f = [i \in 0..n |-> IF i = 0 THEN <<>>
                                           ELSE Put(f[i - 1], lines[i].at, lines[i].value)]
<1>1. n \in Nat /\ <<>> \in D
  OBVIOUS
<1>2. ASSUME NEW i \in 1..n, NEW r \in D PROVE Put(r, lines[i].at, lines[i].value) \in D
  <2>1. lines[i] \in Item
    OBVIOUS
  <2>2. lines[i].at \in Keys /\ lines[i].value \in Words
    BY <2>1 DEF Item
  <2> QED
    BY <2>2, PutLines
<1>3. PICK f \in Runs(n, D, <<>>, step) : TRUE
  <2>1. step \in [1..n -> [D -> D]]
    <3> HIDE DEF D, n
    <3> QED
      BY <1>2
  <2> HIDE DEF D, n, step
  <2> QED
    BY <1>1, <2>1, Recursion
<1> HIDE DEF n, D
<1>4. f \in [0..n -> D] /\ f[0] = <<>> /\ \A i \in 1..n : f[i] = step[i][f[i - 1]]
  <2> HIDE DEF step
  <2> QED
    BY <1>3 DEF Runs
<1>5. ASSUME NEW i \in 1..n PROVE f[i] = Put(f[i - 1], lines[i].at, lines[i].value)
  <2>1. f[i - 1] \in D
    BY <1>1, <1>4
  <2> QED
    BY <1>4, <2>1
<1>6. Steps(f)
  <2>1. \A i \in 0..n : f[i] = IF i = 0 THEN <<>>
                               ELSE Put(f[i - 1], lines[i].at, lines[i].value)
    BY <1>1, <1>4, <1>5
  <2> QED
    BY <1>1, <1>4, <2>1
<1> DEFINE g == CHOOSE h : Steps(h)
<1>7. Steps(g)
  BY <1>6
<1>8. Loaded(lines) = g[n]
  BY DEF Loaded, n
<1>9. \A i \in 0..n : g[i] = IF i = 0 THEN <<>>
                             ELSE Put(g[i - 1], lines[i].at, lines[i].value)
  BY <1>7, Zenon
<1> HIDE DEF g
<1>10. g[0] = <<>> /\ \A i \in 1..n : g[i] = Put(g[i - 1], lines[i].at, lines[i].value)
  BY <1>1, <1>9
<1> QED
  BY <1>8, <1>10 DEF n

LEMMA FieldsAreKeys ==
    /\ FieldOrder \in Seq(Keys)
    /\ \A i \in DOMAIN FieldOrder : FieldOrder[i] # Torn.at
<1> DEFINE Key0 == Keys \ {Torn.at}
<1>1. ASSUME NEW a, NEW b, NEW c, NEW d, NEW e, NEW S
      PROVE  /\ Range(<<a, b, c, d, e>>) = {a, b, c, d, e}
             /\ {a, b, c, d, e} \subseteq S => <<a, b, c, d, e>> \in Seq(S)
  <2>1. DOMAIN <<a, b, c, d, e>> = {1, 2, 3, 4, 5}
    OBVIOUS
  <2>2. Range(<<a, b, c, d, e>>) = {<<a, b, c, d, e>>[i] : i \in {1, 2, 3, 4, 5}}
    BY <2>1 DEF Range
  <2> QED
    BY <2>2
<1> DEFINE a == <<"", "interface">>
           b == <<"web", "enabled">>
           c == <<"wifi_hotspot", "enabled">>
           d == <<"wifi_hotspot", "password">>
           e == <<"ping", "count">>
<1>2. FieldOrder = <<a, b, c, d, e>>
  BY DEF FieldOrder
<1>3. a # Torn.at /\ b # Torn.at /\ c # Torn.at /\ d # Torn.at /\ e # Torn.at
  <2>1. Torn.at = <<"?", "?">>
    BY DEF Torn
  <2> QED
    BY <2>1
<1> HIDE DEF Key0, a, b, c, d, e
<1>4. Range(FieldOrder) = {a, b, c, d, e}
  BY <1>1, <1>2
<1>5. Range(FieldOrder) \subseteq Key0
  <2>1. a \in AllKeys /\ b \in AllKeys /\ c \in AllKeys /\ d \in AllKeys /\ e \in AllKeys
    BY <1>4 DEF AllKeys
  <2>2. /\ a = <<a[1], a[2]>> /\ b = <<b[1], b[2]>> /\ c = <<c[1], c[2]>>
        /\ d = <<d[1], d[2]>> /\ e = <<e[1], e[2]>>
    BY DEF a, b, c, d, e
  <2>3. a \in Keys /\ b \in Keys /\ c \in Keys /\ d \in Keys /\ e \in Keys
    BY <2>1, <2>2 DEF Keys
  <2> QED
    BY <1>3, <1>4, <2>3 DEF Key0
<1>6. FieldOrder \in Seq(Key0)
  BY <1>1, <1>2, <1>4, <1>5
<1> QED
  BY <1>6 DEF Key0

\* The form's fields are put in one by one.
LEMMA FilledSteps ==
    ASSUME NEW lines \in Seq(Item), NEW post, post \in [DOMAIN post -> Words],
           DOMAIN post \subseteq Range(FieldOrder)
    PROVE  \E g : /\ g[0] = lines
                  /\ \A i \in 1..Len(FieldOrder) :
                         g[i] = IF FieldOrder[i] \in DOMAIN post
                                THEN Put(g[i - 1], FieldOrder[i], post[FieldOrder[i]])
                                ELSE g[i - 1]
                  /\ Filled(lines, post) = g[Len(FieldOrder)]
<1> DEFINE n == Len(FieldOrder)
           D == Seq(Item)
           Filling(r, i) == IF FieldOrder[i] \in DOMAIN post
                            THEN Put(r, FieldOrder[i], post[FieldOrder[i]]) ELSE r
           step == [i \in 1..n |-> [r \in D |-> Filling(r, i)]]
           Steps(f) == f = [i \in 0..n |-> IF i = 0 THEN lines
                                           ELSE IF FieldOrder[i] \in DOMAIN post
                                           THEN Put(f[i - 1], FieldOrder[i],
                                                    post[FieldOrder[i]])
                                           ELSE f[i - 1]]
<1>0. FieldOrder \in Seq(Keys)
  BY FieldsAreKeys
<1>1. n \in Nat /\ lines \in D
  BY <1>0
<1>2. ASSUME NEW i \in 1..n, NEW r \in D PROVE Filling(r, i) \in D
  <2>1. FieldOrder[i] \in Keys
    BY <1>0
  <2>2. FieldOrder[i] \in DOMAIN post => post[FieldOrder[i]] \in Words
    OBVIOUS
  <2> QED
    BY <2>1, <2>2, PutLines
<1> HIDE DEF n, D
<1>3. PICK f \in Runs(n, D, lines, step) : TRUE
  <2>1. step \in [1..n -> [D -> D]]
    <3> HIDE DEF Filling
    <3> QED
      BY <1>2
  <2> HIDE DEF step
  <2> QED
    BY <1>1, <2>1, Recursion
<1>4. f \in [0..n -> D] /\ f[0] = lines /\ \A i \in 1..n : f[i] = step[i][f[i - 1]]
  <2> HIDE DEF step
  <2> QED
    BY <1>3 DEF Runs
<1>5. ASSUME NEW i \in 1..n PROVE f[i] = Filling(f[i - 1], i)
  <2> HIDE DEF Filling
  <2>1. f[i - 1] \in D
    BY <1>1, <1>4
  <2> QED
    BY <1>4, <2>1
<1>6. Steps(f)
  <2>1. \A i \in 0..n : f[i] = IF i = 0 THEN lines ELSE Filling(f[i - 1], i)
    <3> HIDE DEF Filling
    <3> QED
      BY <1>1, <1>4, <1>5
  <2> QED
    BY <1>1, <1>4, <2>1
<1> DEFINE g == CHOOSE h : Steps(h)
<1>7. Steps(g)
  BY <1>6
<1>8. Filled(lines, post) = g[n]
  BY DEF Filled, n
<1>9. \A i \in 0..n : g[i] = IF i = 0 THEN lines ELSE Filling(g[i - 1], i)
  BY <1>7, Zenon
<1> HIDE DEF g
<1>10. g[0] = lines /\ \A i \in 1..n : g[i] = Filling(g[i - 1], i)
  <2> HIDE DEF Filling
  <2> QED
    BY <1>1, <1>9
<1> QED
  BY <1>8, <1>10 DEF n

\* Values with those of some keys of a second set of values laid over them.
Changed(values, by, keys) ==
    [k \in DOMAIN values \cup keys |-> IF k \in keys THEN by[k] ELSE values[k]]

LEMMA OneMoreChanged ==
    ASSUME NEW values, NEW by, NEW keys, NEW key
    PROVE  With(Changed(values, by, keys), key, by[key]) = Changed(values, by, keys \cup {key})
<1> DEFINE a == With(Changed(values, by, keys), key, by[key])
           b == Changed(values, by, keys \cup {key})
<1>1. DOMAIN a = DOMAIN b
  BY DEF With, Changed
<1>2. ASSUME NEW k \in DOMAIN b PROVE a[k] = b[k]
  BY DEF With, Changed
<1>3. a = [k \in DOMAIN a |-> a[k]] /\ b = [k \in DOMAIN b |-> b[k]]
  BY DEF With, Changed
<1> HIDE DEF a, b
<1>4. a = b
  BY <1>1, <1>2, <1>3
<1> QED
  BY <1>4 DEF a, b

\* A form changes the values it names, and keeps the others.
LEMMA FilledSays ==
    ASSUME NEW lines, NEW values, Says(lines, values),
           NEW post, post \in [DOMAIN post -> Words], DOMAIN post \subseteq Range(FieldOrder)
    PROVE  Says(Filled(lines, post), Changed(values, post, DOMAIN post))
<1> DEFINE n == Len(FieldOrder)
           Done(i) == {FieldOrder[j] : j \in 1..i} \cap DOMAIN post
<1>0. FieldOrder \in Seq(Keys) /\ \A i \in 1..n : FieldOrder[i] # Torn.at
  BY FieldsAreKeys
<1>1. PICK g : /\ g[0] = lines
               /\ \A i \in 1..n :
                      g[i] = IF FieldOrder[i] \in DOMAIN post
                             THEN Put(g[i - 1], FieldOrder[i], post[FieldOrder[i]])
                             ELSE g[i - 1]
               /\ Filled(lines, post) = g[n]
  BY FilledSteps DEF Says
<1>2. n \in Nat
  BY <1>0
<1> DEFINE T == {i \in 0..n : Says(g[i], Changed(values, post, Done(i)))}
<1>3. 0 \in T
  <2>1. Done(0) = {}
    OBVIOUS
  <2>2. Changed(values, post, {}) = values
    <3>1. values = [k \in DOMAIN values |-> values[k]]
      BY DEF Says
    <3> QED
      BY <3>1 DEF Changed
  <2> QED
    <3> HIDE DEF Done
    <3>1. Says(g[0], Changed(values, post, Done(0)))
      BY <1>1, <2>1, <2>2
    <3> QED
      BY <1>2, <3>1
<1>4. ASSUME NEW i \in 1..n, i - 1 \in T PROVE i \in T
  <2>1. Says(g[i - 1], Changed(values, post, Done(i - 1)))
    BY <1>4
  <2>2. {FieldOrder[j] : j \in 1..i} = {FieldOrder[j] : j \in 1..i - 1} \cup {FieldOrder[i]}
    <3>1. 1..i = 1..(i - 1) \cup {i}
      BY <1>2
    <3> QED
      BY <3>1
  <2>3. CASE FieldOrder[i] \in DOMAIN post
    <3>1. Done(i) = Done(i - 1) \cup {FieldOrder[i]}
      BY <2>2, <2>3
    <3>2. g[i] = Put(g[i - 1], FieldOrder[i], post[FieldOrder[i]])
      BY <1>1, <2>3
    <3>3. FieldOrder[i] \in Keys /\ post[FieldOrder[i]] \in Words
      BY <1>0, <2>3
    <3> HIDE DEF Done
    <3>4. Says(g[i], With(Changed(values, post, Done(i - 1)), FieldOrder[i], post[FieldOrder[i]]))
      BY <1>0, <2>1, <3>2, <3>3, PutSays
    <3> QED
      BY <3>1, <3>4, OneMoreChanged
  <2>4. CASE FieldOrder[i] \notin DOMAIN post
    <3>1. Done(i) = Done(i - 1)
      BY <2>2, <2>4
    <3>2. g[i] = g[i - 1]
      BY <1>1, <2>4
    <3> HIDE DEF Done
    <3> QED
      BY <2>1, <3>1, <3>2
  <2> QED
    BY <2>3, <2>4
<1>5. \A i \in 0..n : i \in T
  <2> HIDE DEF T, n
  <2> QED
    BY <1>2, <1>3, <1>4, Induct
<1>6. Done(n) = DOMAIN post
  <2>1. Range(FieldOrder) = {FieldOrder[j] : j \in 1..n}
    <3>1. DOMAIN FieldOrder = 1..n
      BY <1>0
    <3> QED
      BY <3>1 DEF Range
  <2> QED
    BY <2>1
<1>7. n \in T
  <2> HIDE DEF T, n
  <2> QED
    BY <1>2, <1>5
<1> HIDE DEF Done
<1> QED
  BY <1>1, <1>6, <1>7

\* A file without lines says nothing.
NoValues == [k \in {} |-> ""]

LEMMA EmptySays == Says(<<>>, NoValues)
<1>1. Lines(<<>>) = {} /\ <<>> \in Seq(Item)
  BY DEF Lines
<1>2. NoValues = [key \in {line.at : line \in {}} |-> NoValues[key]]
  BY DEF NoValues
<1> QED
  BY <1>1, <1>2 DEF Says

\* Of a key that stands there twice, some value is read.
LEMMA SomethingIsLoaded ==
    ASSUME NEW lines \in Seq(Item), \A i \in DOMAIN lines : lines[i].at # Torn.at
    PROVE  \E values : Says(Loaded(lines), values)
<1> DEFINE n == Len(lines)
<1>1. PICK g : /\ g[0] = <<>>
               /\ \A i \in 1..n : g[i] = Put(g[i - 1], lines[i].at, lines[i].value)
               /\ Loaded(lines) = g[n]
  BY LoadedSteps
<1>2. n \in Nat
  OBVIOUS
<1> DEFINE T == {i \in 0..n : \E values : Says(g[i], values)}
<1>3. 0 \in T
  BY <1>1, <1>2, EmptySays
<1>4. ASSUME NEW i \in 1..n, i - 1 \in T PROVE i \in T
  <2>1. PICK values : Says(g[i - 1], values)
    BY <1>4
  <2>2. lines[i].at \in Keys /\ lines[i].value \in Words /\ lines[i].at # Torn.at
    <3>1. lines[i] \in Item /\ i \in DOMAIN lines
      OBVIOUS
    <3> QED
      BY <3>1 DEF Item
  <2>3. Says(g[i], With(values, lines[i].at, lines[i].value))
    BY <1>1, <2>1, <2>2, PutSays
  <2> QED
    BY <2>3
<1>5. \A i \in 0..n : i \in T
  <2> HIDE DEF T, n
  <2> QED
    BY <1>2, <1>3, <1>4, Induct
<1>6. n \in T
  <2> HIDE DEF T, n
  <2> QED
    BY <1>2, <1>5
<1> QED
  BY <1>1, <1>6

\* What a file says is read.
LEMMA LoadedSays ==
    ASSUME NEW lines, NEW values, Says(lines, values)
    PROVE  Says(Loaded(lines), values)
<1> DEFINE n == Len(lines)
           AtFirst(i) == {lines[j].at : j \in 1..i}
<1>0. lines \in Seq(Item)
  BY DEF Says
<1>1. PICK g : /\ g[0] = <<>>
               /\ \A i \in 1..n : g[i] = Put(g[i - 1], lines[i].at, lines[i].value)
               /\ Loaded(lines) = g[n]
  BY <1>0, LoadedSteps
<1>2. n \in Nat
  BY <1>0
<1> DEFINE T == {i \in 0..n : Says(g[i], Changed(NoValues, values, AtFirst(i)))}
<1>3. 0 \in T
  <2>1. AtFirst(0) = {}
    OBVIOUS
  <2>2. Changed(NoValues, values, {}) = NoValues
    BY DEF Changed, NoValues
  <2> HIDE DEF AtFirst
  <2>3. Says(g[0], Changed(NoValues, values, AtFirst(0)))
    BY <1>1, <2>1, <2>2, EmptySays
  <2> QED
    BY <1>2, <2>3
<1>4. ASSUME NEW i \in 1..n, i - 1 \in T PROVE i \in T
  <2>1. Says(g[i - 1], Changed(NoValues, values, AtFirst(i - 1)))
    BY <1>4
  <2>2. AtFirst(i) = AtFirst(i - 1) \cup {lines[i].at}
    <3>1. 1..i = 1..(i - 1) \cup {i}
      BY <1>2
    <3> QED
      BY <3>1
  <2>3. /\ lines[i].at \in Keys /\ lines[i].value \in Words
        /\ lines[i].at # Torn.at /\ lines[i].value = values[lines[i].at]
    <3>1. lines[i] \in Item /\ lines[i] \in Lines(lines)
      BY <1>0 DEF Lines
    <3> QED
      BY <3>1 DEF Item, Says
  <2> HIDE DEF AtFirst
  <2>4. Says(g[i], With(Changed(NoValues, values, AtFirst(i - 1)), lines[i].at, lines[i].value))
    BY <1>1, <2>1, <2>3, PutSays
  <2>5. With(Changed(NoValues, values, AtFirst(i - 1)), lines[i].at, values[lines[i].at])
          = Changed(NoValues, values, AtFirst(i - 1) \cup {lines[i].at})
    <3> DEFINE key == lines[i].at
               keys == AtFirst(i - 1)
    <3> HIDE DEF key, keys
    <3>1. With(Changed(NoValues, values, keys), key, values[key])
              = Changed(NoValues, values, keys \cup {key})
      BY OneMoreChanged
    <3> QED
      BY <3>1 DEF key, keys
  <2>6. Says(g[i], Changed(NoValues, values, AtFirst(i)))
    BY <2>2, <2>3, <2>4, <2>5
  <2> QED
    BY <2>6
<1>5. \A i \in 0..n : i \in T
  <2> HIDE DEF T, n
  <2> QED
    BY <1>2, <1>3, <1>4, Induct
<1>6. n \in T
  <2> HIDE DEF T, n
  <2> QED
    BY <1>2, <1>5
<1>7. Changed(NoValues, values, AtFirst(n)) = values
  <2>1. AtFirst(n) = {line.at : line \in Lines(lines)}
    BY <1>0 DEF Lines
  <2>2. values = [key \in AtFirst(n) |-> values[key]]
    BY <2>1 DEF Says
  <2> HIDE DEF AtFirst
  <2>3. Changed(NoValues, values, AtFirst(n)) = [key \in AtFirst(n) |-> values[key]]
    BY DEF Changed, NoValues
  <2> QED
    BY <2>2, <2>3
<1> HIDE DEF AtFirst
<1> QED
  BY <1>1, <1>6, <1>7

\* What the page shows of a file that says something is just that.
LEMMA ValuesAreSaid ==
    ASSUME NEW lines, NEW values, Says(Loaded(lines), values)
    PROVE  Values(lines) = values
<1> DEFINE read == Loaded(lines)
           at(key) == CHOOSE i \in At(read, key) : TRUE
<1>1. Values(lines) = [key \in {read[i].at : i \in DOMAIN read} |-> read[at(key)].value]
  BY DEF Values
<1> HIDE DEF read
<1>2. {read[i].at : i \in DOMAIN read} = {line.at : line \in Lines(read)}
  BY DEF Lines
<1>3. ASSUME NEW key \in {line.at : line \in Lines(read)}
      PROVE  read[at(key)].value = values[key]
  <2>1. \E i \in DOMAIN read : read[i].at = key
    BY DEF Lines
  <2>2. at(key) \in DOMAIN read /\ read[at(key)].at = key
    BY <2>1 DEF At
  <2> HIDE DEF at
  <2>3. read[at(key)] \in Lines(read)
    BY <2>2 DEF Lines
  <2> QED
    BY <2>2, <2>3 DEF Says, read
<1>4. values = [key \in {line.at : line \in Lines(read)} |-> values[key]]
  BY DEF Says, read
<1> HIDE DEF at
<1> QED
  BY <1>1, <1>2, <1>3, <1>4

\* A file that parses, once read, says what it did, and so do its values.
LEMMA LoadedIsSaid ==
    ASSUME NEW lines \in Seq(Item), \A i \in DOMAIN lines : lines[i].at # Torn.at
    PROVE  Says(Loaded(lines), Values(lines))
BY SomethingIsLoaded, ValuesAreSaid

LEMMA SaidIsShown ==
    ASSUME NEW lines, NEW values, Says(lines, values)
    PROVE  Parses(lines) /\ Values(lines) = values
<1>1. Values(lines) = values
  BY LoadedSays, ValuesAreSaid
<1>2. \A i \in DOMAIN lines : lines[i].at # Torn.at
  BY DEF Says, Lines
<1> QED
  BY <1>1, <1>2 DEF Parses

LEMMA TextsAreRows ==
    ASSUME NEW text \in Files \cup Edits \cup {Template}, Parses(text)
    PROVE  text \in Seq(Item) /\ \A i \in DOMAIN text : text[i].at # Torn.at
<1>1. IsText(text)
  BY TextsAssumption
<1>2. text \in Seq(Line)
  BY <1>1 DEF IsText
<1>3. ASSUME NEW i \in DOMAIN text PROVE text[i] \in Item
  <2>1. text[i] \in AllLines
    <3>1. text[i] \in Range(text)
      BY <1>3 DEF Range
    <3> QED
      BY <3>1 DEF AllLines
  <2>2. text[i].at \in Keys /\ text[i].value \in Words
    <3>1. text[i].at \in AllKeys /\ text[i].value \in Words
      BY <2>1 DEF AllKeys, Words
    <3>2. text[i].at = <<text[i].at[1], text[i].at[2]>>
      <4>1. text[i] \in Line
        BY <1>2, <1>3
      <4>2. text[i].at \in STRING \X STRING
        BY <4>1 DEF Line
      <4> QED
        BY <4>2
    <3> QED
      BY <3>1, <3>2 DEF Keys
  <2>3. text[i] = [at |-> text[i].at, value |-> text[i].value]
    <3>1. text[i] \in Line
      BY <1>2, <1>3
    <3> QED
      BY <3>1 DEF Line
  <2> QED
    BY <2>2, <2>3 DEF Item
<1>4. text \in Seq(Item)
  BY <1>2, <1>3
<1> QED
  BY <1>1, <1>4 DEF IsText, Parses

LEMMA PostsAreFields ==
    ASSUME NEW post \in Posts
    PROVE  post \in [DOMAIN post -> Words] /\ DOMAIN post \subseteq Range(FieldOrder)
<1>1. post \in [DOMAIN post -> STRING] /\ DOMAIN post \subseteq Range(FieldOrder)
  BY TextsAssumption
<1>2. \A key \in DOMAIN post : post[key] \in Words
  BY DEF Words, Range
<1> QED
  BY <1>1, <1>2

-------------------------------------------------------------------------------
(* The saves.                                                                   *)

Steady == ~disturbed /\ ~installed

SaversInv ==
    /\ spc \in [Savers -> {"idle", "read", "writing"}]
    /\ DOMAIN page = Savers
    /\ disturbed \in BOOLEAN /\ installed \in BOOLEAN

\* One saver at a time, who has read what was asked for so far, or holds it all while
\* the file is empty; else the file says it.
SavedInv ==
    /\ \A b, c \in Busy : b = c
    /\ \A c \in Savers : spc[c] = "read" => Says(page[c], expected)
    /\ \A c \in Savers : spc[c] = "writing" => Says(page[c], expected) /\ file = <<>>
    /\ (\A c \in Savers : spc[c] # "writing") =>
           Parses(file) /\ Says(Loaded(file), expected)

ConfigInv == SaversInv /\ (Steady => SavedInv)

LEMMA InitConfig == ConfigInit => ConfigInv
<1> SUFFICES ASSUME ConfigInit PROVE ConfigInv
  OBVIOUS
<1>1. SaversInv
  BY DEF ConfigInit, SaversInv
<1>2. Parses(file) /\ Says(Loaded(file), expected)
  <2>1. file \in Files /\ expected = Values(file)
    BY DEF ConfigInit
  <2>2. Parses(file)
    BY <2>1, TextsAssumption
  <2> QED
    BY <2>1, <2>2, TextsAreRows, LoadedIsSaid
<1>3. \A c \in Savers : spc[c] = "idle"
  BY DEF ConfigInit
<1> QED
  BY <1>1, <1>2, <1>3 DEF ConfigInv, SavedInv, Busy

\* A request is made of an idle service, or disturbs.
LEMMA RequestAlone ==
    ASSUME ConfigInv, NEW c \in Savers, Request(c)
    PROVE  /\ disturbed' \in BOOLEAN /\ installed' \in BOOLEAN
           /\ Steady' => /\ \A b \in Savers : spc[b] = "idle"
                         /\ Parses(file) /\ Says(Loaded(file), expected)
<1>1. disturbed' = (disturbed \/ Busy # {}) /\ installed' = installed
  BY DEF Request
<1>2. ASSUME Steady'
      PROVE  /\ \A b \in Savers : spc[b] = "idle"
             /\ Parses(file) /\ Says(Loaded(file), expected)
  <2>1. ~disturbed /\ Busy = {} /\ ~installed
    BY <1>1, <1>2 DEF Steady
  <2>2. \A b \in Savers : spc[b] = "idle"
    BY <2>1 DEF Busy
  <2> QED
    BY <2>1, <2>2 DEF ConfigInv, SavedInv, Steady
<1> QED
  BY <1>1, <1>2 DEF ConfigInv, SaversInv

LEMMA TextKeeps ==
    ASSUME ConfigInv, NEW c \in Savers, PutText(c)
    PROVE  ConfigInv'
<1>0. Request(c)
  BY DEF PutText
<1>1. PICK text \in Edits :
          IF Parses(text) /\ Accepted(text)
          THEN Truncate(c, Loaded(text)) /\ expected' = Values(text)
          ELSE UNCHANGED <<file, spc, page, expected>>
  BY DEF PutText
<1>2. CASE Parses(text) /\ Accepted(text)
  <2>1. /\ file' = <<>> /\ expected' = Values(text)
        /\ page' = [page EXCEPT ![c] = Loaded(text)]
        /\ spc' = [spc EXCEPT ![c] = "writing"]
    BY <1>1, <1>2 DEF Truncate
  <2>2. SaversInv'
    BY <1>0, <2>1, RequestAlone DEF ConfigInv, SaversInv
  <2>3. Says(Loaded(text), Values(text))
    BY <1>2, TextsAreRows, LoadedIsSaid
  <2>4. ASSUME Steady' PROVE SavedInv'
    <3>1. /\ spc'[c] = "writing" /\ page'[c] = Loaded(text)
          /\ \A b \in Savers : b # c => spc'[b] = "idle"
      BY <1>0, <2>1, <2>4, RequestAlone DEF ConfigInv, SaversInv
    <3> QED
      BY <2>1, <2>3, <3>1 DEF SavedInv, Busy
  <2> QED
    BY <2>2, <2>4 DEF ConfigInv
<1>3. CASE ~(Parses(text) /\ Accepted(text))
  <2>1. UNCHANGED <<file, spc, page, expected>>
    BY <1>1, <1>3
  <2>2. SaversInv'
    BY <1>0, <2>1, RequestAlone DEF ConfigInv, SaversInv
  <2>3. ASSUME Steady' PROVE SavedInv'
    BY <1>0, <2>1, <2>3, RequestAlone DEF SavedInv, Busy
  <2> QED
    BY <2>2, <2>3 DEF ConfigInv
<1> QED
  BY <1>2, <1>3

LEMMA ReadKeeps ==
    ASSUME ConfigInv, NEW c \in Savers, ReadForm(c)
    PROVE  ConfigInv'
<1>1. /\ Request(c) /\ UNCHANGED <<file, expected>>
      /\ page' = [page EXCEPT ![c] = Loaded(file)]
      /\ spc' = [spc EXCEPT ![c] = "read"]
  BY DEF ReadForm
<1>2. SaversInv'
  BY <1>1, RequestAlone DEF ConfigInv, SaversInv
<1>3. ASSUME Steady' PROVE SavedInv'
  <2>1. /\ spc'[c] = "read" /\ page'[c] = Loaded(file)
        /\ \A b \in Savers : b # c => spc'[b] = "idle"
        /\ Parses(file) /\ Says(Loaded(file), expected)
    BY <1>1, <1>3, RequestAlone DEF ConfigInv, SaversInv
  <2> QED
    BY <1>1, <2>1 DEF SavedInv, Busy
<1> QED
  BY <1>2, <1>3 DEF ConfigInv

LEMMA FormKeeps ==
    ASSUME ConfigInv, NEW c \in Savers, SaveForm(c)
    PROVE  ConfigInv'
<1>1. PICK post \in Posts :
          LET data == Filled(page[c], post)
          IN IF FormAccepted(data, post)
             THEN /\ Truncate(c, data)
                  /\ expected' =
                         [key \in DOMAIN expected \cup DOMAIN post |->
                             IF key \in DOMAIN post THEN post[key] ELSE expected[key]]
             ELSE /\ spc' = [spc EXCEPT ![c] = "idle"]
                  /\ UNCHANGED <<file, page, expected>>
  BY DEF SaveForm
<1>2. spc[c] = "read" /\ UNCHANGED <<disturbed, installed>>
  BY DEF SaveForm
<1>3. Steady' => /\ Steady
                 /\ \A b \in Savers : b # c => spc[b] = "idle"
                 /\ Says(page[c], expected)
                 /\ Parses(file) /\ Says(Loaded(file), expected)
  <2> SUFFICES ASSUME Steady'
               PROVE  /\ Steady
                      /\ \A b \in Savers : b # c => spc[b] = "idle"
                      /\ Says(page[c], expected)
                      /\ Parses(file) /\ Says(Loaded(file), expected)
    OBVIOUS
  <2>1. Steady /\ SavedInv
    BY <1>2 DEF Steady, ConfigInv
  <2>2. \A b \in Savers : b # c => spc[b] = "idle"
    BY <1>2, <2>1 DEF SavedInv, Busy
  <2> QED
    BY <1>2, <2>1, <2>2 DEF SavedInv
<1>4. CASE FormAccepted(Filled(page[c], post), post)
  <2>1. /\ file' = <<>> /\ expected' = Changed(expected, post, DOMAIN post)
        /\ page' = [page EXCEPT ![c] = Filled(page[c], post)]
        /\ spc' = [spc EXCEPT ![c] = "writing"]
    BY <1>1, <1>4 DEF Truncate, Changed
  <2>2. SaversInv'
    BY <1>2, <2>1 DEF ConfigInv, SaversInv
  <2>3. ASSUME Steady' PROVE SavedInv'
    <3>1. Says(Filled(page[c], post), Changed(expected, post, DOMAIN post))
      BY <1>3, <2>3, PostsAreFields, FilledSays
    <3>2. /\ spc'[c] = "writing" /\ page'[c] = Filled(page[c], post)
          /\ \A b \in Savers : b # c => spc'[b] = "idle"
      BY <1>3, <2>1, <2>3 DEF ConfigInv, SaversInv
    <3> QED
      BY <2>1, <3>1, <3>2 DEF SavedInv, Busy
  <2> QED
    BY <2>2, <2>3 DEF ConfigInv
<1>5. CASE ~FormAccepted(Filled(page[c], post), post)
  <2>1. UNCHANGED <<file, page, expected>> /\ spc' = [spc EXCEPT ![c] = "idle"]
    BY <1>1, <1>5
  <2>2. SaversInv'
    BY <1>2, <2>1 DEF ConfigInv, SaversInv
  <2>3. ASSUME Steady' PROVE SavedInv'
    <3>1. \A b \in Savers : spc'[b] = "idle"
      BY <1>3, <2>1, <2>3 DEF ConfigInv, SaversInv
    <3> QED
      BY <1>3, <2>1, <2>3, <3>1 DEF SavedInv, Busy
  <2> QED
    BY <2>2, <2>3 DEF ConfigInv
<1> QED
  BY <1>4, <1>5

\* Alone, the writer leaves just its page behind.
LEMMA CloseKeeps ==
    ASSUME ConfigInv, NEW c \in Savers, Close(c)
    PROVE  ConfigInv'
<1>1. /\ spc[c] = "writing" /\ spc' = [spc EXCEPT ![c] = "idle"]
      /\ UNCHANGED <<page, expected, disturbed, installed>>
  BY DEF Close
<1>2. SaversInv'
  BY <1>1 DEF ConfigInv, SaversInv
<1>3. ASSUME Steady' PROVE SavedInv'
  <2>1. SavedInv
    BY <1>1, <1>3 DEF Steady, ConfigInv
  <2>2. /\ file = <<>> /\ Says(page[c], expected)
        /\ \A b \in Savers : spc'[b] = "idle"
    BY <1>1, <2>1 DEF SavedInv, Busy, ConfigInv, SaversInv
  <2>3. file' = page[c]
    <3>1. SubSeq(file, Len(page[c]) + 1, Len(file)) = <<>>
      <4>1. Len(page[c]) \in Nat
        BY <2>2 DEF Says
      <4>2. Len(file) = 0
        BY <2>2
      <4> QED
        BY <4>1, <4>2, SubSeqEmpty
    <3>2. file' = page[c] \o <<>>
      BY <3>1 DEF Close
    <3> QED
      BY <2>2, <3>2, ConcatEmptySeq DEF Says
  <2>4. Parses(page[c]) /\ Says(Loaded(page[c]), expected)
    BY <2>2, SaidIsShown, LoadedSays
  <2> QED
    BY <1>1, <2>2, <2>3, <2>4 DEF SavedInv, Busy
<1> QED
  BY <1>2, <1>3 DEF ConfigInv

LEMMA NextConfig == ConfigInv /\ [ConfigNext]_configVars => ConfigInv'
<1> SUFFICES ASSUME ConfigInv, [ConfigNext]_configVars PROVE ConfigInv'
  OBVIOUS
<1>1. CASE \E c \in Savers : PutText(c) \/ ReadForm(c) \/ SaveForm(c) \/ Close(c)
  BY <1>1, TextKeeps, ReadKeeps, FormKeeps, CloseKeeps
<1>2. CASE PowerCut
  <2>1. /\ disturbed' = TRUE /\ page' = page /\ installed' = installed
        /\ spc' = [c \in Savers |-> "idle"]
    BY <1>2 DEF PowerCut
  <2> QED
    BY <2>1 DEF ConfigInv, SaversInv, Steady
<1>3. CASE Install
  <2>1. /\ installed' = TRUE /\ disturbed' = (disturbed \/ Busy # {})
        /\ UNCHANGED <<spc, page>>
    BY <1>3 DEF Install
  <2> QED
    BY <2>1 DEF ConfigInv, SaversInv, Steady
<1>4. CASE Boot \/ UNCHANGED configVars
  <2>1. UNCHANGED <<file, spc, page, expected, disturbed, installed>>
    BY <1>4 DEF Boot, configVars
  <2> QED
    BY <2>1 DEF ConfigInv, SaversInv, SavedInv, Steady, Busy
<1> QED
  BY <1>1, <1>2, <1>3, <1>4 DEF ConfigNext

\* Saves that do not overlap, with the power on, add up: between them the file says
\* what all of them have asked for (config_io.py:20-41, web/server.py:128-150).
THEOREM SavesAddUp == ConfigSpec => []SavesCompose
<1>1. ConfigInv => SavesCompose
  <2> SUFFICES ASSUME ConfigInv, Busy = {}, ~disturbed, ~installed
               PROVE  Parses(file) /\ Values(file) = expected
    BY DEF SavesCompose
  <2>1. \A c \in Savers : spc[c] # "writing"
    BY DEF Busy
  <2>2. Parses(file) /\ Says(Loaded(file), expected)
    BY <2>1 DEF ConfigInv, SavedInv, Steady
  <2> QED
    BY <2>2, ValuesAreSaid
<1> QED
  BY InitConfig, NextConfig, <1>1, PTL DEF ConfigSpec

\* A text is one of lines, whatever becomes of it: when it is read, ...
LEMMA LoadedIsText ==
    ASSUME NEW lines \in Seq(Item) PROVE Loaded(lines) \in Seq(Item)
<1> DEFINE n == Len(lines)
           D == Seq(Item)
<1>1. PICK g : /\ g[0] = <<>>
               /\ \A i \in 1..n : g[i] = Put(g[i - 1], lines[i].at, lines[i].value)
               /\ Loaded(lines) = g[n]
  BY LoadedSteps
<1>2. n \in Nat /\ n \in 0..n
  OBVIOUS
<1>3. ASSUME NEW i \in 1..n, g[i - 1] \in D PROVE g[i] \in D
  <2>1. lines[i] \in Item
    OBVIOUS
  <2>2. lines[i].at \in Keys /\ lines[i].value \in Words
    BY <2>1 DEF Item
  <2> QED
    BY <1>1, <1>3, <2>2, PutLines
<1> DEFINE T == {i \in 0..n : g[i] \in D}
<1>4. \A i \in 0..n : i \in T
  <2> HIDE DEF n, D
  <2>1. <<>> \in D
    BY DEF D
  <2>2. 0 \in T
    BY <1>1, <1>2, <2>1
  <2>3. ASSUME NEW i \in 1..n, i - 1 \in T PROVE i \in T
    BY <1>2, <1>3, <2>3
  <2> HIDE DEF T
  <2> QED
    BY <1>2, <2>2, <2>3, Induct
<1> QED
  BY <1>1, <1>2, <1>4

\* ... the values of a form put into it, ...
LEMMA FilledIsText ==
    ASSUME NEW lines \in Seq(Item), NEW post \in Posts
    PROVE  Filled(lines, post) \in Seq(Item)
<1> DEFINE n == Len(FieldOrder)
           D == Seq(Item)
<1>0. post \in [DOMAIN post -> Words] /\ DOMAIN post \subseteq Range(FieldOrder)
  BY PostsAreFields
<1>1. PICK g : /\ g[0] = lines
               /\ \A i \in 1..n :
                      g[i] = IF FieldOrder[i] \in DOMAIN post
                             THEN Put(g[i - 1], FieldOrder[i], post[FieldOrder[i]])
                             ELSE g[i - 1]
               /\ Filled(lines, post) = g[n]
  BY <1>0, FilledSteps
<1>2. n \in Nat /\ n \in 0..n /\ \A i \in 1..n : FieldOrder[i] \in Keys
  BY FieldsAreKeys
<1>3. ASSUME NEW i \in 1..n, g[i - 1] \in D PROVE g[i] \in D
  <2>1. FieldOrder[i] \in Keys
    BY <1>2
  <2>2. FieldOrder[i] \in DOMAIN post => post[FieldOrder[i]] \in Words
    BY <1>0
  <2> QED
    BY <1>1, <1>3, <2>1, <2>2, PutLines
<1> DEFINE T == {i \in 0..n : g[i] \in D}
<1>4. \A i \in 0..n : i \in T
  <2>1. lines \in D
    OBVIOUS
  <2> HIDE DEF n, D
  <2>2. 0 \in T
    BY <1>1, <1>2, <2>1
  <2>3. ASSUME NEW i \in 1..n, i - 1 \in T PROVE i \in T
    BY <1>2, <1>3, <2>3
  <2> HIDE DEF T
  <2> QED
    BY <1>2, <2>2, <2>3, Induct
<1> QED
  BY <1>1, <1>2, <1>4

LEMMA TornIsItem == Torn \in Item
<1>1. Torn \in AllLines /\ Torn = [at |-> <<"?", "?">>, value |-> "?"]
  <2>1. Torn \in AllLines
    BY DEF AllLines
  <2> QED
    BY <2>1 DEF Torn
<1>2. Torn.at \in AllKeys /\ Torn.value \in Words
  BY <1>1 DEF AllKeys, Words
<1>3. Torn.at = <<Torn.at[1], Torn.at[2]>>
  BY <1>1
<1>4. Torn.at \in Keys
  BY <1>2, <1>3 DEF Keys
<1> QED
  BY <1>1, <1>2, <1>4 DEF Item

\* ... when it is cut or another one stands out behind it, ...
LEMMA PartsAreTexts ==
    ASSUME NEW lines \in Seq(Item), NEW piece \in PartsOf(lines) PROVE piece \in Seq(Item)
<1>1. PICK n \in DOMAIN lines :
          piece \in {SubSeq(lines, 1, n), Append(SubSeq(lines, 1, n), Torn)}
  BY DEF PartsOf
<1> DEFINE begin == SubSeq(lines, 1, n)
<1>2. begin \in Seq(Item)
  OBVIOUS
<1> HIDE DEF begin
<1>3. Append(begin, Torn) \in Seq(Item)
  BY <1>2, TornIsItem
<1> QED
  BY <1>1, <1>2, <1>3 DEF begin

LEMMA RestsAreTexts ==
    ASSUME NEW lines \in Seq(Item), NEW other \in Seq(Item)
    PROVE  LET rest == SubSeq(other, Len(lines) + 1, Len(other))
           IN \A behind \in {rest, IF rest = <<>> THEN rest ELSE <<Torn>> \o Tail(rest)} :
                  lines \o behind \in Seq(Item)
<1> DEFINE rest == SubSeq(other, Len(lines) + 1, Len(other))
<1>1. rest \in Seq(Item)
  <2> HIDE DEF Item
  <2>1. \A i \in (Len(lines) + 1)..Len(other) : other[i] \in Item
    OBVIOUS
  <2>2. Len(lines) + 1 \in Int /\ Len(other) \in Int
    OBVIOUS
  <2> QED
    BY <2>1, <2>2, SubSeqProperties
<1> HIDE DEF rest, Item
<1>2. rest # <<>> => <<Torn>> \o Tail(rest) \in Seq(Item)
  <2>1. <<Torn>> \in Seq(Item)
    BY TornIsItem
  <2>2. rest # <<>> => Tail(rest) \in Seq(Item)
    BY <1>1
  <2> QED
    BY <2>1, <2>2
<1>3. \A behind \in {rest, IF rest = <<>> THEN rest ELSE <<Torn>> \o Tail(rest)} :
          behind \in Seq(Item)
  BY <1>1, <1>2
<1>4. \A behind \in Seq(Item) : lines \o behind \in Seq(Item)
  OBVIOUS
<1>5. \A behind \in {rest, IF rest = <<>> THEN rest ELSE <<Torn>> \o Tail(rest)} :
          lines \o behind \in Seq(Item)
  BY <1>3, <1>4, Zenon
<1> QED
  BY <1>5 DEF rest

\* ... and when the template's lines that it lacks are appended.
LEMMA BlocksAreText ==
    ASSUME NEW lines PROVE Blocks(lines) \in Seq(Item)
<1> DEFINE n == Len(Template)
           D == Seq(Item)
           Next1(r, i) == IF IsMissing(lines, Template[i]) THEN Append(r, Template[i]) ELSE r
           step == [i \in 1..n |-> [r \in D |-> Next1(r, i)]]
           Steps(f) == f = [i \in 0..n |-> IF i = 0 THEN <<>>
                                           ELSE IF IsMissing(lines, Template[i])
                                           THEN Append(f[i - 1], Template[i]) ELSE f[i - 1]]
<1>1. Template \in Seq(Item)
  BY TextsAssumption, TextsAreRows
<1>2. n \in Nat /\ <<>> \in D
  BY <1>1
<1>3. ASSUME NEW i \in 1..n, NEW r \in D PROVE Next1(r, i) \in D
  <2> HIDE DEF Item
  <2>1. Template[i] \in Item
    BY <1>1
  <2>2. Append(r, Template[i]) \in D
    BY <2>1
  <2> QED
    BY <2>2
<1> HIDE DEF n, D
<1>4. step \in [1..n -> [D -> D]]
  <2> HIDE DEF Next1
  <2> QED
    BY <1>3
<1>5. PICK f \in Runs(n, D, <<>>, step) : TRUE
  <2> HIDE DEF step
  <2> QED
    BY <1>2, <1>4, Recursion
<1>6. f \in [0..n -> D] /\ f[0] = <<>> /\ \A i \in 1..n : f[i] = step[i][f[i - 1]]
  <2> HIDE DEF step
  <2> QED
    BY <1>5 DEF Runs
<1>7. ASSUME NEW i \in 1..n PROVE f[i] = Next1(f[i - 1], i)
  <2>1. f[i - 1] \in D
    BY <1>2, <1>6
  <2> QED
    BY <1>6, <2>1
<1>8. Steps(f)
  <2>1. \A i \in 0..n : f[i] = IF i = 0 THEN <<>>
                                ELSE IF IsMissing(lines, Template[i])
                                THEN Append(f[i - 1], Template[i]) ELSE f[i - 1]
    <3>1. f[0] = <<>>
      BY <1>6
    <3> HIDE DEF step
    <3> QED
      BY <1>2, <1>7, <3>1
  <2> QED
    BY <1>2, <1>6, <2>1
<1> DEFINE g == CHOOSE h : Steps(h)
<1>9. Steps(g)
  BY <1>8
<1>10. Blocks(lines) = g[n]
  BY DEF Blocks, n
<1>11. \A i \in 0..n : g[i] = IF i = 0 THEN <<>>
                               ELSE IF IsMissing(lines, Template[i])
                               THEN Append(g[i - 1], Template[i]) ELSE g[i - 1]
  BY <1>9, Zenon
<1> HIDE DEF g
<1> DEFINE T == {i \in 0..n : g[i] \in D}
<1>12. \A i \in 0..n : i \in T
  <2>1. 0 \in T
    BY <1>2, <1>11
  <2>2. ASSUME NEW i \in 1..n, i - 1 \in T PROVE i \in T
    <3>1. g[i] = Next1(g[i - 1], i) /\ g[i - 1] \in D /\ i \in 0..n
      BY <1>2, <1>11, <2>2
    <3> QED
      BY <1>3, <3>1
  <2> HIDE DEF T
  <2> QED
    BY <1>2, <2>1, <2>2, Induct
<1> QED
  BY <1>2, <1>10, <1>12 DEF D

LEMMA AppendedIsText ==
    ASSUME NEW lines \in Seq(Item) PROVE Appended(lines) \in Seq(Item)
<1> DEFINE Behind(section, line) == [at |-> <<section, line.at[2]>>, value |-> line.value]
           new == Blocks(lines)
           At1(i) == IF lines = <<>> THEN Behind("", new[i])
                     ELSE IF Last(lines).at[1] = "" THEN Torn
                     ELSE Behind(Last(lines).at[1], new[i])
           behind == [i \in DOMAIN new |-> At1(i)]
<1>1. new \in Seq(Item)
  BY BlocksAreText
<1>2. Appended(lines) = lines \o behind
  BY DEF Appended
<1> HIDE DEF new
<1>3. ASSUME NEW section \in {key[1] : key \in AllKeys} \cup {""}, NEW line \in Item
      PROVE  Behind(section, line) \in Item
  <2>1. line.at \in Keys /\ line.value \in Words
    BY DEF Item
  <2>2. line.at[2] \in {key[2] : key \in AllKeys}
    BY <2>1 DEF Keys
  <2>3. <<section, line.at[2]>> \in Keys
    BY <2>2 DEF Keys
  <2> QED
    BY <2>1, <2>3 DEF Item
<1>4. lines # <<>> => Last(lines).at[1] \in {key[1] : key \in AllKeys} \cup {""}
  <2> SUFFICES ASSUME lines # <<>>
               PROVE  Last(lines).at[1] \in {key[1] : key \in AllKeys} \cup {""}
    OBVIOUS
  <2>1. Last(lines) \in Item
    BY DEF Last
  <2>2. Last(lines).at \in Keys
    BY <2>1 DEF Item
  <2> QED
    BY <2>2 DEF Keys
<1>5. ASSUME NEW i \in DOMAIN new PROVE At1(i) \in Item
  <2>1. new[i] \in Item
    BY <1>1
  <2> HIDE DEF Behind
  <2> QED
    BY <1>3, <1>4, <2>1, TornIsItem
<1> HIDE DEF At1, Item
<1>6. behind \in Seq(Item)
  <2>1. DOMAIN new = 1..Len(new) /\ Len(new) \in Nat
    BY <1>1
  <2> QED
    BY <1>5, <2>1
<1> QED
  BY <1>2, <1>6

\* The file and what the savers hold are texts, torn lines among them or not.
FilesInv ==
    /\ up \in BOOLEAN /\ saves \in 0..MaxSaves
    /\ file \in Seq(Item)
    /\ page \in [Savers -> Seq(Item)]

LEMMA InitFiles == ConfigInit => FilesInv
<1> SUFFICES ASSUME ConfigInit PROVE FilesInv
  OBVIOUS
<1>1. file \in Seq(Item)
  <2>1. file \in Files
    BY DEF ConfigInit
  <2>2. Parses(file)
    BY <2>1, TextsAssumption
  <2> QED
    BY <2>1, <2>2, TextsAreRows
<1>2. <<>> \in Seq(Item)
  OBVIOUS
<1>3. page \in [Savers -> Seq(Item)] /\ saves \in 0..MaxSaves /\ up = TRUE
  <2> HIDE DEF Item
  <2> QED
    BY <1>2, ConfigAssumption DEF ConfigInit
<1> QED
  BY <1>1, <1>3 DEF FilesInv

\* A page gets a text, the file stays one.
LEMMA PageIsText ==
    ASSUME FilesInv, NEW c \in Savers, NEW lines \in Seq(Item),
           page' = [page EXCEPT ![c] = lines]
    PROVE  page' \in [Savers -> Seq(Item)]
BY DEF FilesInv

LEMMA RequestCounts ==
    ASSUME FilesInv, NEW c, Request(c) PROVE saves' \in 0..MaxSaves /\ up' = up
<1>1. saves < MaxSaves /\ saves' = saves + 1 /\ up' = up
  BY DEF Request
<1> QED
  BY <1>1, ConfigAssumption DEF FilesInv

LEMMA TextsStay ==
    ASSUME FilesInv, NEW c \in Savers, PutText(c) PROVE FilesInv'
<1>1. Request(c)
  BY DEF PutText
<1>2. PICK text \in Edits :
          IF Parses(text) /\ Accepted(text)
          THEN Truncate(c, Loaded(text)) /\ expected' = Values(text)
          ELSE UNCHANGED <<file, spc, page, expected>>
  BY DEF PutText
<1>3. CASE Parses(text) /\ Accepted(text)
  <2>1. Loaded(text) \in Seq(Item)
    BY <1>3, TextsAreRows, LoadedIsText
  <2>2. file' = <<>> /\ page' = [page EXCEPT ![c] = Loaded(text)]
    BY <1>2, <1>3 DEF Truncate
  <2>3. <<>> \in Seq(Item)
    OBVIOUS
  <2> QED
    BY <1>1, <2>1, <2>2, <2>3, PageIsText, RequestCounts DEF FilesInv
<1>4. CASE ~(Parses(text) /\ Accepted(text))
  <2>1. file' = file /\ page' = page
    BY <1>2, <1>4
  <2> QED
    BY <1>1, <2>1, RequestCounts DEF FilesInv
<1> QED
  BY <1>3, <1>4

LEMMA FormsStay ==
    ASSUME FilesInv, NEW c \in Savers, SaveForm(c) PROVE FilesInv'
<1>1. up' = up /\ saves' = saves
  BY DEF SaveForm
<1>2. PICK post \in Posts :
          \/ Truncate(c, Filled(page[c], post))
          \/ file' = file /\ page' = page
  BY DEF SaveForm
<1>3. CASE Truncate(c, Filled(page[c], post))
  <2>1. page[c] \in Seq(Item)
    BY DEF FilesInv
  <2>2. Filled(page[c], post) \in Seq(Item)
    BY <2>1, FilledIsText
  <2>3. file' = <<>> /\ page' = [page EXCEPT ![c] = Filled(page[c], post)]
    BY <1>3 DEF Truncate
  <2>4. <<>> \in Seq(Item)
    OBVIOUS
  <2> QED
    BY <1>1, <2>2, <2>3, <2>4, PageIsText DEF FilesInv
<1>4. CASE file' = file /\ page' = page
  BY <1>1, <1>4 DEF FilesInv
<1> QED
  BY <1>2, <1>3, <1>4

LEMMA ClosedStays ==
    ASSUME FilesInv, NEW c \in Savers, Close(c) PROVE FilesInv'
<1> DEFINE rest == SubSeq(file, Len(page[c]) + 1, Len(file))
<1>1. PICK behind \in {rest, IF rest = <<>> THEN rest ELSE <<Torn>> \o Tail(rest)} :
          file' = page[c] \o behind
  BY DEF Close
<1>2. page[c] \in Seq(Item) /\ file \in Seq(Item)
  BY DEF FilesInv
<1>3. \A b \in {rest, IF rest = <<>> THEN rest ELSE <<Torn>> \o Tail(rest)} :
          page[c] \o b \in Seq(Item)
  BY <1>2, RestsAreTexts
<1>4. file' \in Seq(Item)
  <2> HIDE DEF rest
  <2> QED
    BY <1>1, <1>3, Zenon
<1>5. up' = up /\ page' = page /\ saves' = saves
  BY DEF Close
<1> QED
  BY <1>4, <1>5 DEF FilesInv

LEMMA CutsStay == FilesInv /\ PowerCut => FilesInv'
<1> SUFFICES ASSUME FilesInv, PowerCut PROVE FilesInv'
  OBVIOUS
<1>1. /\ file' \in {file} \cup UNION {PartsOf(page[c]) : c \in {b \in Busy : spc[b] = "writing"}}
      /\ up' = FALSE /\ page' = page /\ saves' = saves
  BY DEF PowerCut
<1>2. file' = file \/ \E c \in Savers : file' \in PartsOf(page[c])
  BY <1>1 DEF Busy
<1>3. file' \in Seq(Item)
  <2>1. file \in Seq(Item) /\ \A c \in Savers : page[c] \in Seq(Item)
    BY DEF FilesInv
  <2>2. ASSUME NEW c \in Savers, file' \in PartsOf(page[c]) PROVE file' \in Seq(Item)
    <3>1. page[c] \in Seq(Item)
      BY <2>1
    <3> QED
      BY <2>2, <3>1, PartsAreTexts
  <2> QED
    BY <1>2, <2>1, <2>2
<1> QED
  BY <1>1, <1>3 DEF FilesInv

LEMMA NextFiles == FilesInv /\ [ConfigNext]_configVars => FilesInv'
<1> SUFFICES ASSUME FilesInv, [ConfigNext]_configVars PROVE FilesInv'
  OBVIOUS
<1>0. file \in Seq(Item)
  BY DEF FilesInv
<1>1. ASSUME NEW c \in Savers, ReadForm(c) PROVE FilesInv'
  <2>1. Request(c) /\ file' = file /\ page' = [page EXCEPT ![c] = Loaded(file)]
    BY <1>1 DEF ReadForm
  <2>2. Loaded(file) \in Seq(Item)
    BY <1>0, LoadedIsText
  <2> QED
    BY <1>0, <2>1, <2>2, PageIsText, RequestCounts DEF FilesInv
<1>2. CASE Install
  <2>1. file' = Appended(file) /\ up' = up /\ page' = page /\ saves' = saves
    BY <1>2 DEF Install
  <2> QED
    BY <1>0, <2>1, AppendedIsText DEF FilesInv
<1>3. CASE Boot
  BY <1>3 DEF Boot, FilesInv
<1>4. CASE UNCHANGED configVars
  BY <1>4 DEF configVars, FilesInv
<1> QED
  BY <1>1, <1>2, <1>3, <1>4, TextsStay, FormsStay, ClosedStays, CutsStay DEF ConfigNext

\* Whatever savers, power cuts and the installer make of it, the file stays a list of
\* lines, and so does what each saver has in hand (config_io.py:20-41,
\* config_merge.py:63-87).
THEOREM FilesAreTyped == ConfigSpec => []ConfigTypeOK
<1>1. ConfigInit => ConfigInv /\ FilesInv
  BY InitConfig, InitFiles
<1>2. ConfigInv /\ FilesInv /\ [ConfigNext]_configVars => (ConfigInv /\ FilesInv)'
  BY NextConfig, NextFiles
<1>3. ConfigInv /\ FilesInv => ConfigTypeOK
  <2> SUFFICES ASSUME ConfigInv, FilesInv PROVE ConfigTypeOK
    OBVIOUS
  <2>1. ASSUME NEW i \in DOMAIN file PROVE DOMAIN file[i] = {"at", "value"}
    <3>1. file[i] \in Item
      BY <2>1 DEF FilesInv
    <3> QED
      BY <3>1 DEF Item
  <2> QED
    BY <2>1 DEF ConfigInv, SaversInv, FilesInv, ConfigTypeOK
<1> QED
  BY <1>1, <1>2, <1>3, PTL DEF ConfigSpec

-------------------------------------------------------------------------------
(* The parts together.                                                             *)

\* One of them runs, and the others stay as they began.
LEMMA EachStarts ==
    ASSUME MCInit
    PROVE  EngineInit /\ InputInit /\ ConfigInit /\ OuiInit /\ ScansInit /\ JobsInit
<1>1. EngineAtRest => EngineInit
  BY DEF EngineAtRest
<1>2. InputAtRest => InputInit
  BY DEF InputAtRest
<1>3. ConfigAtRest => ConfigInit
  BY DEF ConfigAtRest
<1>4. OuiAtRest => OuiInit
  BY DEF OuiAtRest
<1>5. ScansAtRest => ScansInit
  BY DEF ScansAtRest
<1>6. JobsAtRest => JobsInit
  BY DEF JobsAtRest
<1> QED
  BY <1>1, <1>2, <1>3, <1>4, <1>5, <1>6 DEF MCInit, OthersRest

LEMMA EachSteps ==
    ASSUME [MCNext]_<<part, instruments, stores, probes>>
    PROVE  /\ [EngineNext]_engineVars /\ [InputNext]_inputVars /\ [ConfigNext]_configVars
           /\ [OuiNext]_ouiVars /\ [ScansNext]_scanVars /\ [JobsNext]_jobVars
BY DEF MCNext, instruments, stores, probes

\* The parts run side by side: what holds of each by itself holds of all of them
\* (MCSpec stands for no code of its own).
THEOREM EachPartRuns ==
    MCSpec => EngineSpec /\ InputSpec /\ ConfigSpec /\ OuiSpec /\ ScansSpec /\ JobsSpec
<1>1. MCInit => EngineInit /\ InputInit /\ ConfigInit /\ OuiInit /\ ScansInit /\ JobsInit
  BY EachStarts
<1>2. [MCNext]_<<part, instruments, stores, probes>> =>
          /\ [EngineNext]_engineVars /\ [InputNext]_inputVars /\ [ConfigNext]_configVars
          /\ [OuiNext]_ouiVars /\ [ScansNext]_scanVars /\ [JobsNext]_jobVars
  BY EachSteps
<1> QED
  BY <1>1, <1>2, PTL DEF MCSpec, EngineSpec, InputSpec, ConfigSpec, OuiSpec, ScansSpec, JobsSpec

\* The variables of every part stay within their types, for all constants: the engine,
\* the input devices, the configuration, the vendors, the wizard's scans and the jobs.
THEOREM TypeCorrect == MCSpec => []TypeOK
<1>1. EngineTypeOK /\ InputTypeOK /\ ConfigTypeOK /\ OuiTypeOK /\ ScansTypeOK /\ JobsTypeOK
          => TypeOK
  BY DEF TypeOK
<1> QED
  BY <1>1, EachPartRuns, EngineIsTyped, InputsAreTyped, FilesAreTyped, TablesAreTyped,
     ScansAreTyped, JobsAreTyped, PTL

===============================================================================
