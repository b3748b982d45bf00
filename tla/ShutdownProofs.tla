---------------------------- MODULE ShutdownProofs ----------------------------
(* The hotspot and its shutdown for any number of pages, commands and shutdown   *)
(* threads, requests and faults.                                                 *)
EXTENDS Shutdown, FiniteSetTheorems, TLAPS

-------------------------------------------------------------------------------
(* The inductive invariants.                                                    *)

Stopping == {"look", "signal", "unlink", "dropState"}

\* What follows a stop.
ThenInv ==
    \A a \in Actors :
        pc[a] \in Stopping => then[a] \in {"idle", "prepare", "ensure", "start"}

\* As long as nothing was disturbed: one operation at a time, every daemon in a PID
\* file, and between the looking and the removal of the file no dnsmasq on its way up.
QuietInv ==
    ~disturbed =>
        /\ \A a, b \in Actors : pc[a] # "idle" /\ pc[b] # "idle" => a = b
        /\ \A d \in Daemons : ~Orphan(d)
        /\ \A a \in Actors : pc[a] \in {"signal", "unlink"} => starting = {}
        /\ \A a \in Actors : pc[a] = "unlink" => live[target[a]] = "no"

\* What the hook of a shutdown has done by the place it is at.
HookInv ==
    \A s \in Stoppers :
        spc[s] = "stopping" /\ pc[s] # "idle" =>
            /\ pc[s] \in Stopping \cup {"hung"}
            /\ then[s] = "idle"
            /\ ~disturbed =>
                  /\ pc[s] # "look" \/ target[s] = "dnsmasq" => starting = {}
                  /\ target[s] = "dnsmasq" => live["hostapd"] = "no"
                  /\ pc[s] = "signal" => file[target[s]] # "none"
                  /\ pc[s] = "dropState" =>
                        target[s] = "dnsmasq" /\ live["dnsmasq"] = "no"

-------------------------------------------------------------------------------
(* Types.                                                                       *)

LEMMA InitTypes == ShutdownInit => TypeOK /\ ThenInv
<1> SUFFICES ASSUME ShutdownInit PROVE TypeOK /\ ThenInv
  OBVIOUS
<1> USE HotspotAssumption DEF ShutdownInit, Init
<1>1. /\ live \in [Daemons -> {"no", "ndp", "other"}]
      /\ file \in [Daemons -> {"none", "live", "dead"}]
      /\ starting \in SUBSET Actors
  OBVIOUS
<1>2. {present, iface, disturbed} \subseteq BOOLEAN
  OBVIOUS
<1>3. /\ diskConf \in {"on", "off", "bad"}
      /\ conf \in [Actors -> {"on", "off", "bad"}]
  OBVIOUS
<1>4. /\ pc \in [Actors -> ActorPCs]
      /\ target \in [Actors -> Daemons]
      /\ then \in [Actors -> {"idle", "repair", "confirm", "prepare", "ensure", "start"}]
  BY DEF ActorPCs, Daemons
<1>5. requests \in 0..MaxRequests /\ faults \in 0..MaxFaults
  OBVIOUS
<1>6. /\ phase \in Phases
      /\ spc \in [Stoppers -> {"none", "delay", "stopping", "off", "issued", "failed"}]
  BY DEF Phases
<1>7. ThenInv
  BY DEF ThenInv, Stopping
<1> QED
  BY <1>1, <1>2, <1>3, <1>4, <1>5, <1>6, <1>7 DEF TypeOK

\* The steps of control that several actions share.
LEMMA ControlTypes ==
    ASSUME TypeOK, NEW a \in Actors
    PROVE  /\ \A l \in ActorPCs : Goto(a, l) => pc' \in [Actors -> ActorPCs]
           /\ \A next \in {"idle", "repair", "confirm", "prepare", "ensure", "start"} :
                 /\ GotoStop(a, next) \/ GotoCheck(a, next) =>
                       /\ pc' \in [Actors -> ActorPCs]
                       /\ target' \in [Actors -> Daemons]
                       /\ then' \in [Actors -> {"idle", "repair", "confirm", "prepare",
                                                "ensure", "start"}]
           /\ Finish(a) \/ Unhealthy(a) =>
                 /\ pc' \in [Actors -> ActorPCs]
                 /\ target' \in [Actors -> Daemons]
                 /\ then' \in [Actors -> {"idle", "repair", "confirm", "prepare",
                                          "ensure", "start"}]
BY DEF TypeOK, Goto, GotoStop, GotoCheck, Finish, Unhealthy, ActorPCs, Daemons

LEMMA FaultTypes == TypeOK /\ (Fault \/ UNCHANGED faults) => faults' \in 0..MaxFaults
BY HotspotAssumption DEF TypeOK, Fault

\* Each step of an operation.
LEMMA OperateTypes ==
    ASSUME TypeOK, ThenInv, NEW a \in Actors, Operate(a), UNCHANGED shutdownVars
    PROVE  TypeOK'
<1> USE DEF shared, bounds, control, shutdownVars
<1>1. CASE CheckHostapd(a)
  BY <1>1, ControlTypes DEF CheckHostapd, TypeOK, ActorPCs
<1>2. CASE CheckDnsmasq(a)
  BY <1>2, ControlTypes DEF CheckDnsmasq, TypeOK, ActorPCs
<1>3. CASE CheckIface(a)
  BY <1>3, ControlTypes DEF CheckIface, TypeOK, ActorPCs
<1>4. CASE Look(a)
  BY <1>4, ControlTypes DEF Look, TypeOK, ActorPCs
<1>5. CASE Signal(a)
  BY <1>5, ControlTypes DEF Signal, Signalled, TypeOK, ActorPCs
<1>6. CASE Unlink(a)
  BY <1>6, ControlTypes DEF Unlink, AfterDaemon, TypeOK, ActorPCs, Daemons
<1>7. CASE DropState(a)
  <2> USE <1>7 DEF DropState
  <2>1. CASE then[a] = "ensure" /\ GotoCheck(a, "repair")
    BY <2>1, ControlTypes DEF TypeOK
  <2>2. CASE then[a] = "idle" /\ Finish(a)
    BY <2>2, ControlTypes DEF TypeOK
  <2>3. CASE /\ then[a] \in {"prepare", "start"}
             /\ Goto(a, then[a]) /\ UNCHANGED <<target, then>>
    BY <2>3, ControlTypes DEF TypeOK, ActorPCs
  <2> QED
    BY <2>1, <2>2, <2>3 DEF ThenInv, Stopping, At
<1>8. CASE Start(a)
  BY <1>8, ControlTypes DEF Start, TypeOK
<1>9. CASE Prepare(a)
  BY <1>9, ControlTypes DEF Prepare, TypeOK, ActorPCs
<1>10. CASE Dnsmasq(a)
  BY <1>10, ControlTypes, FaultTypes DEF Dnsmasq, TypeOK, ActorPCs
<1>11. CASE Hostapd(a)
  BY <1>11, ControlTypes, FaultTypes DEF Hostapd, Owner, TypeOK, ActorPCs, Daemons
<1>12. CASE Confirm(a)
  BY <1>12, ControlTypes, FaultTypes DEF Confirm, TypeOK
<1> QED
  BY <1>1, <1>2, <1>3, <1>4, <1>5, <1>6, <1>7, <1>8, <1>9, <1>10, <1>11, <1>12
     DEF Operate

\* A step that never ends.
LEMMA HangTypes ==
    ASSUME TypeOK, NEW a \in Actors, Hang(a), UNCHANGED shutdownVars
    PROVE  TypeOK'
<1>1. pc' \in [Actors -> ActorPCs] /\ iface' \in BOOLEAN
  BY ControlTypes DEF Hang, TypeOK, ActorPCs
<1>2. faults' \in 0..MaxFaults
  BY FaultTypes DEF Hang
<1> QED
  BY <1>1, <1>2 DEF Hang, TypeOK, shutdownVars

\* What happens to the hotspot beside its operations.
LEMMA HotspotTypes == TypeOK /\ ThenInv /\ OfHotspot => TypeOK'
<1> SUFFICES ASSUME TypeOK, ThenInv, OfHotspot PROVE TypeOK'
  OBVIOUS
<1> USE DEF shared, bounds, control, shutdownVars, OfHotspot
<1>1. ASSUME NEW a \in Actors, Operate(a), UNCHANGED shutdownVars PROVE TypeOK'
  BY <1>1, OperateTypes
<1>2. ASSUME NEW a \in Actors, DnsmasqUp(a) \/ Hang(a), UNCHANGED shutdownVars
      PROVE  TypeOK'
  BY <1>2, HangTypes DEF DnsmasqUp, Owner, TypeOK, Daemons
<1>3. CASE Tick
  BY <1>3, ControlTypes DEF Tick, Begin, TypeOK, Actors
<1>4. ASSUME NEW w \in Web, WebRestart(w), UNCHANGED shutdownVars PROVE TypeOK'
  <2> w \in Actors
    BY DEF Actors
  <2> QED
    BY <1>4, ControlTypes, HotspotAssumption DEF WebRestart, Request, Begin, TypeOK
<1>5. ASSUME NEW c \in Cli, Command(c), UNCHANGED shutdownVars PROVE TypeOK'
  <2> c \in Actors
    BY DEF Actors
  <2> QED
    BY <1>5, ControlTypes, HotspotAssumption
       DEF Command, Request, Begin, TypeOK, ActorPCs
<1>6. CASE SaveConf
  BY <1>6, HotspotAssumption DEF SaveConf, TypeOK
<1>7. ASSUME NEW d \in Daemons, Crash(d), UNCHANGED shutdownVars PROVE TypeOK'
  BY <1>7, FaultTypes DEF Crash, TypeOK
<1>8. CASE Interface
  BY <1>8, FaultTypes DEF Interface, TypeOK
<1> QED
  BY <1>1, <1>2, <1>3, <1>4, <1>5, <1>6, <1>7, <1>8

\* The service is restarted.
LEMMA RestartTypes == TypeOK /\ Restart => TypeOK'
<1> SUFFICES ASSUME TypeOK, Restart PROVE TypeOK'
  OBVIOUS
<1> USE DEF Restart, ServiceRestart
<1>1. /\ live' \in [Daemons -> {"no", "ndp", "other"}]
      /\ file' \in [Daemons -> {"none", "live", "dead"}]
      /\ starting' \in SUBSET Actors
  BY DEF TypeOK
<1>2. /\ pc' \in [Actors -> ActorPCs]
      /\ target' \in [Actors -> Daemons]
      /\ then' \in [Actors -> {"idle", "repair", "confirm", "prepare", "ensure", "start"}]
      /\ conf' \in [Actors -> {"on", "off", "bad"}]
  BY DEF TypeOK, ActorPCs, Daemons
<1>3. faults' \in 0..MaxFaults
  BY FaultTypes
<1>4. /\ phase' \in Phases
      /\ spc' \in [Stoppers -> {"none", "delay", "stopping", "off", "issued", "failed"}]
  BY DEF Phases
<1> QED
  BY <1>1, <1>2, <1>3, <1>4 DEF TypeOK

LEMMA ThreadTypes ==
    ASSUME TypeOK, NEW s \in Stoppers, RequestShutdown(s) \/ Thread(s)
    PROVE  TypeOK'
<1> USE DEF hotspotVars, shared, control, bounds
<1>1. s \in Actors
  BY DEF Actors
<1>2. CASE RequestShutdown(s)
  BY <1>2 DEF RequestShutdown, TypeOK, Phases
<1>3. CASE DelayOver(s)
  BY <1>1, <1>3, ControlTypes DEF DelayOver, Begin, TypeOK, Phases
<1>4. CASE HookOver(s)
  BY <1>4 DEF HookOver, TypeOK, Phases
<1>5. CASE Poweroff(s)
  BY <1>5, FaultTypes DEF Poweroff, TypeOK, Phases
<1> QED
  BY <1>2, <1>3, <1>4, <1>5 DEF Thread

LEMMA NextTypes == TypeOK /\ ThenInv /\ [Next]_vars => TypeOK'
<1>1. TypeOK /\ UNCHANGED vars => TypeOK'
  BY DEF TypeOK, vars, hotspotVars, shared, control, bounds, shutdownVars
<1> QED
  BY <1>1, HotspotTypes, RestartTypes, ThreadTypes DEF Next

\* Whoever begins a stop says what follows it, and nothing changes that before.
LEMMA NextThen == TypeOK /\ ThenInv /\ [Next]_vars => ThenInv'
<1> SUFFICES ASSUME TypeOK, ThenInv, [Next]_vars PROVE ThenInv'
  OBVIOUS
<1> USE DEF TypeOK, ThenInv, Stopping, At, Goto, GotoStop, GotoCheck, Finish, Unhealthy
<1>1. ASSUME NEW a \in Actors, Operate(a) PROVE ThenInv'
  <2>1. CASE CheckHostapd(a) \/ CheckDnsmasq(a) \/ CheckIface(a)
    BY <1>1, <2>1 DEF CheckHostapd, CheckDnsmasq, CheckIface
  <2>2. CASE Look(a) \/ Signal(a)
    BY <1>1, <2>2 DEF Look, Signal
  <2>3. CASE Unlink(a)
    BY <1>1, <2>3 DEF Unlink
  <2>4. CASE DropState(a)
    BY <1>1, <2>4 DEF DropState
  <2>5. CASE Start(a) \/ Prepare(a) \/ Dnsmasq(a)
    BY <1>1, <2>5 DEF Start, Prepare, Dnsmasq
  <2>6. CASE Hostapd(a) \/ Confirm(a)
    BY <1>1, <2>6 DEF Hostapd, Confirm
  <2> QED
    BY <1>1, <2>1, <2>2, <2>3, <2>4, <2>5, <2>6 DEF Operate
<1>2. CASE Tick
  BY <1>2 DEF Tick, Begin, Actors
<1>3. ASSUME NEW w \in Web, WebRestart(w) PROVE ThenInv'
  BY <1>3 DEF WebRestart, Request, Begin, Actors
<1>4. ASSUME NEW c \in Cli, Command(c) PROVE ThenInv'
  BY <1>4 DEF Command, Request, Begin, Actors
<1>5. CASE Restart
  BY <1>5 DEF Restart, ServiceRestart
<1>6. ASSUME NEW s \in Stoppers, DelayOver(s) PROVE ThenInv'
  BY <1>6 DEF DelayOver, Begin, Actors
<1>7. CASE UNCHANGED control
  BY <1>7 DEF control
<1>10. ASSUME NEW a \in Actors, Hang(a) PROVE ThenInv'
  BY <1>10 DEF Hang
<1>8. CASE OfHotspot
  BY <1>1, <1>2, <1>3, <1>4, <1>7, <1>8, <1>10
     DEF OfHotspot, DnsmasqUp, SaveConf, Crash, Interface
<1>9. ASSUME NEW s \in Stoppers, RequestShutdown(s) \/ HookOver(s) \/ Poweroff(s)
      PROVE  ThenInv'
  BY <1>7, <1>9 DEF RequestShutdown, HookOver, Poweroff, hotspotVars
<1> QED
  BY <1>5, <1>6, <1>7, <1>8, <1>9 DEF Next, Thread, vars, hotspotVars

\* Every operation goes on to a place its caller asked for, for any number of callers
\* (hotspot.py:475-582, shutdown.py:92-114).
THEOREM TypeCorrect == Spec => []TypeOK
<1>1. TypeOK /\ ThenInv /\ [Next]_vars => TypeOK' /\ ThenInv'
  BY NextTypes, NextThen
<1> QED
  BY InitTypes, <1>1, PTL DEF Spec

-------------------------------------------------------------------------------
(* One shutdown at a time.                                                      *)

\* OneShutdown without the cardinality.
OnlyOne ==
    /\ \A s, t \in UnderWay : s = t
    /\ \A s \in UnderWay : phase # "idle" /\ spc[s] \in StandsAt[phase]
    /\ phase # "idle" => UnderWay # {}

LEMMA OnlyOneCounts == OnlyOne => OneShutdown
<1> SUFFICES ASSUME OnlyOne PROVE OneShutdown
  OBVIOUS
<1>1. Cardinality(UnderWay) <= 1
  <2>1. CASE UnderWay = {}
    BY <2>1, FS_EmptySet
  <2>2. CASE UnderWay # {}
    <3>1. PICK s : s \in UnderWay
      BY <2>2
    <3>2. UnderWay = {s}
      BY <3>1 DEF OnlyOne
    <3>3. Cardinality({s}) = 1
      BY FS_Singleton
    <3> QED
      BY <3>2, <3>3
  <2> QED
    BY <2>1, <2>2
<1>2. phase # "idle" => \E s \in UnderWay : spc[s] \in StandsAt[phase]
  BY DEF OnlyOne
<1>3. phase = "idle" => UnderWay = {}
  BY DEF OnlyOne
<1> QED
  BY <1>1, <1>2, <1>3 DEF OneShutdown

\* What the threads do, seen from the phases: each moves on from where the only
\* shutdown under way stands.
LEMMA NextOnlyOne == TypeOK /\ OnlyOne /\ [Next]_vars => OnlyOne'
<1> SUFFICES ASSUME TypeOK, OnlyOne, [Next]_vars PROVE OnlyOne'
  OBVIOUS
<1> USE DEF OnlyOne, UnderWay, StandsAt, TypeOK, Phases
<1>1. CASE UNCHANGED shutdownVars
  BY <1>1 DEF shutdownVars
<1>2. CASE Restart
  BY <1>2 DEF Restart
<1>3. ASSUME NEW s \in Stoppers, RequestShutdown(s) PROVE OnlyOne'
  BY <1>3 DEF RequestShutdown, NotUnderWay
<1>4. ASSUME NEW s \in Stoppers, DelayOver(s) PROVE OnlyOne'
  BY <1>4 DEF DelayOver
<1>5. ASSUME NEW s \in Stoppers, HookOver(s) PROVE OnlyOne'
  BY <1>5 DEF HookOver
<1>6. ASSUME NEW s \in Stoppers, Poweroff(s) PROVE OnlyOne'
  BY <1>6 DEF Poweroff
<1> QED
  BY <1>1, <1>2, <1>3, <1>4, <1>5, <1>6 DEF Next, OfHotspot, Thread, vars

\* However many ask, one shutdown is under way, and its thread stands where the phase
\* says (shutdown.py:69-72, 86-89).
THEOREM ShutdownIsAlone == Spec => []OneShutdown
<1>1. ShutdownInit => OnlyOne
  BY DEF ShutdownInit, OnlyOne, UnderWay
<1>2. TypeOK /\ OnlyOne /\ [Next]_vars => OnlyOne'
  BY NextOnlyOne
<1> QED
  BY TypeCorrect, <1>1, <1>2, OnlyOneCounts, PTL DEF Spec

-------------------------------------------------------------------------------
(* No daemon is lost as long as operations do not disturb each other.           *)

LEMMA OperateQuiet ==
    ASSUME TypeOK, QuietInv, NEW a \in Actors, Operate(a)
    PROVE  QuietInv'
<1> USE DEF TypeOK, QuietInv, Orphan, At, Goto, GotoStop, GotoCheck, Finish, Unhealthy,
            shared, bounds
<1>1. CASE CheckHostapd(a) \/ CheckDnsmasq(a) \/ CheckIface(a)
  BY <1>1 DEF CheckHostapd, CheckDnsmasq, CheckIface
<1>2. CASE Look(a)
  <2>1. ~disturbed' => ~disturbed /\ starting = {}
    BY <1>2 DEF Look
  <2> QED
    BY <1>2, <2>1 DEF Look, Running
<1>3. CASE Signal(a)
  BY <1>3 DEF Signal, Signalled
<1>4. CASE Unlink(a)
  BY <1>4 DEF Unlink, AfterDaemon
<1>5. CASE DropState(a)
  BY <1>5 DEF DropState
<1>6. CASE Start(a) \/ Prepare(a)
  BY <1>6 DEF Start, Prepare
<1>7. CASE Dnsmasq(a)
  BY <1>7 DEF Dnsmasq
<1>8. CASE Hostapd(a)
  BY <1>8 DEF Hostapd
<1>9. CASE Confirm(a)
  BY <1>9 DEF Confirm
<1> QED
  BY <1>1, <1>2, <1>3, <1>4, <1>5, <1>6, <1>7, <1>8, <1>9 DEF Operate

\* The first step of an operation finds everybody else at rest, or disturbs.
LEMMA BeginQuiet ==
    ASSUME TypeOK, QuietInv, NEW a \in Actors, Begin(a),
           \E l \in {"checkHostapd", "look", "start"} : Goto(a, l)
    PROVE  QuietInv'
<1>1. ~disturbed' => ~disturbed /\ \A b \in Actors : pc[b] = "idle"
  BY DEF Begin, Overlaps, At
<1> QED
  BY <1>1 DEF TypeOK, QuietInv, Orphan, Goto, Begin, shared

LEMMA OtherQuiet ==
    ASSUME TypeOK, QuietInv, OfHotspot,
           ~\E a \in Actors : Operate(a)
    PROVE  QuietInv'
<1> USE DEF TypeOK, QuietInv, Orphan, OfHotspot
<1>1. ASSUME NEW a \in Actors, DnsmasqUp(a) PROVE QuietInv'
  BY <1>1 DEF DnsmasqUp, Owner, control
<1>8. ASSUME NEW a \in Actors, Hang(a) PROVE QuietInv'
  <2>1. \A b \in Actors : /\ pc'[b] # "idle" => pc[b] # "idle"
                          /\ pc'[b] \in {"signal", "unlink"} => pc'[b] = pc[b]
    <3>1. pc[a] # "idle"
      BY <1>8 DEF Hang, At
    <3>2. pc' = [pc EXCEPT ![a] = "hung"]
      BY <1>8 DEF Hang, Goto
    <3> QED
      BY <3>1, <3>2
  <2>2. UNCHANGED <<live, file, starting, target, disturbed>>
    BY <1>8 DEF Hang
  <2> QED
    BY <2>1, <2>2
<1>2. CASE Tick
  BY <1>2, BeginQuiet DEF Tick, GotoCheck, Actors
<1>3. ASSUME NEW w \in Web, WebRestart(w) PROVE QuietInv'
  BY <1>3, BeginQuiet DEF WebRestart, Request, GotoStop, Actors
<1>4. ASSUME NEW c \in Cli, Command(c) PROVE QuietInv'
  BY <1>4, BeginQuiet DEF Command, Request, GotoStop, GotoCheck, Actors
<1>5. CASE SaveConf
  BY <1>5 DEF SaveConf, shared, control
<1>6. ASSUME NEW d \in Daemons, Crash(d) PROVE QuietInv'
  BY <1>6 DEF Crash, control
<1>7. CASE Interface
  BY <1>7 DEF Interface, control
<1> QED
  BY <1>1, <1>2, <1>3, <1>4, <1>5, <1>6, <1>7, <1>8

\* The service takes its daemons with it, and none of another's PID files.
LEMMA RestartQuiet == TypeOK /\ QuietInv /\ Restart => QuietInv'
BY DEF TypeOK, QuietInv, Orphan, Restart, ServiceRestart

LEMMA NextQuiet == TypeOK /\ QuietInv /\ [Next]_vars => QuietInv'
<1> SUFFICES ASSUME TypeOK, QuietInv, [Next]_vars PROVE QuietInv'
  OBVIOUS
<1>1. CASE UNCHANGED hotspotVars
  BY <1>1 DEF QuietInv, Orphan, hotspotVars, shared, control
<1>2. ASSUME NEW s \in Stoppers, DelayOver(s) PROVE QuietInv'
  BY <1>2, BeginQuiet DEF DelayOver, GotoStop, Actors
<1>3. ASSUME NEW s \in Stoppers, Poweroff(s) PROVE QuietInv'
  BY <1>3 DEF Poweroff, QuietInv, Orphan, shared, control
<1> QED
  BY <1>1, <1>2, <1>3, OperateQuiet, OtherQuiet, RestartQuiet
     DEF Next, OfHotspot, Thread, RequestShutdown, HookOver, vars

\* Whatever operations follow each other, by whomever, and whatever dies or is
\* restarted between them: every daemon that runs is named by its PID file
\* (hotspot.py:318-338, 484-532).
THEOREM NoneIsLost == Spec => []NoOrphanUndisturbed
<1>1. ShutdownInit => QuietInv
  BY DEF ShutdownInit, Init, QuietInv, Orphan
<1>2. QuietInv => NoOrphanUndisturbed
  BY DEF QuietInv, NoOrphanUndisturbed
<1> QED
  BY TypeCorrect, <1>1, NextQuiet, <1>2, PTL DEF Spec

-------------------------------------------------------------------------------
(* What the hook of a shutdown leaves.                                          *)

\* A step of the hook's own thread.
LEMMA OwnHook ==
    ASSUME TypeOK, QuietInv, QuietInv', HookInv, NEW s \in Stoppers, Operate(s),
           UNCHANGED shutdownVars, spc[s] = "stopping"
    PROVE  /\ HookInv'
           /\ ~disturbed' /\ pc'[s] = "idle" => \A d \in Daemons : live'[d] = "no"
<1> USE DEF TypeOK, HookInv, Stopping, At, Goto, Finish, shared, bounds, Actors, Daemons,
            shutdownVars
<1>1. pc[s] \in Stopping /\ then[s] = "idle" /\ s \in Actors
  BY DEF Operate, CheckHostapd, CheckDnsmasq, CheckIface, Look, Signal, Unlink, DropState,
         Start, Prepare, Dnsmasq, Hostapd, Confirm
<1>2. \A t \in Stoppers \ {s} : ~disturbed' => pc'[t] = "idle" \/ pc'[s] = "idle"
  BY DEF QuietInv
<1>3. CASE Look(s)
  <2>1. ~disturbed' => ~disturbed /\ starting = {}
    BY <1>3 DEF Look
  <2> QED
    BY <1>1, <1>2, <1>3, <2>1 DEF Look, Running, QuietInv, Orphan
<1>4. CASE Signal(s)
  BY <1>1, <1>2, <1>4 DEF Signal, Signalled, QuietInv
<1>5. CASE Unlink(s)
  BY <1>1, <1>2, <1>5 DEF Unlink, AfterDaemon, QuietInv
<1>6. CASE DropState(s)
  BY <1>1, <1>2, <1>6 DEF DropState, QuietInv
<1> QED
  BY <1>1, <1>3, <1>4, <1>5, <1>6
     DEF Operate, CheckHostapd, CheckDnsmasq, CheckIface, Start, Prepare, Dnsmasq,
         Hostapd, Confirm

\* A step of another actor, which changes nothing the hook has to do with unless it
\* disturbs.
LEMMA OtherHook ==
    ASSUME TypeOK, QuietInv, QuietInv', HookInv, NEW a \in Actors, Operate(a),
           UNCHANGED shutdownVars, a \in Stoppers => spc[a] # "stopping"
    PROVE  HookInv'
<1> USE DEF TypeOK, HookInv, shared, bounds, Actors, shutdownVars
<1>1. pc[a] # "idle"
  BY DEF Operate, CheckHostapd, CheckDnsmasq, CheckIface, Look, Signal, Unlink, DropState,
         Start, Prepare, Dnsmasq, Hostapd, Confirm, At
<1>2. \A b \in Actors \ {a} : pc'[b] = pc[b] /\ then'[b] = then[b] /\ target'[b] = target[b]
  BY DEF Operate, CheckHostapd, CheckDnsmasq, CheckIface, Look, Signal, Unlink, DropState,
         Start, Prepare, Dnsmasq, Hostapd, Confirm, Goto, GotoStop, GotoCheck, Finish,
         Unhealthy
<1>3. ~disturbed' => ~disturbed
  BY DEF Operate, CheckHostapd, CheckDnsmasq, CheckIface, Look, Signal, Unlink, DropState,
         Start, Prepare, Dnsmasq, Hostapd, Confirm
<1>4. ~disturbed => \A b \in Actors \ {a} : pc[b] = "idle"
  BY <1>1 DEF QuietInv
<1>5. ASSUME NEW s \in Stoppers, spc'[s] = "stopping", pc'[s] # "idle"
      PROVE  /\ s # a
             /\ pc'[s] \in Stopping \cup {"hung"} /\ then'[s] = "idle"
             /\ disturbed'
  BY <1>2, <1>3, <1>4, <1>5
<1> QED
  BY <1>5

LEMMA NextHook == TypeOK /\ QuietInv /\ QuietInv' /\ HookInv /\ [Next]_vars => HookInv'
<1> SUFFICES ASSUME TypeOK, QuietInv, QuietInv', HookInv, [Next]_vars PROVE HookInv'
  OBVIOUS
<1> USE DEF shared, control, shutdownVars
<1>1. ASSUME NEW a \in Actors, Operate(a), UNCHANGED shutdownVars PROVE HookInv'
  BY <1>1, OwnHook, OtherHook
<1>2. ASSUME NEW a \in Actors, DnsmasqUp(a), UNCHANGED shutdownVars PROVE HookInv'
  BY <1>2 DEF DnsmasqUp, TypeOK, HookInv, Daemons
<1>13. ASSUME NEW a \in Actors, Hang(a), UNCHANGED shutdownVars PROVE HookInv'
  BY <1>13 DEF Hang, At, Goto, TypeOK, HookInv, Stopping, Actors
<1>3. ASSUME NEW a \in Actors \ Stoppers, Begin(a), UNCHANGED shutdownVars,
             \/ GotoCheck(a, "repair")
             \/ \E next \in {"idle", "start", "ensure"} : GotoStop(a, next)
             \/ Goto(a, "start") /\ UNCHANGED <<target, then>>
      PROVE  HookInv'
  <2>1. \A b \in Stoppers : pc'[b] = pc[b] /\ then'[b] = then[b] /\ target'[b] = target[b]
    BY <1>3 DEF TypeOK, Goto, GotoStop, GotoCheck, Actors
  <2>2. ~disturbed' => ~disturbed
    BY <1>3 DEF Begin
  <2> QED
    BY <1>3, <2>1, <2>2 DEF HookInv, Begin
<1>4. CASE SaveConf /\ UNCHANGED shutdownVars
  BY <1>4 DEF SaveConf, HookInv
<1>5. ASSUME NEW d \in Daemons, Crash(d), UNCHANGED shutdownVars PROVE HookInv'
  BY <1>5 DEF Crash, HookInv, TypeOK, Daemons, Actors
<1>6. CASE Interface /\ UNCHANGED shutdownVars
  BY <1>6 DEF Interface, HookInv
<1>7. CASE Restart
  BY <1>7 DEF Restart, HookInv
<1>8. ASSUME NEW s \in Stoppers, RequestShutdown(s) \/ HookOver(s) PROVE HookInv'
  BY <1>8 DEF RequestShutdown, HookOver, HookInv, hotspotVars, TypeOK
<1>9. ASSUME NEW s \in Stoppers, DelayOver(s) PROVE HookInv'
  <2>1. ~disturbed' => ~disturbed
    BY <1>9 DEF DelayOver, Begin
  <2> QED
    BY <1>9, <2>1 DEF DelayOver, Begin, GotoStop, Goto, HookInv, Stopping, TypeOK, Actors
<1>10. ASSUME NEW s \in Stoppers, Poweroff(s) PROVE HookInv'
  BY <1>10 DEF Poweroff, HookInv, TypeOK
<1>11. CASE UNCHANGED vars
  BY <1>11 DEF vars, hotspotVars, HookInv
<1>12. CASE OfHotspot
  <2>1. CASE Tick
    <3> Watchdog \in Actors \ Stoppers
      BY HotspotAssumption DEF Actors
    <3> QED
      BY <1>3, <1>12, <2>1 DEF OfHotspot, Tick
  <2>2. ASSUME NEW w \in Web, WebRestart(w) PROVE HookInv'
    <3> w \in Actors \ Stoppers
      BY HotspotAssumption DEF Actors
    <3> QED
      BY <1>3, <1>12, <2>2 DEF OfHotspot, WebRestart, Request
  <2>3. ASSUME NEW c \in Cli, Command(c) PROVE HookInv'
    <3> c \in Actors \ Stoppers
      BY HotspotAssumption DEF Actors
    <3> QED
      BY <1>3, <1>12, <2>3 DEF OfHotspot, Command, Request
  <2> QED
    BY <1>1, <1>2, <1>4, <1>5, <1>6, <1>12, <1>13, <2>1, <2>2, <2>3 DEF OfHotspot
<1> QED
  BY <1>7, <1>8, <1>9, <1>10, <1>11, <1>12 DEF Next, Thread

\* The only step that ends a hook is its own.
LEMMA HookEnds ==
    ASSUME TypeOK, QuietInv, QuietInv', HookInv, [Next]_vars, NEW s \in Stoppers,
           spc'[s] = "stopping", pc[s] # "idle", pc'[s] = "idle", ~disturbed'
    PROVE  \A d \in Daemons : live'[d] = "no"
<1> USE DEF shared, control, shutdownVars
<1>1. CASE Operate(s) /\ UNCHANGED shutdownVars
  BY <1>1, OwnHook
<1>2. ASSUME NEW a \in Actors, a # s, Operate(a) PROVE FALSE
  BY <1>2 DEF TypeOK, Actors, Operate, CheckHostapd, CheckDnsmasq, CheckIface, Look,
              Signal, Unlink, DropState, Start, Prepare, Dnsmasq, Hostapd, Confirm, Goto,
              GotoStop, GotoCheck, Finish, Unhealthy
<1>8. ASSUME NEW a \in Actors, Hang(a) PROVE FALSE
  BY <1>8 DEF TypeOK, Actors, Hang, Goto
<1>3. ASSUME NEW a \in Actors, Begin(a), \E l \in {"checkHostapd", "look", "start"} : Goto(a, l)
      PROVE  FALSE
  BY <1>3 DEF TypeOK, Begin, At, Goto, Actors
<1>4. CASE UNCHANGED pc
  BY <1>4
<1>5. CASE Restart
  BY <1>5 DEF Restart
<1>6. CASE OfHotspot
  <2>1. CASE Tick \/ (\E w \in Web : WebRestart(w)) \/ \E c \in Cli : Command(c)
    BY <1>3, <2>1 DEF Tick, WebRestart, Command, Request, GotoStop, GotoCheck, Actors
  <2> QED
    BY <1>1, <1>2, <1>4, <1>6, <1>8, <2>1 DEF OfHotspot, DnsmasqUp, SaveConf, Crash, Interface
<1>7. ASSUME NEW t \in Stoppers, RequestShutdown(t) \/ Thread(t)
      PROVE  \A d \in Daemons : live'[d] = "no"
  BY <1>3, <1>4, <1>7 DEF Thread, RequestShutdown, DelayOver, GotoStop, HookOver, Poweroff,
                          hotspotVars, Actors
<1> QED
  BY <1>4, <1>5, <1>6, <1>7 DEF Next, vars, hotspotVars

\* A hook that ends undisturbed leaves nothing running, whatever died or was
\* restarted while it was at work (shutdown.py:96-103, hotspot.py:475-481).
THEOREM HookLeavesNothing == Spec => StopsClean
<1>1. ShutdownInit => QuietInv /\ HookInv
  BY DEF ShutdownInit, Init, QuietInv, HookInv, Orphan
<1>2. TypeOK /\ QuietInv /\ QuietInv' /\ HookInv /\ [Next]_vars
      => [\A s \in Stoppers :
            /\ spc'[s] = "stopping" /\ pc[s] # "idle" /\ pc'[s] = "idle"
            /\ ~disturbed'
            => \A d \in Daemons : live'[d] = "no"]_vars
  BY HookEnds
<1> QED
  BY TypeCorrect, <1>1, NextQuiet, NextHook, <1>2, PTL DEF Spec, StopsClean

===============================================================================
