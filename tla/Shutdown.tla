-------------------------------- MODULE Shutdown -------------------------------
(* ndp/system/shutdown.py over the hotspot it stops: the phases, the thread of  *)
(* a request, the hook that is stop_hotspot with the service's configuration,   *)
(* and the poweroff command.  The watchdog, the restart endpoint and the        *)
(* commands of Hotspot go on meanwhile.                                         *)
EXTENDS Hotspot

VARIABLES
    phase,      \* ShutdownState.phase
    spc         \* per shutdown thread: where it stands

shutdownVars == <<phase, spc>>
vars == <<hotspotVars, shutdownVars>>

Phases == {"idle", "in_progress", "stopping_services", "powering_off"}

ShutdownInit ==
    /\ Init
    /\ phase = "idle"
    /\ spc = [s \in Stoppers |-> "none"]

-------------------------------------------------------------------------------
(* request_shutdown looks at the phase and sets it under the lock.  The mutant  *)
(* does not look.                                                               *)
NotLooked == TRUE
NotUnderWay == phase = "idle"

RequestShutdown(s) ==
    /\ spc[s] = "none" /\ NotUnderWay
    /\ phase' = "in_progress"
    /\ spc' = [spc EXCEPT ![s] = "delay"]
    /\ UNCHANGED hotspotVars

DelayOver(s) ==
    /\ spc[s] = "delay"
    /\ phase' = "stopping_services"
    /\ spc' = [spc EXCEPT ![s] = "stopping"]
    /\ Begin(s)
    /\ GotoStop(s, "idle")
    /\ UNCHANGED <<conf, bounds>>

\* The hook is over, having returned or raised, and the phase is set either way.  The
\* mutant goes on only when the PID files are gone, as after a stop that did not fail.
Returned == \A d \in Daemons : file[d] = "none"
OverAnyway == TRUE

HookOver(s) ==
    /\ spc[s] = "stopping" /\ At(s, "idle") /\ OverAnyway
    /\ phase' = "powering_off"
    /\ spc' = [spc EXCEPT ![s] = "off"]
    /\ UNCHANGED hotspotVars

\* The command is launched, or cannot be.
Poweroff(s) ==
    /\ spc[s] = "off"
    /\ \/ /\ spc' = [spc EXCEPT ![s] = "issued"]
          /\ UNCHANGED <<phase, faults>>
       \/ /\ spc' = [spc EXCEPT ![s] = "failed"]
          /\ phase' = "idle"
          /\ Fault
    /\ UNCHANGED <<shared, diskConf, control, disturbed, requests>>

\* The phase is a variable of the process.
Restart ==
    /\ ServiceRestart
    /\ phase' = "idle"
    /\ spc' = [s \in Stoppers |-> IF spc[s] = "none" THEN "none" ELSE "failed"]

Thread(s) == DelayOver(s) \/ HookOver(s) \/ Poweroff(s)

OfHotspot ==
    /\ \/ \E a \in Actors : Operate(a) \/ Hang(a) \/ DnsmasqUp(a)
       \/ Tick
       \/ \E w \in Web : WebRestart(w)
       \/ \E c \in Cli : Command(c)
       \/ SaveConf
       \/ \E d \in Daemons : Crash(d)
       \/ Interface
    /\ UNCHANGED shutdownVars

Next ==
    \/ OfHotspot
    \/ Restart
    \/ \E s \in Stoppers : RequestShutdown(s) \/ Thread(s)

Spec == ShutdownInit /\ [][Next]_vars

(* Threads and programs that have begun are scheduled, except for an operation    *)
(* that hangs (Hang), a launched dnsmasq comes up or exits, and the watchdog's    *)
(* interval passes.                                                              *)
Fairness ==
    /\ \A a \in Actors : WF_vars(Operate(a) /\ UNCHANGED shutdownVars)
    /\ \A a \in Actors : WF_vars(DnsmasqUp(a) /\ UNCHANGED shutdownVars)
    /\ \A s \in Stoppers : WF_vars(Thread(s))
    /\ WF_vars(Tick /\ UNCHANGED shutdownVars)

FairSpec == Spec /\ Fairness

-------------------------------------------------------------------------------
(* Properties.                                                                 *)

ActorPCs == {"idle", "checkHostapd", "checkDnsmasq", "checkIface", "look", "signal",
             "unlink", "dropState", "start", "prepare", "dnsmasq", "hostapd", "confirm",
             "hung"}

\* The phases, places and owners are those of the code, and an operation goes on to
\* a place its caller asked for (hotspot.py:475-582, shutdown.py:92-114).
TypeOK ==
    /\ live \in [Daemons -> {"no", "ndp", "other"}]
    /\ file \in [Daemons -> {"none", "live", "dead"}]
    /\ starting \in SUBSET Actors
    /\ {present, iface, disturbed} \subseteq BOOLEAN
    /\ diskConf \in {"on", "off", "bad"}
    /\ conf \in [Actors -> {"on", "off", "bad"}]
    /\ pc \in [Actors -> ActorPCs]
    /\ target \in [Actors -> Daemons]
    /\ then \in [Actors -> {"idle", "repair", "confirm", "prepare", "ensure", "start"}]
    /\ requests \in 0..MaxRequests
    /\ faults \in 0..MaxFaults
    /\ phase \in Phases
    /\ spc \in [Stoppers -> {"none", "delay", "stopping", "off", "issued", "failed"}]

Orphan(d) == live[d] # "no" /\ file[d] # "live"

\* Operations that do not overlap, with a dnsmasq that is up within its half second,
\* never leave a daemon running that no PID file names: from then on no stop would
\* find it, and no start could succeed (hotspot.py:318-338, 484-532).  It is said of
\* any sequence of them, crashes, restarts of the service and failures included.
NoOrphanUndisturbed == ~disturbed => \A d \in Daemons : ~Orphan(d)

\* At most one shutdown is under way, and its thread stands where the phase says
\* (shutdown.py:69-72, 86-89): one that was refused, or that failed, leaves none.
StandsAt == [idle |-> {}, in_progress |-> {"delay"}, stopping_services |-> {"stopping"},
             powering_off |-> {"off", "issued"}]
UnderWay == {s \in Stoppers : spc[s] \notin {"none", "failed"}}
OneShutdown ==
    /\ Cardinality(UnderWay) <= 1
    /\ phase # "idle" => \E s \in UnderWay : spc[s] \in StandsAt[phase]
    /\ phase = "idle" => UnderWay = {}

\* The hook of a shutdown nobody interfered with leaves nothing running for the
\* poweroff to cut (shutdown.py:96-103, hotspot.py:475-481).
StopsClean ==
    [][\A s \in Stoppers :
          /\ spc'[s] = "stopping" /\ pc[s] # "idle" /\ pc'[s] = "idle"
          /\ ~disturbed'
          => \A d \in Daemons : live'[d] = "no"]_vars

\* A shutdown that was requested gets to its command, or to the phase idle with a
\* message that it failed, whatever the watchdog does meanwhile or hangs in.  Only its
\* own hook, hanging, keeps it (shutdown.py:92-114, hotspot.py:77-83).
ShutdownEnds ==
    phase # "idle" ~> \/ phase = "idle"
                      \/ \E s \in Stoppers : spc[s] = "issued" \/ At(s, "hung")

\* The watchdog can do its work: the hotspot is on for it, the interface is there, nobody
\* shuts down, and no command it waits for hangs.
Watched == conf[Watchdog] = "on" /\ present /\ phase = "idle" /\ ~At(Watchdog, "hung")

\* It then has the hotspot up again whenever it is down, as long as no daemon runs
\* unknown (hotspot.py:549-582).
Repaired == <>[](Watched /\ \A d \in Daemons : ~Orphan(d)) => []<>Up

\* "Start or repair hotspot when enabled", says ensure_hotspot (hotspot.py:560) of what
\* the watchdog does, and of nothing that would have to be ruled out first.
EnsureRepairs == <>[]Watched => []<>Up

===============================================================================
