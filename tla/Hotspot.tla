-------------------------------- MODULE Hotspot --------------------------------
(* The Wi-Fi hotspot: ndp/network/hotspot.py, with its callers in ndp/ui/app.py *)
(* and ndp/main.py (watchdog), ndp/web/server.py (restart endpoint), ndp/cli/   *)
(* hotspot.py (commands, also run by ndp-hotspot.service) and the hook of       *)
(* ndp/system/shutdown.py (Shutdown).  None of them knows of the others: what   *)
(* they share is two daemons, their PID files, and the interface.          *)
(*                                                                             *)
(* Each read or write of something shared is an action.  A daemon holds the     *)
(* radio (hostapd) or its ports (dnsmasq), so that one of each can run; a PID   *)
(* file names it ("live"), names a process that is gone ("dead") or is absent.  *)
(* A PID is not given to another program in the meantime.                       *)
EXTENDS Naturals, FiniteSets

CONSTANTS
    Watchdog,       \* the thread ndp-hotspot-watch
    Web, Cli,       \* requests to the restart endpoint; runs of "ndp hotspot"
    Stoppers,       \* shutdown threads
    MaxRequests,    \* bound on requests, commands and changes of the configuration
    MaxFaults       \* bound on what fails of its own accord

Actors == {Watchdog} \cup Web \cup Cli \cup Stoppers
Daemons == {"hostapd", "dnsmasq"}

ASSUME HotspotAssumption ==
    /\ MaxRequests \in Nat
    /\ MaxFaults \in Nat
    /\ {Watchdog} \cap (Web \cup Cli \cup Stoppers) = {}
    /\ Web \cap (Cli \cup Stoppers) = {}
    /\ Cli \cap Stoppers = {}

VARIABLES
    live,       \* per daemon: who started the one that runs ("ndp" is the service), or "no"
    file,       \* per daemon: its PID file
    starting,   \* actors whose dnsmasq has been launched and is not up yet
    present,    \* the interface exists
    iface,      \* it is an access point, with its address, and up
    diskConf,   \* the configuration file: hotspot "on", "off", or "bad", on with a password too short
    conf,       \* per actor: the configuration it works with
    pc,         \* per actor: where it stands
    target,     \* per actor: the daemon _stop_pid is at
    then,       \* per actor: what follows the stop or the health check under way
    disturbed,  \* history: operations overlapped, or one stopped a dnsmasq not yet up
    requests, faults

shared == <<live, file, starting, present, iface>>
control == <<conf, pc, target, then>>
bounds == <<requests, faults>>
hotspotVars == <<shared, diskConf, control, disturbed, bounds>>

Init ==
    /\ live = [d \in Daemons |-> "no"]
    /\ file = [d \in Daemons |-> "none"]
    /\ starting = {}
    /\ present \in BOOLEAN
    /\ iface = FALSE
    /\ diskConf \in {"on", "off"}
    /\ conf = [a \in Actors |-> diskConf]
    /\ pc = [a \in Actors |-> "idle"]
    /\ target = [a \in Actors |-> "hostapd"]
    /\ then = [a \in Actors |-> "idle"]
    /\ disturbed = FALSE
    /\ requests = 0
    /\ faults = 0

-------------------------------------------------------------------------------
(* Steps of control.                                                           *)

At(a, l) == pc[a] = l
Goto(a, l) == pc' = [pc EXCEPT ![a] = l]
GotoStop(a, next) ==
    /\ Goto(a, "look")
    /\ target' = [target EXCEPT ![a] = "hostapd"]
    /\ then' = [then EXCEPT ![a] = next]
GotoCheck(a, next) ==
    /\ Goto(a, "checkHostapd")
    /\ then' = [then EXCEPT ![a] = next]
    /\ UNCHANGED target

\* The operation is over.
Finish(a) ==
    /\ Goto(a, "idle")
    /\ target' = [target EXCEPT ![a] = "hostapd"]
    /\ then' = [then EXCEPT ![a] = "idle"]

Fault == faults < MaxFaults /\ faults' = faults + 1

Owner(a) == IF a \in Cli THEN "other" ELSE "ndp"
Enabled(c) == c # "off"
Running(d) == file[d] = "live"
Up == /\ \A d \in Daemons : Running(d)
      /\ present /\ iface

\* An operation that begins while another is under way disturbs it.
Overlaps(a) == \E b \in Actors \ {a} : pc[b] # "idle"

-------------------------------------------------------------------------------
(* hotspot_health, read by read.  It decides between nothing to do and start    *)
(* (maintain_hotspot), or between success and failure (start_hotspot, which ends *)
(* with hotspot.json, read only for the name it shows).                         *)

Unhealthy(a) ==
    IF then[a] = "repair" THEN Goto(a, "start") /\ UNCHANGED <<target, then>>
    ELSE GotoStop(a, "idle")

CheckHostapd(a) ==
    /\ At(a, "checkHostapd")
    /\ \/ /\ ~Enabled(conf[a])
          /\ Finish(a)
       \/ /\ Enabled(conf[a]) /\ present /\ Running("hostapd")
          /\ Goto(a, "checkDnsmasq")
          /\ UNCHANGED <<target, then>>
       \/ /\ Enabled(conf[a]) /\ ~(present /\ Running("hostapd"))
          /\ Unhealthy(a)
    /\ UNCHANGED <<shared, diskConf, conf, disturbed, bounds>>

\* Whether the check sees dnsmasq.  The mutant takes hostapd for the whole.
DnsmasqUnseen == TRUE
DnsmasqSeen == Running("dnsmasq")

CheckDnsmasq(a) ==
    /\ At(a, "checkDnsmasq")
    /\ \/ /\ DnsmasqSeen
          /\ Goto(a, "checkIface")
          /\ UNCHANGED <<target, then>>
       \/ ~DnsmasqSeen /\ Unhealthy(a)
    /\ UNCHANGED <<shared, diskConf, conf, disturbed, bounds>>

CheckIface(a) ==
    /\ At(a, "checkIface")
    /\ \/ /\ present /\ iface
          /\ Finish(a)
       \/ ~(present /\ iface) /\ Unhealthy(a)
    /\ UNCHANGED <<shared, diskConf, conf, disturbed, bounds>>

-------------------------------------------------------------------------------
(* _stop_pid, once for each daemon, and the rest of stop_hotspot.               *)

\* A dnsmasq that is still on its way up is not seen.
Look(a) ==
    /\ At(a, "look")
    /\ Goto(a, IF Running(target[a]) THEN "signal" ELSE "unlink")
    /\ disturbed' = (disturbed \/ starting # {})
    /\ UNCHANGED <<shared, diskConf, conf, target, then, bounds>>

\* What SIGTERM, or SIGKILL two seconds later, leaves running of the daemon a PID
\* file names.  The mutant forgets to send it.
NoSignal(d) == live
Signalled(d) == [live EXCEPT ![d] = "no"]

\* The file is read again: it may name another process by now, and when it is gone
\* the operation fails with FileNotFoundError.
Signal(a) ==
    LET d == target[a] IN
    /\ At(a, "signal")
    /\ IF file[d] = "none"
       THEN Finish(a) /\ UNCHANGED <<live, file>>
       ELSE /\ Goto(a, "unlink")
            /\ live' = IF file[d] = "live" THEN Signalled(d) ELSE live
            /\ file' = [file EXCEPT ![d] = "dead"]
            /\ UNCHANGED <<target, then>>
    /\ UNCHANGED <<starting, present, iface, diskConf, conf, disturbed,
                   bounds>>

\* Where stop_hotspot goes after a daemon.  The mutants leave dnsmasq running, or
\* lose count of the daemons.
HostapdOnly(d) == <<"dropState", d>>
IntoState(d) == IF d = "hostapd" THEN <<"look", "dnsmasq">> ELSE <<"dropState", "state">>
AfterDaemon(d) == IF d = "hostapd" THEN <<"look", "dnsmasq">> ELSE <<"dropState", d>>

Unlink(a) ==
    LET next == AfterDaemon(target[a]) IN
    /\ At(a, "unlink")
    /\ file' = [file EXCEPT ![target[a]] = "none"]
    /\ Goto(a, next[1])
    /\ target' = [target EXCEPT ![a] = next[2]]
    /\ UNCHANGED <<live, starting, present, iface, diskConf, conf, then,
                   disturbed, bounds>>

DropState(a) ==
    /\ At(a, "dropState")
    /\ iface' = (iface /\ ~present)
    /\ CASE then[a] = "ensure" -> GotoCheck(a, "repair")
         [] then[a] = "idle" -> Finish(a)
         [] OTHER -> Goto(a, then[a]) /\ UNCHANGED <<target, then>>
    /\ UNCHANGED <<live, file, starting, present, diskConf, conf, disturbed, bounds>>

-------------------------------------------------------------------------------
(* start_hotspot.                                                              *)

Start(a) ==
    /\ At(a, "start")
    /\ IF Enabled(conf[a]) /\ present THEN GotoStop(a, "prepare")
       ELSE Finish(a)
    /\ UNCHANGED <<shared, diskConf, conf, disturbed, bounds>>

\* render_hostapd_conf refuses a password that is too short.
Renders(c) == c # "bad"

\* The configuration files are written and the interface is made ready; without
\* the interface its address cannot be read, and the operation fails.
Prepare(a) ==
    /\ At(a, "prepare")
    /\ IF present /\ Renders(conf[a])
       THEN Goto(a, "dnsmasq") /\ iface' = TRUE /\ UNCHANGED <<target, then>>
       ELSE Finish(a) /\ UNCHANGED iface
    /\ UNCHANGED <<live, file, starting, present, diskConf, conf,
                   disturbed, bounds>>

\* dnsmasq is launched, not waited for; only one that is gone at once is noticed.
Dnsmasq(a) ==
    /\ At(a, "dnsmasq")
    /\ \/ /\ Goto(a, "hostapd")
          /\ starting' = starting \cup {a}
          /\ UNCHANGED <<target, then, faults>>
       \/ /\ Finish(a)
          /\ Fault
          /\ UNCHANGED starting
    /\ UNCHANGED <<live, file, present, iface, diskConf, conf,
                   disturbed, requests>>

\* hostapd -B returns when it holds the radio, or fails.
Hostapd(a) ==
    /\ At(a, "hostapd")
    /\ \/ /\ live["hostapd"] = "no" /\ present
          /\ live' = [live EXCEPT !["hostapd"] = Owner(a)]
          /\ file' = [file EXCEPT !["hostapd"] = "live"]
          /\ Goto(a, "confirm")
          /\ UNCHANGED <<target, then, faults>>
       \/ /\ IF live["hostapd"] = "no" /\ present THEN Fault ELSE UNCHANGED faults
          /\ GotoStop(a, "idle")
          /\ UNCHANGED <<live, file>>
    /\ UNCHANGED <<starting, present, iface, diskConf, conf, disturbed,
                   requests>>

\* The PID file of hostapd is looked at, half a second passes, and the health
\* check begins; a dnsmasq that is not up by then is late.
Confirm(a) ==
    /\ At(a, "confirm")
    /\ IF Running("hostapd") THEN GotoCheck(a, "confirm") ELSE GotoStop(a, "idle")
    /\ IF a \in starting THEN Fault ELSE UNCHANGED faults
    /\ UNCHANGED <<shared, diskConf, conf, disturbed, requests>>

(* _run waits for what it starts without a timeout: ip, systemctl, nmcli or the   *)
(* hostapd that is to go to the background may never return, and with it the      *)
(* operation.  What was done to the interface before is done.                     *)
Hang(a) ==
    /\ \/ At(a, "dropState") /\ present /\ iface' \in {iface, FALSE}
       \/ At(a, "prepare") /\ present /\ Renders(conf[a]) /\ iface' \in BOOLEAN
       \/ At(a, "hostapd") /\ UNCHANGED iface
    /\ Fault
    /\ Goto(a, "hung")
    /\ UNCHANGED <<live, file, starting, present, diskConf, conf, target, then,
                   disturbed, requests>>

Operate(a) ==
    \/ CheckHostapd(a) \/ CheckDnsmasq(a) \/ CheckIface(a)
    \/ Look(a) \/ Signal(a) \/ Unlink(a) \/ DropState(a)
    \/ Start(a) \/ Prepare(a) \/ Dnsmasq(a) \/ Hostapd(a) \/ Confirm(a)

\* A launched dnsmasq binds its ports and writes its PID file, or finds the ports
\* taken and exits.
DnsmasqUp(a) ==
    /\ a \in starting
    /\ starting' = starting \ {a}
    /\ IF live["dnsmasq"] = "no"
       THEN /\ live' = [live EXCEPT !["dnsmasq"] = Owner(a)]
            /\ file' = [file EXCEPT !["dnsmasq"] = "live"]
       ELSE UNCHANGED <<live, file>>
    /\ UNCHANGED <<present, iface, diskConf, control, disturbed, bounds>>

-------------------------------------------------------------------------------
(* Operations begin.                                                           *)

Begin(a) ==
    /\ At(a, "idle")
    /\ disturbed' = (disturbed \/ Overlaps(a))
    /\ UNCHANGED <<shared, diskConf>>

\* The watchdog's interval is over.  There is none when the service was started
\* with the hotspot off; it keeps the configuration it was started with.
Tick ==
    /\ Enabled(conf[Watchdog])
    /\ Begin(Watchdog)
    /\ GotoCheck(Watchdog, "repair")
    /\ UNCHANGED <<conf, bounds>>

Request(a) ==
    /\ requests < MaxRequests
    /\ requests' = requests + 1
    /\ Begin(a)
    /\ conf' = [conf EXCEPT ![a] = diskConf]
    /\ UNCHANGED faults

\* POST /api/hotspot/restart: stop_hotspot, then ensure_hotspot.
WebRestart(a) == Request(a) /\ GotoStop(a, "ensure")

\* ndp hotspot stop, restart, ensure and start.
Command(a) ==
    /\ Request(a)
    /\ \/ GotoStop(a, "idle")
       \/ GotoStop(a, "start")
       \/ GotoCheck(a, "repair")
       \/ Goto(a, "start") /\ UNCHANGED <<target, then>>

\* The hotspot's settings are saved, through the form or as text.
SaveConf ==
    /\ requests < MaxRequests
    /\ requests' = requests + 1
    /\ diskConf' \in {"on", "off", "bad"} \ {diskConf}
    /\ UNCHANGED <<shared, control, disturbed, faults>>

-------------------------------------------------------------------------------
(* What else happens.                                                          *)

\* A daemon dies.
Crash(d) ==
    /\ live[d] # "no"
    /\ Fault
    /\ live' = [live EXCEPT ![d] = "no"]
    /\ file' = [file EXCEPT ![d] = IF file[d] = "live" THEN "dead" ELSE file[d]]
    /\ UNCHANGED <<starting, present, iface, diskConf, control, disturbed,
                   requests>>

\* The adapter is pulled out or put back, or another program takes it over.
Interface ==
    /\ Fault
    /\ \/ present' = ~present /\ iface' = FALSE
       \/ iface /\ iface' = FALSE /\ UNCHANGED present
    /\ UNCHANGED <<live, file, starting, diskConf, control, disturbed,
                   requests>>

(* ndp.service is restarted: its threads end where they stand, its daemons are  *)
(* told to terminate, with or without their PID files, and the new process      *)
(* reads the configuration.                                                     *)
ServiceRestart ==
    /\ Fault
    /\ live' = [d \in Daemons |-> IF live[d] = "ndp" THEN "no" ELSE live[d]]
    /\ \E removed \in SUBSET {d \in Daemons : live[d] = "ndp" /\ file[d] = "live"} :
          file' = [d \in Daemons |->
                      IF d \in removed THEN "none"
                      ELSE IF live[d] = "ndp" /\ file[d] = "live" THEN "dead"
                      ELSE file[d]]
    /\ starting' = starting \cap Cli
    /\ LET Kept(f, end) == [a \in Actors |-> IF a \in Cli THEN f[a] ELSE end] IN
       /\ pc' = Kept(pc, "idle")
       /\ target' = Kept(target, "hostapd")
       /\ then' = Kept(then, "idle")
    /\ conf' = [a \in Actors |-> IF a \in Cli THEN conf[a] ELSE diskConf]
    /\ UNCHANGED <<present, iface, diskConf, disturbed, requests>>

===============================================================================
