------------------------------ MODULE UpDownScans ------------------------------
(* What the wizard of ndp/discovery/wizard.py learns from its scans: arp-scan or  *)
(* the kernel's neighbor table (arp.py), the comparison (diff.py) and the check   *)
(* after the device is plugged in again.  Devices come and go, the kernel learns  *)
(* and forgets them, and the other session, of the display or of the page, clears *)
(* the table of the same interface.  The prompts, the countdown and the           *)
(* cancelling are in DiscoverySession.                                          *)
EXTENDS Integers, FiniteSets

CONSTANTS
    Hosts,      \* [ip |-> number, mac |-> MAC address]; a device may have several
    Changes     \* bound on the times a device is plugged, unplugged or heard

ASSUME ScansAssumption ==
    Changes \in Nat /\ IsFiniteSet(Hosts) /\ \A h \in Hosts : h.ip \in Nat

VARIABLES
    plugged,    \* MAC addresses of the devices that are connected
    kernel,     \* hosts with a resolved entry in the neighbor table
    flushing,   \* flush_arp_before_second_scan
    stage,      \* what the wizard does next
    snaps,      \* per scan: its hosts and its source
    flushed,    \* the flush of this run has succeeded
    gone,       \* history: devices out since the flush, or at the last arp-scan
    whole,      \* history: every arp-scan so far was answered by all
    outside,    \* history: devices out at the second scan
    changes

scanVars ==
    <<plugged, kernel, flushing, stage, snaps, flushed, gone, whole, outside, changes>>

-------------------------------------------------------------------------------
(* Snapshots and their comparison.                                              *)

MacsOf(hosts) == {h.mac : h \in hosts}

Nothing == [hosts |-> {}, source |-> "none"]

\* by_mac: of the hosts of one device the one that sorts last.
ByMac(hosts, mac) ==
    CHOOSE h \in hosts : h.mac = mac /\ \A g \in hosts : g.mac = mac => g.ip <= h.ip

\* The hosts of the baseline that are missing.  The mutant looks for new ones.
NewHosts(baseline, current) ==
    {ByMac(current, mac) : mac \in MacsOf(current) \ MacsOf(baseline)}
OfflineHosts(baseline, current) ==
    {ByMac(baseline, mac) : mac \in MacsOf(baseline) \ MacsOf(current)}

Offline == OfflineHosts(snaps.baseline.hosts, snaps.after.hosts)

\* probable_match: the one that is missing, if it is one.
ProbableMatch == IF Cardinality(Offline) = 1 THEN Offline ELSE {}

Confirmed == {h \in Offline : h.mac \in MacsOf(snaps.verify.hosts)}

-------------------------------------------------------------------------------
(* The network and the kernel.                                                  *)

\* What changes after the run has ended is of no account to it.
Change ==
    /\ changes < Changes /\ changes' = changes + 1
    /\ stage \notin {"done", "failed"}

Unplug ==
    /\ Change
    /\ \E mac \in plugged : plugged' = plugged \ {mac}
    /\ UNCHANGED <<kernel, flushing, stage, snaps, flushed, gone, whole, outside>>

Plug ==
    /\ Change
    /\ \E mac \in MacsOf(Hosts) \ plugged :
           plugged' = plugged \cup {mac} /\ gone' = gone \ {mac}
    /\ UNCHANGED <<kernel, flushing, stage, snaps, flushed, whole, outside>>

\* Traffic with a host that answers.
KernelLearns ==
    /\ Change
    /\ \E h \in Hosts : h.mac \in plugged /\ kernel' = kernel \cup {h}
    /\ UNCHANGED <<plugged, flushing, stage, snaps, flushed, gone, whole, outside>>

\* A probe that is not answered fails the entry; the other session's flush.
KernelForgets ==
    /\ Change
    /\ \/ \E h \in kernel : h.mac \notin plugged /\ kernel' = kernel \ {h}
       \/ kernel' = {}
    /\ UNCHANGED <<plugged, flushing, stage, snaps, flushed, gone, whole, outside>>

-------------------------------------------------------------------------------
(* The wizard.                                                                  *)

ScansInit ==
    /\ plugged \in SUBSET MacsOf(Hosts)
    /\ kernel \in SUBSET Hosts
    /\ flushing \in BOOLEAN
    /\ stage = "baseline"
    /\ snaps = [s \in {"baseline", "after", "verify"} |-> Nothing]
    /\ flushed = FALSE
    /\ gone = {} /\ whole = TRUE /\ outside = {}
    /\ changes = 0

\* arp-scan prints each device once, by the first address that answers.
OnePerDevice(hosts) ==
    \A h, g \in hosts : h.mac = g.mac => h = g

ScanWithArpScan(slot) ==
    \E answered \in SUBSET {h \in Hosts : h.mac \in plugged} :
        /\ OnePerDevice(answered)
        /\ snaps' = [snaps EXCEPT ![slot] = [hosts |-> answered, source |-> "arp-scan"]]
        /\ whole' = (whole /\ MacsOf(answered) = plugged)

\* Without arp-scan the neighbor table, whose failed entries are passed over;
\* without either, nothing.
ScanWithIpNeigh(slot) ==
    /\ \E found \in {kernel, {}} :
           snaps' = [snaps EXCEPT ![slot] = [hosts |-> found, source |-> "ip-neigh"]]
    /\ whole' = FALSE

ScanHosts(slot) == ScanWithArpScan(slot) \/ ScanWithIpNeigh(slot)

Baseline ==
    /\ stage = "baseline" /\ stage' = "unplug"
    /\ ScanHosts("baseline")
    /\ UNCHANGED <<plugged, kernel, flushing, flushed, gone, outside, changes>>

\* The user has confirmed; the table is cleared, or cannot be.  The mutant leaves
\* the entries where they are.
KeepsEntries == kernel
AfterFlush == {}

FlushArpCache ==
    /\ stage = "unplug" /\ stage' = "second"
    /\ \/ /\ flushing
          /\ flushed' = TRUE /\ kernel' = AfterFlush
       \/ flushed' = FALSE /\ UNCHANGED kernel
    /\ gone' = MacsOf(Hosts) \ plugged
    /\ UNCHANGED <<plugged, flushing, snaps, whole, outside, changes>>

After ==
    /\ stage = "second" /\ stage' = "diff"
    /\ ScanHosts("after")
    /\ gone' = IF snaps'.after.source = "arp-scan" THEN MacsOf(Hosts) \ plugged ELSE gone
    /\ outside' = MacsOf(Hosts) \ plugged
    /\ UNCHANGED <<plugged, kernel, flushing, flushed, changes>>

\* The device is plugged in again and looked for, or the check is skipped.
Verify ==
    /\ stage = "diff" /\ stage' = "done"
    /\ ScanHosts("verify") \/ UNCHANGED <<snaps, whole>>
    /\ UNCHANGED <<plugged, kernel, flushing, flushed, gone, outside, changes>>

\* A command that runs into its time limit ends the run.
TimedOut ==
    /\ stage \in {"baseline", "second", "diff"} /\ stage' = "failed"
    /\ UNCHANGED <<plugged, kernel, flushing, snaps, flushed, gone, whole, outside, changes>>

ScansNext ==
    \/ Unplug \/ Plug \/ KernelLearns \/ KernelForgets
    \/ Baseline \/ FlushArpCache \/ After \/ Verify \/ TimedOut

ScansSpec == ScansInit /\ [][ScansNext]_scanVars

-------------------------------------------------------------------------------
(* Properties.                                                                  *)

ScansTypeOK ==
    /\ plugged \subseteq MacsOf(Hosts) /\ kernel \subseteq Hosts
    /\ gone \subseteq MacsOf(Hosts) /\ outside \subseteq MacsOf(Hosts)
    /\ stage \in {"baseline", "unplug", "second", "diff", "done", "failed"}
    /\ \A s \in DOMAIN snaps : snaps[s].hosts \subseteq Hosts

\* A device of the baseline that is out from the flush to the second scan is found
\* to be missing, whatever the scans are made with and whatever the other session
\* clears meanwhile, when the flush has succeeded or the second scan was arp-scan's;
\* and when all devices have answered both, exactly the one that was unplugged is
\* the probable match (arp.py:20-28, 119-141, diff.py:34-64).
UnpluggedIsOffline ==
    stage \in {"diff", "done"} =>
        /\ (flushed \/ snaps.after.source = "arp-scan") =>
               \A mac \in MacsOf(snaps.baseline.hosts) \cap gone : mac \in MacsOf(Offline)
        /\ (whole /\ Cardinality(MacsOf(snaps.baseline.hosts) \cap outside) = 1) =>
               MacsOf(ProbableMatch) = MacsOf(snaps.baseline.hosts) \cap outside
        /\ Confirmed \subseteq Offline

===============================================================================
