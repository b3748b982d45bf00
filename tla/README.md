# Network Diagnostic Probe: specification, model checking, proofs

The Network Diagnostic Probe (NDP) is a Python service for a Raspberry Pi with
a small display: it shows link, IP and switch port of the cable it is plugged
into, pings, discovers devices, and is driven from the display's buttons or
from a phone, over a Wi-Fi hotspot and a web page. These TLA+ modules model the
parts of it whose correctness depends on the order of steps: threads that share
a session object, event streams, prompts that wait for a person.

Paths below are relative to `src/ndp/`.

## 1. Inventory

| Part | State | Operations | Talks to |
|---|---|---|---|
| Up/Down session (`ui/discovery_session.py`) | phase, running, thread, wizard, result, error, countdown, prompt flags, events `_cancel` and `_prompt_answer` | start, on_select, on_next_skip, cancel, reset; the thread's `_run` | called by TFT and web server, runs the wizard, called back by it |
| Up/Down wizard (`discovery/wizard.py`, `arp.py`, `diff.py`) | phase, snapshots | run: scan, prompt, flush, countdown, scan, diff, prompt, scan | callbacks prompt, output, sleep, cancel_check; `arp-scan`, `ip neigh` |
| Live ping (`ping/live.py`) | queue, active, `_stop`, one thread per host | create, stop, stop_all, iter_events | SSE requests drain the queue |
| MTU discovery (`mtu/discover.py`) | queue, active, `_stop`, result_mtu, one thread | create, stop, stop_all, iter_events | SSE requests drain the queue |
| Hotspot and watchdog (`network/hotspot.py`) | PID files, state file, hostapd and dnsmasq, interface | start, stop, maintain, watchdog loop | web server, shutdown, command line, systemd |
| Shutdown (`system/shutdown.py`) | phase, message | request_shutdown, its thread | stops the hotspot, powers off |
| Probe engine (`core/engine.py`, `collectors/neighbors.py`) | state, cached neighbor and its time | refresh, apply_mndp_device | collectors; TFT loop or web-only loop, web handlers |
| LLDP, MNDP collectors | none (listen windows) | collect, consolidate, pick | `lldpctl`, raw UDP |
| TFT (`ui/app.py`, `screens.py`) | screen, probe state, button queue, ping thread | button handling, engine loop, input loop, ping suite | session, engine, web server |
| Encoder, buttons (`ui/encoder.py`, `buttons.py`) | last levels, accumulator, press times | poll, update | TFT's queue |
| Web server (`web/server.py`) | managers, last results | one handler per endpoint, in a thread pool | everything above |
| Configuration (`core/config_io.py`, endpoints) | YAML file | load, save text, save values | web server |
| OUI database (`discovery/oui.py`) | three maps, a file | lookup, record, reload | scans |
| Ping suite, port scan, DNS checks (`ping/service.py`, `scan/`) | a pool's jobs and results, for one request | run, collect | TFT, web server; `ping`, `dig`, sockets |
| Passive check (`discovery/passive_suite.py` and its six probes) | the same | run, summarise | raw and UDP sockets |
| Vendor probes (`discovery/cameras.py`, `nas.py`, `printers.py`, `industrial.py` and what they call) | the same | probe after probe, merge | UDP sockets, the kernel's neighbors |

What is hard in it: two kinds of threads share the session object and only part
of it is under its lock; events (`threading.Event`) are set by one side and
cleared by the other; a queue is filled by several threads and drained by
several requests, with an end that is announced in three steps; the hotspot's
daemons are stopped and started by four actors that do not know of each other;
caches answer for things that have been unplugged; a file is rewritten in place
on a device that is switched off by pulling its cable. `PROJECT.json` lists
each of these at its line.

What makes each part correct:

- *Session and wizard*: one wizard at a time; no scan or flush that should
  follow a prompt before the user has answered that prompt; flags and result
  that describe the run the user sees; every run ends; a cancelled run ends.
- *Live ping, MTU discovery*: the events of a host are complete and in order; a
  stream ends when, and only when, it should; a result is what the probes
  showed, and reaches the page.
- *Hotspot, shutdown*: no daemon without its PID file; repaired in the end; one
  shutdown at a time, which stops both daemons and gets to its command.
- *Engine*: the neighbor shown was heard on this link within its time to live;
  a merge never weakens what LLDP said.
- *TFT*: a wizard that waits is on the screen; what the screen says of a ping is
  true; no button is lost, however long the engine holds the lock.
- *Configuration, OUI*: a save changes what it names and nothing else; an update
  overwrites nothing; what was learned and saved is not forgotten.
- *Wizard's scans*: a device that was unplugged is missed, whichever tool scans.
- *Encoder, buttons*: one action per detent or press.
- *Pooled jobs*: each result with its own target, in whatever order they end; no
  device that answered is lost when answers are put together.

## 2. What is modelled

| Module | Models |
|---|---|
| `UpDownRun` | abstract: the run as its user is promised it |
| `DiscoverySession` | session and wizard thread, with its callers; implements `UpDownRun` |
| `DiscoverySessionInv`, `DiscoverySessionProofs` | the assumption on the callers and the inductive invariant; theorems |
| `SessionStream` | abstract: the stream of events the pages of a session are promised |
| `EventStream` | what live ping and MTU discovery share: queue, `iter_events`, `stop`, requests |
| `LivePing`, `LivePingProofs` | `LivePingSession`: one thread per host, over `EventStream`; implements `SessionStream`; theorems |
| `MtuDiscovery`, `MtuDiscoveryProofs` | `MtuDiscoverySession`: the search thread, over `EventStream`; implements `SessionStream`; theorems |
| `Hotspot` | daemons, PID files, interface, and the watchdog, endpoint and commands that stop and start them |
| `Shutdown`, `ShutdownProofs` | phases, thread, hook and poweroff, over `Hotspot`; theorems |
| `ProbeUI`, `ProbeUIProofs` | the display's process: engine loop, main loop, ping worker and web handlers over one state and one lock; uses `UpDownRun` for the wizard; theorems |
| `LldpNeighbor`, `MndpNeighbor`, `NeighborMerge` | what the collectors make of `lldpctl`'s entries and of MNDP replies, and the merge |
| `ProbeEngine` | refreshes, the neighbor cache and its time to live, over `NeighborMerge` |
| `CollectorCases`, `CollectorProofs` | the collectors over every answer of a small set; theorems |
| `InputDevices` | quadrature decoder, encoder key, both trigger modes of the buttons |
| `ConfigStore` | the configuration file, its savers, power cut, start, installer |
| `OuiDatabase` | the tables of vendors, the file of learned ones, two processes |
| `UpDownScans` | the data of the wizard: scans, flush, differences, replug check |
| `PassiveCheck` | what the six probes of a passive check make of what they hear |
| `VendorProbes` | what the vendors' probes make of replies, and how lists are put together |
| `ScanJobs`, `ScanJobsProofs` | the pool that runs pings, ports, checks and probes, and the reports; theorems, those on `PassiveCheck` and `VendorProbes` among them |
| `MC...` | values for TLC; `MCInstruments` puts the parts of `instruments` (section 3) side by side |
| `InstrumentsProofs` | theorems about those parts - `ProbeEngine`, `InputDevices`, `UpDownScans`, `OuiDatabase`, `ConfigStore` - and about all of them |

### Up/Down session

`DiscoverySession` has two kinds of processes. A *worker* is a thread in
`DiscoveryUISession._run`; `wpc` says where it stands, `wphase` is its wizard's
phase. A *handler* is a caller of the session; `hpc` and `hop` say where it
stands in which operation. The shared variables are the fields of the session,
under their names without the underscore (`allowSkip` is
`_waiting_allow_skip`, `answer` is `_prompt_answer`, `skip` is `_skip_answer`).

Steps: a block under `self._lock` is one action. Outside it, each access that
another thread can tell apart is an action: the two reads of `is_idle`, the two
`set()` of `cancel`, the two reads of `_thread` in `reset`, creation and start
of the thread, the parts of the `finally` block. Assignments in a row that
nobody reads in between, or that commute with everything that can run between
them, are one action (`Write`, `Clear`). `Clear` follows a join of the thread; it
is one action also when the join gave up, so the model is coarser than the code
for `reset()` while a scan runs, over which nothing is claimed.

`None.is_alive()`, `None.join()` and the `join()` of a thread not yet started
raise; so does a second `Thread.start()`. There the operation ends.

A thread that has ended and that nothing refers to may be used again as a new
one (`Fresh`), so a few workers stand for any number of runs. `join(timeout=0.5)`
gives up only while the thread is in a command or waits for an event: between
these a worker needs far less than half a second.

Left out: texts, log lines, the contents of the snapshots (a result is the worker
that delivered it; the contents are in `UpDownScans`), the console version of the
wizard (`skip_verify`, answers other than empty and skip), `_notify`.

`UpDownRun` is the promise: phases in their order, no second scan and no
result without a confirmation, DONE and a result together, abort at any time.
The refinement maps stage to `_phase`, confirmed to the history variable
`answered`, outcome to "`_result` is set".

### Event streams

`EventStream` holds the lines `ping/live.py` and `mtu/discover.py` have in
common. A request goes through `iter_events` (`cpc`): read `active`, read
whether the queue is empty, `get` with a timeout, `yield`, read `_stop`, read the
queue again. The client may go away while the generator is at its `yield`
(`HangUp`). `stop()` is three steps: set `_stop`, lower `active`, queue the last
event; several calls may overlap. `get` can time out only on an empty queue.

`LivePing` adds a thread per host (a host entered twice is two); `MtuDiscovery`
the search, in which any probe may get through, fail or raise. Time is left
out: a pause ends when it ends.

`SessionStream` is what both promise: an event goes to one page, in the order it
was reported in; the end is announced only when the session is over; once it is
over a session nobody stops reports nothing else; a page's stream ends with the
announcement, or when nothing is left. `over` maps to "`active` is down",
`stopped` to `_stop`, `ended` to the requests that are closed and whose client
has not gone. Of an MTU discovery `EndsItself` holds, of a live ping it does not:
the second ends by `stop()` alone, which is also what `CompletionIsReported`
(section 6) runs into.

### Hotspot and shutdown

An *actor* is whoever calls into `network/hotspot.py`: the watchdog thread, a
request to the restart endpoint, a command line, a shutdown thread. None knows
of the others, and each read or write of something they share is a step: the PID
file, the signal, the second reading of the PID file, its removal, the launch of
dnsmasq, its own writing of its PID file some time later (`DnsmasqUp`), hostapd,
each read of the health check. `live` is what runs, `file` what the PID file
says. What may go wrong of itself (`MaxFaults`): a daemon dies, one cannot be
launched or is late, the adapter disappears, the service is restarted and its
threads end where they stand, or a command that `_run` waits for, which has no
timeout (`hotspot.py:77-83`), never returns and its caller with it (`Hang`).

`Shutdown` adds the phases: a request looks at the phase and sets it under the
lock, the thread waits, stops the hotspot, and launches the poweroff.

### The display's process

`ProbeUI` has the engine's thread, the main loop, the ping worker and web
requests. The engine holds the lock for the whole of a refresh; the first
refresh replaces the state made in `__init__`, so results stored before are in
an object nobody shows any more. `read_adhoc_host` looks for a file and then
reads it, and a request may remove it in between: the thread that reads dies.
`run_ping_suite` reads it twice. A refresh may raise (`EngineRaised`): a timeout
of a command, or output that is not JSON, is caught neither by the collectors nor
by the engine's loop. With the main loop the process ends; no other thread's end
does that. The wizard on the DISCOVER screen is `UpDownRun`, which
`DiscoverySession` was shown to implement; a thread that is ending (`ending`) is
not idle though its phase is final, and `is_idle`, which reads `_thread` twice,
may raise meanwhile (`ThreadGone`).

### Engine and collectors

A refresh of `ProbeEngine` begins with what `lldpctl` answers, listens for MNDP
(short when the cache is fresh, long otherwise), and resolves the neighbor:
found, from the cache, or not. The cable is moved at any time, and the page may
hand over a device it found. Ages are in ticks of the time to live.

The collectors are operators: an LLDP entry is a record with the fields the code
reads, an MNDP reply a sequence of TLVs with their types and lengths.
`CollectorCases` evaluates `collect_neighbors` over all pairs of entries with all
pairs of replies, in every order, and the gateways whose address it passes on.

### Knob and keys

The decoder's table is in the model as it is in the code. The knob moves by a
phase or skips one between polls; a key bounces for a number of polls after each
movement of the finger. Time is counted in polls.

### Configuration, vendors, scans of the wizard

A file of `ConfigStore` is its lines, each with the section it stands in. A save
reads, changes, truncates and writes in separate steps, without a lock; a power
cut leaves any part of what was being written on the disk; the installer appends
lines as they are indented in its template, which is why a line's section is
where it ends up, not where it came from.

`OuiDatabase` has a service and another process with a copy of the learned
entries each, and the file between them. A write may fail before or after it has
emptied the file.

`UpDownScans` takes the snapshots of `DiscoverySession`'s worker apart. Devices
are plugged and unplugged and the kernel's table changes between any two steps;
a scan is `arp-scan`, whose answers are some of the devices there are, or the
kernel's table.

### Pooled jobs, passive check, vendors' probes

`ScanJobs` takes the jobs of one request in order, runs as many at a time as the
pool has threads, and ends them in any order; the report is made when all are
done. What a probe hears depends on when it begins to listen (`Windows`). What
nothing catches fails the request with all it has found (`RaiseJob`,
`RaiseLookup`): a ping or a socket that cannot be started, or `ip neigh`, asked
for eWON gateways, that ends with an error or too late.

`PassiveCheck` has frames by their bytes from offset 12 on, as far as the code
reads them: tags, lengths, LLC, BPDUs, IP headers. Option lists, DNS records and
SNMP answers are sequences of items. `VendorProbes` starts from the records the
parsers return. The loops that fill a dictionary or a set of keys are stated by
their result: `KeepFirst` has one element for each key, the first one;
`KeepLast` the last one in the first one's place; `InOrder` a set in an order.
A neighbor of the kernel's table has a field that says whether its MAC address has
one of eWON's prefixes, and a Zebra printer says a host name (`ZebraNames`) or its
model.

## 3. Runs

| Run | Configuration | Shows |
|---|---|---|
| `session` | two workers, one caller, countdown of 2, start/continue/skip/cancel, both settings of flush and replug check, fairness, a user who answers; 344 thousand states | `IInv` (types included), `OneRun`, `ScansFollowConfirmation`, `PromptFlagsAreTrue`, `ResultIsOfLastRun`, `RunsEnd`, `ImplementsUpDownRun` |
| `session_cancel` | one worker, start and cancel only | violation of `CancelEndsRun`, see section 6 |
| `live_ping` | two hosts, two samples each, one page, one stop, or one host, two pages, two stops (`TwoHostsOrTwoPages`), fairness; 387 thousand states | `CountsAgree`, `AtMostOneEventAfterDone`, `StopEndsStreams`, `ImplementsStream`, `StreamsClose` |
| `live_ping_done` | two hosts, nobody calls stop | violation of `CompletionIsReported`, see section 6 |
| `mtu_discovery` | three MTUs, two pages, one stop, fairness; 84 thousand states | `ResultIsSound`, `ResultReachesClient`, `StreamsEnd`, `ImplementsStream` |
| `hotspot` | watchdog, one page, one command line, two shutdown threads in order, one event (`OneEvent`): a restart, a command, a change of the configuration, or a fault (a hanging command included); fairness; 426 thousand states | `TypeOK`, `NoOrphanUndisturbed`, `OneShutdown`, `StopsClean`, `ShutdownEnds`, `Repaired` |
| `hotspot_ensure` | watchdog and one restart from the page, no fault, fairness | violation of `EnsureRepairs`, see section 6 |
| `probe_ui` | two presses of any buttons, two requests, fairness; 160 thousand states | `TypeOK`, `WizardIsOnScreen`, `RunningIsTrue`, `ResultsAreKept`, `ButtonsAreHandled`, `EngineIsServed` |
| `probe_ui_engine` | one press, one request, fairness | violation of `EngineGoesOn`, see section 6 |
| `instruments` | seven parts that share nothing, one per behaviour; 859 thousand states | see below |
| `install` | a file of an older release that the page has saved | violation of `InstallMerges`, see section 6 |
| `option82` | passive checks with a DHCP offer a relay agent has marked | violation of `RelayAgentIsDetected`, see section 6 |

`live_ping` and `mtu_discovery` have no type invariant of their own: the
refinement says of the queue and of what pages were given that they are sequences
of events, and `TypeOK` is proved.

`instruments` is the sum of seven instances; a behaviour is one of any of them
with the others at rest, so that the states add up instead of multiplying.
Its `TypeOK` is about all parts.

| Part | Instance | Properties |
|---|---|---|
| engine | an LLDP and an MNDP switch, a time to live of two ticks | `ShownIsFresh`, `FoundInTime` |
| collectors | all sequences of at most two of five LLDP entries, all pairs of five replies, a gateway or none | `NothingIsLost`, `RepliesInAnyOrder` |
| input | one and four steps per detent, five phases either way, a key that bounces for two polls | `DetentsAreCounted`, `OneActionPerPress` |
| config | two savers, three saves, a full file and an empty one | `SavesCompose` |
| oui | a service and another process, three prefixes, four addresses of which one is too short, four calls | `LearnedIsKept` |
| scans | two devices, one with two addresses, two changes from outside | `UnpluggedIsOffline` |
| jobs | eight scans and pings, two passive checks, four lists of vendors' devices, a pool of two | `ReportsAreTrue`, `FindingsAreTrue` |

What `FindingsAreTrue` says. Of a passive check (`CheckIsTrue`): the rows of VLANs
and of spanning tree add up to the frames that are one, the most frequent row
comes first, no protocol and variant has two, and the summary says "none" of what
counts nothing. Of a list of devices (`DevicesAreKept`): whoever sent a reply that
was accepted is in it by address, or one that seems the same (`SeemOne`: a MAC
address, serial number, address, URL, or for Zebra printers a host name in common)
is. Zebra printers of one model that say no host name seem the same to the code,
and the property says so instead of claiming both. The answers one port has from a
gateway that say its MAC address make one entry with every field that any of them
fills; its firmware answer has no MAC address and is an entry of its own. And
when the answers that seem to be one device's have one address (`Agree`), the same
replies in the reverse order give the same addresses. All of this is about reports:
a request that failed has none.

`RepliesInAnyOrder` takes the gateway's MAC and address from the cases, so that
each way to the device on the cable (LLDP's chassis, the gateway's MAC, its
address, the only switch) is taken. Two devices that both claim the gateway's
address (`Contended`) are left out: the first one heard is taken.

Why the bounds are enough. *Workers*: the code keeps one thread at work
(`OneRun`); two let a run start while the previous result is still shown, and let
the mutants put two at work. The proofs cover any number. *Ticks*: 2 tells the
first, a middle and the last check of the countdown apart. *Samples*: with two,
a thread can be stopped before, between and after its pings. *Hosts*: two, since
hosts meet only in the queue. *Requests*: two, one that takes the last event and
one that does not; properties over the whole sequence of events are about the
only request there is (`Lone`), since two share the events between them. The run of
the live ping has a second page and a second `stop()` only where its second host
could not be pinged; the proofs of its safety properties and of its refinement have
no such bound. *MTUs*:
first, middle, last. *Hotspot*: one request or one fault beside the watchdog and a
shutdown, which repeat or may begin at any step: any two operations overlap at
every step, and any one thing fails at every step. A request and a fault together
are left to the proofs, which cover the four safety properties for any number of
both. *Shutdown threads*: two, one that is refused or
comes after one that failed; they are alike, and the first is the one that begins
first. *Time to live*: two ticks tell fresh, about to run
out and run out apart. *Saves*: three, so that a save follows one that another
has followed. *Devices*: one that goes and one that stays, and an address that
changes. *Pool*: two threads and three jobs already end in every order that puts
any result before or after any other; a wider pool adds no order between two.

Deadlock: `DiscoverySession` checks for it. The other runs switch it off: a
stream whose threads have ended and whose requests are closed, a budget of
faults, buttons or calls that is used up, a report that is made, are ends.

Fairness. Threads run (weak fairness of each worker, of a handler in the middle
of its operation, of ping threads, of `stop()` under way, of each actor of the
hotspot). In `hotspot.py` a command need not end: `_run` has no timeout, and an
operation that hangs takes no further step, which `ShutdownEnds` (for the hook) and
`Repaired` (for the watchdog) name. The commands of scans, refreshes and pings go
through `run_command` and `ping_host`, which have timeouts: these end. The
watchdog's interval passes. A generator is resumed while its client reads. The engine
sleeps with the lock free for a second or more, so that a thread that
waits for it gets it (strong fairness in `ProbeUI`). Nobody has to press a button
or call `stop()`; only `RunsEnd` assumes a user who keeps answering prompts
(`UserAnswers`, strong fairness since the single caller may be busy with
something else whenever the prompt is open).

Each property has a mutant in `PROJECT.json`: an alternative of one definition,
written beside it, under which TLC finds the property violated.

## 4. Proofs

Every proof is from the assumptions on the constants that its module names, for
all their values.

`DiscoverySessionProofs`, for any number of workers and any countdown, under
`Serial`: callers do not overlap and do not use `reset()`. The TFT satisfies it
(one loop takes the buttons off a queue); a dashboard does while its requests do
not overlap. The proof is an inductive invariant, `IInv`:

- `ThreadInv`: `_thread` names the only thread there is;
- `PhaseInv`: where the worker stands and the phase shown fit each other;
- `PromptInv`: prompt flags and a pending skip belong to a worker that waits;
- `ConfirmInv`: past a prompt there is an answer or a cancel, and past the next
  cancel check there is an answer;
- `HandlerInv`: what a caller has read still holds when it acts on it.

`PromptFlagsAreTrue` follows from `PromptInv`, and `TypeOK` is the first part.

`ScansFollowConfirmation` is not inductive: that the countdown runs only after an
answer needs to be known already when the prompt wakes up, where all one knows
is "answered or cancelled". `OneRun` needs `HandlerInv`: between the caller's
`is_idle` and its creation of a thread, nobody else creates one. Types first
(Booleans apart from the rest), then one lemma for the worker's steps and one for
the caller's, one case per action. The refinement has the same shape: with
`IInv`, every action is a step of `UpDownRun` or a stutter.

`LivePingProofs`: types, `StopEndsStreams`, `CountsAgree`, `AtMostOneEventAfterDone`
and the refinement of `SessionStream` for any number of hosts, samples, requests
and stops.

- `StopInv`: before the first assignment of `stop()` the flag is up, the queue
  holds no final event, and no request is where only these could have taken it;
- `CountInv`: in the log - what was delivered, followed by the queue - the samples
  of a host are numbered and its `host_done` counts and closes them; a thread that
  is not gone has put as many as it has counted, and nothing else;
- `AfterInv`: behind `done` the log has at most one event of a host, and none while
  its thread makes a ping or is about to report; `_stop` and the flag are set;
- `EndInv`: the flag is down before a `stop()` announces the end; only a request at
  its end has lost its client.

`CountInv` and `AfterInv` relate the log to where each thread stands. How many
samples there are is the cardinality of a set of positions, so that a `put` adds one.

For the refinement every action is one step of `SessionStream` or a stutter: a
`put` is a `Report`, a request that takes an event a `Deliver`, the three steps of
`stop()` are `Stop`, `End` and `Report`, and a request that finds nothing left is a
`Close`. That it may be closed there, and that a thread may still report, is
`StopInv`.

`MtuDiscoveryProofs`: types, `ResultReachesClient`, `ResultIsSound` and the same
refinement for any range of MTUs and any number of requests and stops.

- `StopInv`: as in `LivePing`, but for the search, which lowers the flag itself;
- `DoneInv`: behind `done` in the queue there is no result;
- `CloseInv`: a request that finds the queue empty, or is closed, knows that the
  search is over and that no result is left. The property says this of closed
  requests; that of one about to close has to be known for it.
- `SoundInv`: what the events of the only request say is so (`Sound`), and what
  the search knows where it stands is in them (`LargerFailed`, and the success it
  is about to report). The log is what was delivered followed by the queue, so
  that delivering leaves it alone and only `put` extends it.
- `FlagInv`, for the refinement: the flag is down before anybody announces the end,
  and before a request looks at the queue to leave; only a request at its end has
  lost its client.

`ShutdownProofs`: types, `OneShutdown`, `NoOrphanUndisturbed` and `StopsClean`
for any number of pages, commands, shutdown threads and faults.

- `ThenInv`: what may follow a stop;
- `OnlyOne`: two threads past the request's refusal are one, and the phase is the
  one of where it stands;
- `QuietInv`: as long as nothing was disturbed, one operation at a time, no
  orphan, and between the look at a PID file and its removal no dnsmasq on its
  way up. The last part is what makes the second one inductive: it is a dnsmasq
  that comes up behind the removal which no file names.
- `HookInv`: what the hook has done by the place it is at: nothing on its way up
  once it has looked, hostapd gone before dnsmasq is stopped. The property is
  about its last step alone, and about both daemons.

`CollectorProofs`: `NothingIsLost` and `RepliesInAnyOrder` for any entries, replies
and gateways. What the collectors compute is a recursion over the sequence of what
they have heard. `Recursion` gives the values of such a function one step at a
time, and `Induct` carries a statement over the prefixes of one sequence from each
to the next: the list of devices has each device heard once (`HeardOneMore`), a
record that is being filled lacks nothing that the candidates so far knew
(`FilledKeepsAll`). From there on the order plays no part: two lists of the same
devices, each once, have the same device picked (`SamePick`), by whichever of the
four matches, since of each at most one device can be it; by the gateway's address
that is what `Contended` leaves out.

`InstrumentsProofs` has the parts of `instruments` but the jobs. Of the engine: types,
`ShownIsFresh` and `FoundInTime` for any switches, answers and time to live.
`ShownIsFresh` needs that the cache is no younger than the last neighbor heard
(`CacheIsAged`); `FoundInTime` needs `EngineInv`:

- `HeardInv`: as long as the cable has not been moved since the refresh began, all
  it has heard is of this place;
- `CachePlaceInv`: a cached neighbor that is younger than the cable's rest is of
  this place;
- `DueInv`: after a refresh that showed nothing the next one listens in full;
- `MissedInv`: after it nothing is cached, or nothing that is still good and of
  this place.

Then the last step of a refresh is one computation, in which `CollectorProofs` says
that a device that was heard is not lost (`SwitchIsFound`, `CombineNames`).

`ProbeUIProofs`: types (the lock among them), `WizardIsOnScreen`, `RunningIsTrue`
and `ResultsAreKept` for any number of buttons and requests. `QueueInv` bounds
the queue; `Untouched` says that nobody runs a ping in the engine's state before
it is the one shown, without which the replacement of the first state could show
a ping as running that has no worker.

The other parts in `InstrumentsProofs` have an invariant each:

- *Knob* (`DetentsAreCounted`), from `KnobInv`: the knob is at most two phases
  ahead of the last poll, and the detents handled and the accumulator add up to
  what the polls could see. Any number of steps per detent.
- *Keys* (`OneActionPerPress`), from `ContactInv` (how long the contact is still
  uncertain) and one invariant per trigger mode. By edge (`EdgeInv`), what has
  fired has done so since the finger last moved, so that the debounce outlasts the
  bouncing. By level (`LevelInv`), a key that has fired is disarmed until its
  release, which bounces for less than a press is to be held. Any debounce and
  confirmation longer than the contact bounces.
- *Scans* (`UnpluggedIsOffline`), from `OutInv`: after a flush nobody who is gone
  is in the kernel's table, hence not in the second snapshot; and when every scan
  was answered by all, who is outside is who is not in the second snapshot. Any
  finite number of hosts.
- *Vendors* (`LearnedIsKept`), from `KeptInv`: what was noted is in the table in
  memory; what was saved is in the file; a table in memory that is saved is the
  file's, which is what a reload after it needs. `EntriesInv`, for the types:
  nobody leaves an entry that names no one.
- *Configuration* (`SavesCompose`), from `SavedInv`. What a file says is the value
  of each key by its section, whatever the order of its lines. While nothing has
  disturbed it there is one saver at a time; one that has read says what was asked
  for so far; while one writes, the file is empty; otherwise it parses and says it
  all. Most of the proof is about the operators: which line of a key counts, and
  that a save changes the keys it names and no other. `FilesInv`, for the types,
  holds also of what a power cut or two writers leave.

`ScanJobsProofs`: types, `ReportsAreTrue` and `FindingsAreTrue` for any requests,
outputs, traffic and number of threads. All three are from `JobsInv`: what waits is
the list without what was taken (`TakenInv`); where no job is listed twice, what is
in hand or has ended is what was taken, and nothing has ended twice (`OnceInv`); one
thread keeps the order (`OrderInv`); each result is one its job can have
(`ResultInv`).

- *Reports*. That the ports of a report ascend and are those of the request follows
  from the rank of each in the list. `LossTellsReceived` is arithmetic: the packets
  computed from the rounded loss are those received.
- *What a check has counted* (`CheckTells`). Each job has ended once, with what its
  probe makes of a window of its traffic (`EachHasHeard`). `Classify` makes one
  hit of VLANs, or of spanning tree, of a frame that is of it and none of another: a
  case for each branch of the code (`DestinationHits`, `PayloadHits`, `LengthHits`,
  `TypedHits`). So the hits of all frames in a row are as many as the frames
  (`FlattenCounts`), and grouped by variant they are still as many (`RowsCountHits`,
  by steps over the rows). `Sooner` is a total order of the first hits, hence rows
  descend and none comes twice (`RowsAreSorted`).
- *What is in a list of devices* (`DevicesTell`). Among elements with one key
  `KeepFirst` and `KeepLast` leave one, and no key is lost. Each probe's key is
  built from marks of the device (`MarkIsMark`), so that behind every accepted reply
  there is an entry that shares a mark with it (`KeptBy`), through the probe's own
  list first (`ReplyIsKept`), then through the list of all probes, whose key holds
  the address, or for printers, HMIs and gateways a mark (`CamerasListed`,
  `PrintersListed`, `IndustrialListed`).
- *Order* (`OrderIsNoMatter`). The reverse of what was heard has the same replies;
  where those that share a mark have one address, which of them is kept makes no
  difference to the addresses. A service's address is one
  its own packet names.

`EachPartRuns` in `InstrumentsProofs` says that a behaviour of `instruments` is one of each of its parts,
so that the theorems about these hold of the run; `TypeCorrect` is its first use.

What the constants have to satisfy: of a place's MNDP devices one can be told to be
on the cable, and a device says the same each time it is heard (`PlacesAssumption`,
`CasesAssumption`); the knob can be turned three phases at least, and the contact
bounces for less than the debounce and the confirmation (`InputAssumption`); the
network has finitely many hosts (`ScansAssumption`); the first file and the template
parse (`TextsAssumption`); requests hold names and numbers (`RequestsAssumption`);
what probes hear are lists of frames of bytes, of packets, of replies that came from
somewhere, at one of ASUSTOR's ports to ASUSTOR's probe, with a host name or a model
in a Zebra printer's (`TrafficAssumption`); no Zebra host name is empty
(`NamesAssumption`); for
`ReportsAreTrue`, no more than a million packets per host, since the loss that
ping prints has ten-thousandths of a percent.

Where a proof needs its values, a function defined by recursion or a list given by
the places it takes from another one stands for a fold.

Every property of a passing run that is not about liveness is stated by a theorem.

Only model-checked:

- liveness (`RunsEnd`, `StreamsClose`, `StreamsEnd`, `ShutdownEnds`, `Repaired`,
  `ButtonsAreHandled`, `EngineIsServed`), which TLAPS does not prove here;
- that `CancelEndsRun`, `CompletionIsReported`, `EnsureRepairs`, `EngineGoesOn`,
  `InstallMerges` and `RelayAgentIsDetected` do not hold (section 6): their
  counterexamples are TLC's.

## 5. Limits

Atomicity is that of attribute reads and writes in CPython: no torn values, any
interleaving between them.

What the models show and no property excludes, since no text of the repository
says otherwise:

- Two overlapping `start()` of the session start two wizards (`start` is not
  under the lock); hence the assumption `Serial`. `reset()` as an operation of
  its own may abandon a running thread; it is in the model, not in the runs.
- A dnsmasq that is later than half a second may be left without a PID file that
  names it, as one is by operations that overlap (`disturbed`; what comes of it
  then is `EnsureRepairs`, section 6). A command that never returns keeps the
  watchdog from any further repair, and the hook, with it the shutdown, from its
  end. The watchdog may start the hotspot again between the shutdown's stop and
  the poweroff. A poweroff that starts and then fails leaves the phase.
- A button pressed while the wizard's thread removes itself may end the main loop,
  and with it the program (`ThreadGone`); removing the adhoc host while somebody
  reads it ends the thread that reads. A ping worker that died leaves the screen
  saying that a ping is running.
- A device handed over by the page is merged into whatever neighbor is shown,
  one of another switch included.
- By edge, a release that bounces longer than the debounce gives a second action;
  by level without confirmation a bounce arms the key again.
- Saves that overlap lose one of the two or mix them; a power cut leaves a part
  of the file. Two processes that learn vendors overwrite each other's entries.
- Without `arp-scan` and without the flush the wizard's second scan may still
  have the device that was unplugged.
- LLDP and LACP destinations count as spanning tree "unknown" as well
  (`passive_check.py:61`), IGMP over IPv4 is not recognised by its protocol
  (`passive_check.py:156`, the offset of section 6), the source of a DHCP message
  is always 0.0.0.0 (`dhcp_option82.py:213`), and the summary says "none" also
  when sniffing was not allowed.
- The description SNMP shows is the first text of the answer, which is the
  community (`snmp_probe.py:76`). An SRV or A record goes to the service named
  last (`mdns.py:107-113`); services are repeated over packets.
- A DNS server that is configured twice is asked, and listed, twice (`dns.py:176`).
- Zebra printers of one model without a host name are one
  (`zebra_discovery.py:129`). A gateway's firmware answer has no MAC, so it is
  listed beside the one that has; a later port's entry replaces an earlier one's.
  `ip neigh` that fails fails the search with all who have answered (`ewon.py:220`,
  `neigh.py:14`).
- Of two MikroTik devices that claim the gateway's address the first one heard is
  taken (`mndp.py:160-164`).

Not modelled:

- Drawing, texts, locales, themes and scenarios; the dashboard's script; the
  command line's argument handling; units and most of the installer.
- Sockets and the layout of vendors' packets, Modbus identification, the probing
  of management ports; latencies.
- Link speed, DNS configuration and temperature, which are read and shown; MED
  and PoE details of LLDP.
- The report of the page and its read-only endpoints.
- Tables that only grow (sessions of live pings).
- A PID file that is removed between `is_file` and `read_text`, or holds no number
  (`hotspot.py:303-306`, `322`): the callers catch what is raised and go on as
  after any failed operation.
- Of a passive check: the DHCP cookie, which a payload of 240 bytes or more is
  taken to have; SNMP's encodings.

## 6. Where code and text disagree

- `CancelEndsRun`. `wizard.py:58-59` says of `WizardCancelled` "Raised when the
  user aborts the discovery wizard". If `cancel()` runs after `_check_cancel` and
  before `_ui_prompt` clears `_prompt_answer`, the event it set is cleared, the
  worker waits without a timeout, and nothing is raised until somebody answers
  the prompt or cancels again.
- `CompletionIsReported`. The dashboard ends a live ping on the event `done` with
  "Live ping completed." (`dashboard.html:1249`, `locale/en.json:162`). When all
  hosts have their samples, the threads put `host_done` only; `active` stays
  set and the stream sends keepalives for ever. `done` is sent by `stop()` alone.
- `EnsureRepairs`. `hotspot.py:560` says of `ensure_hotspot` "Start or repair
  hotspot when enabled." `stop_hotspot` and `start_hotspot` take no lock: when a
  restart from the page and the watchdog overlap, the stop of one removes the PID
  file the other's dnsmasq has just written. That dnsmasq holds the addresses, no
  stop finds it, every further one exits, and the watchdog stops and starts for
  ever with the hotspot never up.
- `EngineGoesOn`. `docs/DOCUMENTAZIONE.md:512` says that link, network and switch
  are updated automatically and periodically. The collectors catch `CommandError`
  and `FileNotFoundError` (`ip.py:63, 78, 84`): a command slower than its timeout,
  or output that is not JSON, leaves `refresh()` and ends the thread `ndp-engine`,
  whose loop catches nothing (`app.py:220-229`). The display goes on showing the
  last state. So does an adhoc host removed while the engine reads it.
- `InstallMerges`. `docs/DOCUMENTAZIONE.md:233` says the installer merges new keys
  without overwriting values. `append_missing_config_keys` appends the indented
  lines of a missing key to the end of the file: they become part of whatever
  section the file ends with, or, behind a key without a section, make a file
  that does not parse.
- `RelayAgentIsDetected`. `protocols.py:114` says the probe finds relay agent
  information in DHCP packets. `_extract_udp_payload` takes the offset of the
  EtherType for that of the IP header (`dhcp_option82.py:148`), so that the
  protocol it reads is another byte. With the offset put right the property
  holds in the same run.

## 7. Plan

Done: the sessions and streams with their proofs; hotspot, watchdog and shutdown
together; the engine with its collectors; the display's process with the wizard;
the configuration and the vendors; the data of the wizard; knob and keys; the
pooled jobs, passive check and vendors' probes; the stream that both kinds of
sessions implement; a theorem for each property that is not about liveness.

Left, in this order:

1. Liveness of the watchdog beside commands that do not overlap it: with those that
   do, `EnsureRepairs` fails.
2. `reset()` as an operation of a run, once a text says what is to hold after it.
3. The report of the page: which results it shows together, and of what age.
4. The layout of the vendors' packets, as `PassiveCheck` has that of frames.

