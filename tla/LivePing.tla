------------------------------- MODULE LivePing -------------------------------
(* A live ping session: ndp/ping/live.py, LivePingSession, with the endpoint   *)
(* that streams it (ndp/web/server.py).  One thread per host pings it up to    *)
(* MaxSamples times; they share the queue, the flag active and the event _stop *)
(* with the requests and the callers of stop() (EventStream).                  *)
(*                                                                             *)
(* A sample is its host and its number.  The pause between two pings and its   *)
(* cutting short by stop() are one action: the wait ends, and tells which.     *)
(* A host entered twice has two threads, and is two hosts here.  The session    *)
(* implements SessionStream: a page's connection that breaks is not the server's *)
(* ending of its stream.                                                        *)
EXTENDS EventStream, FiniteSets

CONSTANTS
    Hosts,
    MaxSamples

\* The endpoint ends the response after the event done, which only stop() puts.
ASSUME LivePingAssumption ==
    /\ MaxSamples \in Nat \ {0}
    /\ Finals = {StopType}
    /\ StopType \notin {"sample", "host_done"}

VARIABLES
    pc,         \* where the thread of each host stands in _ping_loop
    seq         \* the pings it has made

pingVars == <<pc, seq>>
vars == <<streamVars, pingVars>>

Init ==
    /\ InitStream
    /\ pc = [h \in Hosts |-> "loop"]
    /\ seq = [h \in Hosts |-> 0]

Move(h, from, to) == pc[h] = from /\ pc' = [pc EXCEPT ![h] = to]

\* A thread makes MaxSamples pings at most.
SamplesLeft(h) == seq[h] < MaxSamples

Loop(h) ==
    /\ Move(h, "loop", IF ~stop /\ SamplesLeft(h) THEN "ping" ELSE "end")
    /\ UNCHANGED <<streamVars, seq>>

\* ping_host returns, whatever it found, and the sample is queued.
Ping(h) ==
    /\ Move(h, "ping", "wait")
    /\ seq' = [seq EXCEPT ![h] = seq[h] + 1]
    /\ Put([type |-> "sample", host |-> h, seq |-> seq'[h]])
    /\ UNCHANGED <<active, stop, consumerVars, spc>>

\* ping_host raises, when no process can be started: the thread dies.
PingRaises(h) ==
    /\ Move(h, "ping", "gone")
    /\ UNCHANGED <<streamVars, seq>>

Wait(h) ==
    /\ Move(h, "wait", IF stop THEN "end" ELSE "loop")
    /\ UNCHANGED <<streamVars, seq>>

End(h) ==
    /\ Move(h, "end", IF active THEN "last" ELSE "gone")
    /\ UNCHANGED <<streamVars, seq>>

\* The number of samples host_done reports.  The mutant takes it for granted that
\* all of them were made.
AllSamples(h) == MaxSamples
Samples(h) == seq[h]

HostDone(h) ==
    /\ Move(h, "last", "gone")
    /\ Put([type |-> "host_done", host |-> h, samples |-> Samples(h)])
    /\ UNCHANGED <<active, stop, consumerVars, spc, seq>>

PingLoop(h) == \/ Loop(h) \/ Ping(h) \/ PingRaises(h) \/ Wait(h) \/ End(h)
               \/ HostDone(h)

Next == \/ \E h \in Hosts : PingLoop(h)
        \/ Serve /\ UNCHANGED pingVars

Spec == Init /\ [][Next]_vars

(* Threads run, stop() included once it is under way, and a generator is       *)
(* resumed as long as its client reads; nobody has to call stop().             *)
FairSpec ==
    /\ Spec
    /\ \A h \in Hosts : WF_vars(PingLoop(h))
    /\ \A s \in Stoppers : WF_vars(spc[s] > 1 /\ Stop(s) /\ UNCHANGED pingVars)
    /\ \A c \in Consumers : WF_vars(Stream(c) /\ UNCHANGED pingVars)

-------------------------------------------------------------------------------
(* Properties.                                                                 *)

Events == [type : {"sample"}, host : Hosts, seq : 1..MaxSamples]
          \cup [type : {"host_done"}, host : Hosts, samples : 0..MaxSamples]
          \cup [type : {StopType}]

\* The variables hold what the code can put in them: no thread pings more often
\* than max_samples says (live.py:75).
TypeOK ==
    /\ StreamTypeOK(Events)
    /\ pc \in [Hosts -> {"loop", "ping", "wait", "end", "last", "gone"}]
    /\ seq \in [Hosts -> 0..MaxSamples]

\* The inductive invariant behind TypeOK and StopEndsStreams: before the first
\* assignment of stop() the flag is up, no final event is queued, and no request
\* is where only the flag or _stop could have taken it.
Quiet == {e \in Events : e.type \notin Finals}

StopInv ==
    /\ \A h \in Hosts : pc[h] = "ping" => seq[h] < MaxSamples
    /\ ~stop => active /\ events \in Seq(Quiet)
    /\ \A s \in Stoppers : spc[s] > 1 => stop
    /\ \A c \in Consumers :
          cpc[c] \in {"empty", "drained", "closed"} /\ c \notin hungUp => stop

\* Behind ImplementsStream: the flag is down before stop() announces the end, and
\* only a request at its end has lost its client.
EndInv ==
    /\ \A s \in Stoppers : spc[s] > 2 => ~active
    /\ \A c \in hungUp : cpc[c] = "closed"

\* Of a sequence of events: those of host h before the i-th.
IsOf(h, e) == e.type # StopType /\ e.host = h
Before(h, s, i) == {j \in 1..i - 1 : IsOf(h, s[j])}

\* host_done closes a host's samples: the only request of a session was given
\* all the samples it counts, in their order and nothing in between, even when
\* stop() interrupts the host at the same time (live.py:73-99).
CountsAgree ==
    \A c \in Consumers, h \in Hosts : Lone(c) =>
        \A i \in DOMAIN got[c] : IsOf(h, got[c][i]) =>
            IF got[c][i].type = "sample"
            THEN got[c][i].seq = Cardinality(Before(h, got[c], i)) + 1
            ELSE /\ got[c][i].samples = Cardinality(Before(h, got[c], i))
                 /\ \A j \in i + 1..Len(got[c]) : ~IsOf(h, got[c][j])

\* Once the end is announced, a thread can no more than finish what it was at:
\* at most one event of each host comes after it (live.py:68-71, 75, 96-98).
AtMostOneEventAfterDone ==
    \A c \in Consumers, h \in Hosts : Lone(c) =>
        \A i \in DOMAIN Log(c) : Log(c)[i].type = StopType =>
            \A j, k \in i + 1..Len(Log(c)) :
                IsOf(h, Log(c)[j]) /\ IsOf(h, Log(c)[k]) => j = k

\* Only stop() ends a stream: as long as nobody has called it, no request is
\* ended by the server, though a host may be done long before the others
\* (live.py:101-109).
StopEndsStreams ==
    \A c \in Consumers : cpc[c] = "closed" /\ c \notin hungUp => stop

Promise == INSTANCE SessionStream WITH
    Pages      <- Consumers,
    Reports    <- Events,
    Endings    <- Finals,
    EndsItself <- FALSE,
    pending    <- events,
    given      <- got,
    over       <- ~active,
    stopped    <- stop,
    ended      <- {c \in Consumers : cpc[c] = "closed"} \ hungUp

\* The pages share one stream: each sample and each host_done goes to one of them,
\* in order, the end is announced only once the flag active is down, which takes
\* a stop(), and a page whose stream ends otherwise has left nothing in the queue
\* (live.py:68-109, server.py:330-346).
ImplementsStream == Promise!Spec

\* A stopped session lets go of every request that streams it: none waits for
\* an event another one has taken (live.py:101-109).
StreamsClose ==
    \A c \in Consumers : stop /\ cpc[c] # "new" ~> cpc[c] = "closed"

\* The page is told when a live ping is over: once every host has all its
\* samples, each request still open ends with the event done, which the page
\* reports as "Ping live completato." (dashboard.html:1249, locale/it.json).
CompletionIsReported ==
    \A c \in Consumers :
        /\ cpc[c] # "new"
        /\ \A h \in Hosts : pc[h] = "gone" /\ seq[h] = MaxSamples
        ~> cpc[c] = "closed"

===============================================================================
