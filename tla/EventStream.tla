------------------------------ MODULE EventStream ------------------------------
(* What a live ping (ndp/ping/live.py) and an MTU discovery (ndp/mtu/discover.py) *)
(* session have in common, line for line: an unbounded queue of events its     *)
(* threads fill, iter_events() that drains it into the server-sent events of   *)
(* one request, and stop(), called by the stop endpoint and at shutdown.       *)
(*                                                                             *)
(* Every read of the session a thread makes is an action of its own.  Several  *)
(* requests may stream the same session; a client may hang up while the        *)
(* generator is suspended at its yield.                                        *)
EXTENDS Naturals, Sequences

CONSTANTS
    Consumers,  \* requests for the events of the session
    Stoppers,   \* calls of stop()
    StopType,   \* the type of the event stop() leaves in the queue
    Finals      \* the types after which the endpoint ends the response

VARIABLES
    events,     \* the queue
    active,
    stop,       \* the event _stop
    cpc,        \* where each request stands in iter_events
    hungUp,     \* the requests whose client went away
    got,        \* history: what each request was given, keepalives left out
    spc         \* the step of stop() each call is at

streamVars   == <<events, active, stop, cpc, hungUp, got, spc>>
consumerVars == <<cpc, hungUp, got>>

InitStream ==
    /\ events = <<>>
    /\ active = TRUE
    /\ stop = FALSE
    /\ cpc = [c \in Consumers |-> "new"]
    /\ hungUp = {}
    /\ got = [c \in Consumers |-> <<>>]
    /\ spc = [s \in Stoppers |-> 1]

Put(e) == events' = Append(events, e)

-------------------------------------------------------------------------------
(* stop().                                                                     *)

\* Its assignments in their order.  The mutant announces the end first.
AnnounceFirst == <<"put", "set", "inactive">>
StopSteps == <<"set", "inactive", "put">>

AtStep(s, step) ==
    /\ spc[s] <= Len(StopSteps)
    /\ StopSteps[spc[s]] = step
    /\ spc' = [spc EXCEPT ![s] = spc[s] + 1]

SetStop(s) ==
    /\ AtStep(s, "set")
    /\ stop' = TRUE
    /\ UNCHANGED <<events, active, consumerVars>>

SetInactive(s) ==
    /\ AtStep(s, "inactive")
    /\ active' = FALSE
    /\ UNCHANGED <<events, stop, consumerVars>>

PutStopped(s) ==
    /\ AtStep(s, "put")
    /\ Put([type |-> StopType])
    /\ UNCHANGED <<active, stop, consumerVars>>

Stop(s) == SetStop(s) \/ SetInactive(s) \/ PutStopped(s)

-------------------------------------------------------------------------------
(* iter_events(), and the endpoint's loop over it.                             *)

Goto(c, from, to) == cpc[c] = from /\ cpc' = [cpc EXCEPT ![c] = to]

Open(c) ==
    /\ Goto(c, "new", "active")
    /\ UNCHANGED <<events, active, stop, hungUp, got, spc>>

\* while self.active or not self.events.empty(), and its mutants: a loop that asks
\* only the queue, and one that asks only the flag.
QueueOnly == FALSE
MoreToCome == active

FlagOnly == TRUE
NothingLeft == events = <<>>

ReadActive(c) ==
    /\ Goto(c, "active", IF MoreToCome THEN "get" ELSE "empty")
    /\ UNCHANGED <<events, active, stop, hungUp, got, spc>>

ReadEmpty(c) ==
    /\ Goto(c, "empty", IF NothingLeft THEN "closed" ELSE "get")
    /\ UNCHANGED <<events, active, stop, hungUp, got, spc>>

\* get() returns an event; the endpoint ends the response after a final one.
Take(c) ==
    /\ events # <<>>
    /\ Goto(c, "get", IF Head(events).type \in Finals THEN "closed" ELSE "yield")
    /\ got' = [got EXCEPT ![c] = Append(got[c], Head(events))]
    /\ events' = Tail(events)
    /\ UNCHANGED <<active, stop, hungUp, spc>>

\* get(timeout=1.0) may give up on an empty queue; the mutant's get() never does.
Blocks == FALSE
GivesUp == events = <<>>

KeepAlive(c) ==
    /\ GivesUp
    /\ Goto(c, "get", "yield")
    /\ UNCHANGED <<events, active, stop, hungUp, got, spc>>

\* if self._stop.is_set() and self.events.empty(): break
Resume(c) ==
    /\ Goto(c, "yield", IF stop THEN "drained" ELSE "active")
    /\ UNCHANGED <<events, active, stop, hungUp, got, spc>>

ReadDrained(c) ==
    /\ Goto(c, "drained", IF events = <<>> THEN "closed" ELSE "active")
    /\ UNCHANGED <<events, active, stop, hungUp, got, spc>>

HangUp(c) ==
    /\ Goto(c, "yield", "closed")
    /\ hungUp' = hungUp \cup {c}
    /\ UNCHANGED <<events, active, stop, got, spc>>

Stream(c) == \/ ReadActive(c) \/ ReadEmpty(c) \/ Take(c) \/ KeepAlive(c)
             \/ Resume(c)     \/ ReadDrained(c)

Serve == \/ \E s \in Stoppers : Stop(s)
         \/ \E c \in Consumers : Open(c) \/ Stream(c) \/ HangUp(c)

StreamTypeOK(Events) ==
    /\ events \in Seq(Events)
    /\ active \in BOOLEAN
    /\ stop \in BOOLEAN
    /\ cpc \in [Consumers -> {"new", "active", "empty", "get", "yield",
                              "drained", "closed"}]
    /\ hungUp \subseteq Consumers
    /\ got \in [Consumers -> Seq(Events)]
    /\ spc \in [Stoppers -> 1..Len(StopSteps) + 1]

\* Request c is the only one there has been for this session.
Lone(c) == \A d \in Consumers \ {c} : cpc[d] = "new"

\* All that the session ever put in its queue, when request c is the only one.
Log(c) == got[c] \o events

===============================================================================
