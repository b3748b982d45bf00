----------------------------- MODULE MtuDiscovery -----------------------------
(* An MTU discovery session: ndp/mtu/discover.py, MtuDiscoverySession, with    *)
(* the endpoint that streams it (ndp/web/server.py).  One thread probes the    *)
(* host with ever smaller packets that may not be fragmented; the requests and *)
(* the callers of stop() are those of EventStream.                             *)
(*                                                                             *)
(* A probe is its MTU and whether it got through, which is left open.  The     *)
(* assumption on StartMtu and MinMtu is what MtuDiscoveryManager.create makes  *)
(* of the bounds of a request, which the endpoint keeps within 576 and 9000.   *)
(* The session implements SessionStream, as one that ends by itself.            *)
EXTENDS EventStream

CONSTANTS
    StartMtu,
    MinMtu,
    None

ASSUME MtuAssumption ==
    /\ MinMtu \in Nat \ {0}
    /\ StartMtu \in Nat
    /\ MinMtu <= StartMtu
    /\ None \notin Nat

\* The endpoint ends the response after either of these (server.py:640).
ASSUME FinalsAssumption ==
    /\ Finals = {"done", StopType}
    /\ StopType \notin {"probe", "result", "done"}

VARIABLES
    pc,         \* where the thread stands in _run
    mtu,        \* the MTU it is at
    resultMtu   \* result_mtu

searchVars == <<pc, mtu, resultMtu>>
vars == <<streamVars, searchVars>>

Init ==
    /\ InitStream
    /\ pc = "next"
    /\ mtu = StartMtu
    /\ resultMtu = None

Move(from, to) == pc = from /\ pc' = to

\* range(start_mtu, min_mtu - 1, -1) has no more; the mutant leaves out its last.
LastLeftOut == mtu <= MinMtu
Exhausted == mtu < MinMtu

NextMtu ==
    /\ ~Exhausted
    /\ Move("next", IF stop THEN "end" ELSE "probe")
    /\ UNCHANGED <<streamVars, mtu, resultMtu>>

\* The else clause of the loop.
NoMtu ==
    /\ Exhausted
    /\ Move("next", "end")
    /\ Put([type |-> "result", mtu |-> None])
    /\ UNCHANGED <<active, stop, consumerVars, spc, mtu, resultMtu>>

\* ping_mtu_probe returns.
Probe ==
    /\ \/ /\ Move("probe", "found")
          /\ resultMtu' = mtu
          /\ Put([type |-> "probe", mtu |-> mtu, reachable |-> TRUE])
          /\ UNCHANGED mtu
       \/ /\ Move("probe", "next")
          /\ mtu' = mtu - 1
          /\ Put([type |-> "probe", mtu |-> mtu, reachable |-> FALSE])
          /\ UNCHANGED resultMtu
    /\ UNCHANGED <<active, stop, consumerVars, spc>>

\* ping_mtu_probe raises, when no process can be started.
ProbeRaises ==
    /\ Move("probe", "end")
    /\ UNCHANGED <<streamVars, mtu, resultMtu>>

Found ==
    /\ Move("found", "end")
    /\ Put([type |-> "result", mtu |-> mtu])
    /\ UNCHANGED <<active, stop, consumerVars, spc, mtu, resultMtu>>

\* What the finally block makes of the flag.  The mutant leaves it alone.
StillActive == active
NoLongerActive == FALSE

Finally ==
    /\ Move("end", "done")
    /\ active' = NoLongerActive
    /\ UNCHANGED <<events, stop, consumerVars, spc, mtu, resultMtu>>

PutDone ==
    /\ Move("done", "gone")
    /\ Put([type |-> "done", mtu |-> resultMtu])
    /\ UNCHANGED <<active, stop, consumerVars, spc, mtu, resultMtu>>

Run == \/ NextMtu \/ NoMtu \/ Probe \/ ProbeRaises \/ Found \/ Finally
       \/ PutDone

Next == \/ Run
        \/ Serve /\ UNCHANGED searchVars

Spec == Init /\ [][Next]_vars

(* The thread runs, a ping ends (its process gets a timeout), and a generator  *)
(* is resumed as long as its client reads; nobody has to call stop().          *)
FairSpec ==
    /\ Spec
    /\ WF_vars(Run)
    /\ \A c \in Consumers : WF_vars(Stream(c) /\ UNCHANGED searchVars)

-------------------------------------------------------------------------------
(* Properties.                                                                 *)

Mtus == MinMtu..StartMtu

Events == [type : {"probe"}, mtu : Mtus, reachable : BOOLEAN]
          \cup [type : {"result", "done"}, mtu : Mtus \cup {None}]
          \cup [type : {StopType}]

\* The variables hold what the code can put in them: no MTU below the least of
\* the range is probed or reported (discover.py:51).
TypeOK ==
    /\ StreamTypeOK(Events)
    /\ pc \in {"next", "probe", "found", "end", "done", "gone"}
    /\ mtu \in MinMtu - 1..StartMtu
    /\ resultMtu \in Mtus \cup {None}

ProbedIn(s, m, through) ==
    \E i \in DOMAIN s : s[i] = [type |-> "probe", mtu |-> m, reachable |-> through]

\* A result is what the probes before it show: the MTU it names got through and
\* all the larger ones did not, and "no usable MTU" is said only after every one
\* of them has failed, never because stop() cut the search short
\* (discover.py:51-91).
ResultIsSound ==
    \A c \in Consumers :
        Lone(c) => \A i \in DOMAIN Log(c) :
            LET before == SubSeq(Log(c), 1, i - 1)
                m      == Log(c)[i].mtu
            IN Log(c)[i].type = "result" =>
                 /\ m # None => ProbedIn(before, m, TRUE)
                 /\ \A n \in Mtus : m = None \/ n > m => ProbedIn(before, n, FALSE)

\* The only request of a session that nobody stopped, and whose client stayed,
\* is not closed before the search is over, and then it has been given every
\* result, though it may miss the event done (discover.py:92-103).
ResultReachesClient ==
    \A c \in Consumers :
        Lone(c) /\ cpc[c] = "closed" /\ c \notin hungUp /\ ~stop =>
            /\ pc \in {"done", "gone"}
            /\ \A i \in DOMAIN events : events[i].type # "result"

Promise == INSTANCE SessionStream WITH
    Pages      <- Consumers,
    Reports    <- Events,
    Endings    <- Finals,
    EndsItself <- TRUE,
    pending    <- events,
    given      <- got,
    over       <- ~active,
    stopped    <- stop,
    ended      <- {c \in Consumers : cpc[c] = "closed"} \ hungUp

\* The pages share one stream: each probe and the result go to one of them, in
\* order, the end is announced only once the flag active is down and is then the
\* last unless somebody stops the session, and a page whose stream ends otherwise
\* has left nothing in the queue (discover.py:44-103, server.py:631-647).
ImplementsStream == Promise!Spec

\* The search ends by itself, and then so does every request that follows it,
\* whichever of them is given the event done (discover.py:92-103).
StreamsEnd == \A c \in Consumers : cpc[c] # "new" ~> cpc[c] = "closed"

===============================================================================
