-------------------------- MODULE MtuDiscoveryProofs ---------------------------
(* What an MTU discovery reports, and that it reaches the client, for any range of *)
(* MTUs and any number of requests and calls of stop().                          *)
EXTENDS MtuDiscovery, SequenceTheorems, TLAPS

-------------------------------------------------------------------------------
(* The inductive invariants.                                                    *)

\* Where the search stands and the MTU it is at.
SearchInv == pc \in {"probe", "found"} => mtu \in Mtus

\* stop() has set _stop before it lowers the flag or announces the end, and nothing
\* else does either before the search is over.
StopInv ==
    /\ \A s \in Stoppers : spc[s] > 1 => stop
    /\ ~stop => active \/ pc \in {"done", "gone"}
    /\ ~stop => \A i \in DOMAIN events : events[i].type # StopType
    /\ \A c \in Consumers : cpc[c] = "drained" => stop

\* The event done is the search's last.
DoneInv ==
    \A i \in DOMAIN events :
        events[i].type = "done" =>
            pc = "gone" /\ \A j \in i..Len(events) : events[j].type # "result"

\* A request that goes to its end has seen that the search is over.
CloseInv ==
    \A c \in Consumers :
        ~stop =>
            /\ cpc[c] = "empty" => pc \in {"done", "gone"}
            /\ cpc[c] = "closed" /\ c \notin hungUp =>
                  /\ pc \in {"done", "gone"}
                  /\ \A i \in DOMAIN events : events[i].type # "result"

\* What the events of a session say is so, and where the search stands is what they
\* say.
Sound(s) ==
    \A i \in DOMAIN s :
        s[i].type = "result" =>
            /\ s[i].mtu # None => \E j \in 1..i - 1 :
                  s[j] = [type |-> "probe", mtu |-> s[i].mtu, reachable |-> TRUE]
            /\ \A n \in Mtus : s[i].mtu = None \/ n > s[i].mtu =>
                  \E j \in 1..i - 1 :
                     s[j] = [type |-> "probe", mtu |-> n, reachable |-> FALSE]

LargerFailed(s) == \A n \in Mtus : n > mtu => ProbedIn(s, n, FALSE)

SoundInv ==
    \A c \in Consumers :
        Lone(c) =>
            /\ Sound(Log(c))
            /\ pc \in {"next", "probe", "found"} => LargerFailed(Log(c))
            /\ pc = "found" => ProbedIn(Log(c), mtu, TRUE)

-------------------------------------------------------------------------------
(* Types.                                                                       *)

LEMMA MtusAreNat == Mtus \subseteq Nat /\ None \notin Mtus /\ MinMtu - 1 \in Nat
<1>1. Mtus \subseteq Nat
  BY MtuAssumption DEF Mtus
<1>2. MinMtu - 1 \in Nat
  BY MtuAssumption
<1> QED
  BY <1>1, <1>2, MtuAssumption

\* The events that the thread and stop() put.
LEMMA EventTypes ==
    /\ \A m \in Mtus, b \in BOOLEAN : [type |-> "probe", mtu |-> m, reachable |-> b] \in Events
    /\ \A m \in Mtus \cup {None}, t \in {"result", "done"} : [type |-> t, mtu |-> m] \in Events
    /\ [type |-> StopType] \in Events
BY DEF Events

LEMMA PutTypes ==
    ASSUME TypeOK, NEW e \in Events, Put(e)
    PROVE  events' \in Seq(Events)
BY DEF TypeOK, StreamTypeOK, Put

LEMMA StopOrder ==
    /\ Len(StopSteps) = 3
    /\ StopSteps[1] = "set" /\ StopSteps[2] = "inactive" /\ StopSteps[3] = "put"
BY DEF StopSteps

LEMMA InitTypes == Init => TypeOK /\ SearchInv
<1> SUFFICES ASSUME Init PROVE TypeOK /\ SearchInv
  OBVIOUS
<1> USE MtuAssumption DEF Init, InitStream
<1>1. StreamTypeOK(Events)
  <2>1. spc \in [Stoppers -> 1..Len(StopSteps) + 1]
    BY StopOrder
  <2>2. got \in [Consumers -> Seq(Events)] /\ events \in Seq(Events)
    OBVIOUS
  <2> QED
    BY <2>1, <2>2 DEF StreamTypeOK
<1>2. mtu \in MinMtu - 1..StartMtu
  OBVIOUS
<1> QED
  BY <1>1, <1>2 DEF TypeOK, SearchInv

LEMMA RunTypes ==
    ASSUME TypeOK, SearchInv, Run
    PROVE  TypeOK' /\ SearchInv'
<1> USE MtuAssumption, MtusAreNat DEF Move, consumerVars
<1>1. CASE NextMtu
  BY <1>1 DEF NextMtu, Exhausted, Mtus, streamVars, TypeOK, StreamTypeOK, SearchInv
<1>2. CASE NoMtu
  <2>1. events' \in Seq(Events)
    BY <1>2, EventTypes, PutTypes DEF NoMtu
  <2> QED
    BY <1>2, <2>1 DEF NoMtu, TypeOK, StreamTypeOK, SearchInv
<1>3. CASE Probe
  <2>1. mtu \in Mtus
    BY <1>3 DEF Probe, SearchInv
  <2>2. events' \in Seq(Events)
    BY <1>3, <2>1, EventTypes, PutTypes DEF Probe
  <2>3. mtu' \in MinMtu - 1..StartMtu /\ resultMtu' \in Mtus \cup {None}
    BY <1>3, <2>1 DEF Probe, Mtus, TypeOK
  <2>4. SearchInv'
    BY <1>3, <2>1 DEF Probe, SearchInv
  <2> QED
    BY <1>3, <2>2, <2>3, <2>4 DEF Probe, TypeOK, StreamTypeOK
<1>4. CASE ProbeRaises
  BY <1>4 DEF ProbeRaises, streamVars, TypeOK, StreamTypeOK, SearchInv
<1>5. CASE Found
  <2>1. events' \in Seq(Events)
    BY <1>5, EventTypes, PutTypes DEF Found, SearchInv
  <2> QED
    BY <1>5, <2>1 DEF Found, TypeOK, StreamTypeOK, SearchInv
<1>6. CASE Finally
  <2>1. active' \in BOOLEAN
    BY <1>6 DEF Finally, NoLongerActive
  <2> QED
    BY <1>6, <2>1 DEF Finally, TypeOK, StreamTypeOK, SearchInv
<1>7. CASE PutDone
  <2>1. events' \in Seq(Events)
    BY <1>7, EventTypes, PutTypes DEF PutDone, TypeOK
  <2> QED
    BY <1>7, <2>1 DEF PutDone, TypeOK, StreamTypeOK, SearchInv
<1> QED
  BY <1>1, <1>2, <1>3, <1>4, <1>5, <1>6, <1>7 DEF Run

LEMMA StopTypes ==
    ASSUME TypeOK, SearchInv, NEW s \in Stoppers, Stop(s), UNCHANGED searchVars
    PROVE  TypeOK' /\ SearchInv'
<1> USE DEF TypeOK, StreamTypeOK, SearchInv, consumerVars, searchVars
<1>1. spc' \in [Stoppers -> 1..Len(StopSteps) + 1]
  <2>1. /\ spc[s] <= Len(StopSteps)
        /\ spc' = [spc EXCEPT ![s] = spc[s] + 1]
    BY DEF Stop, SetStop, SetInactive, PutStopped, AtStep
  <2> QED
    BY <2>1, StopOrder
<1>2. active' \in BOOLEAN /\ stop' \in BOOLEAN
  <2>1. CASE SetStop(s)
    BY <2>1 DEF SetStop
  <2>2. CASE SetInactive(s)
    BY <2>2 DEF SetInactive
  <2>3. CASE PutStopped(s)
    BY <2>3 DEF PutStopped
  <2> QED
    BY <2>1, <2>2, <2>3 DEF Stop
<1>3. events' \in Seq(Events)
  BY EventTypes, PutTypes DEF Stop, SetStop, SetInactive, PutStopped
<1> QED
  BY <1>1, <1>2, <1>3 DEF Stop, SetStop, SetInactive, PutStopped

LEMMA StreamTypes ==
    ASSUME TypeOK, SearchInv, NEW c \in Consumers, Open(c) \/ Stream(c) \/ HangUp(c),
           UNCHANGED searchVars
    PROVE  TypeOK' /\ SearchInv'
<1> USE DEF TypeOK, StreamTypeOK, SearchInv, Goto, searchVars
<1>1. CASE Open(c) \/ ReadActive(c) \/ ReadEmpty(c)
  BY <1>1 DEF Open, ReadActive, ReadEmpty
<1>2. CASE Take(c)
  BY <1>2 DEF Take
<1>3. CASE KeepAlive(c) \/ Resume(c) \/ ReadDrained(c) \/ HangUp(c)
  BY <1>3 DEF KeepAlive, Resume, ReadDrained, HangUp
<1> QED
  BY <1>1, <1>2, <1>3 DEF Stream

LEMMA NextTypes == TypeOK /\ SearchInv /\ [Next]_vars => TypeOK' /\ SearchInv'
<1> SUFFICES ASSUME TypeOK, SearchInv, [Next]_vars PROVE TypeOK' /\ SearchInv'
  OBVIOUS
<1>1. CASE UNCHANGED vars
  BY <1>1 DEF TypeOK, StreamTypeOK, SearchInv, vars, streamVars, searchVars
<1> QED
  BY <1>1, RunTypes, StopTypes, StreamTypes DEF Next, Serve

\* No MTU outside the range of the request is probed or reported (discover.py:51).
THEOREM TypeCorrect == Spec => []TypeOK
BY InitTypes, NextTypes, PTL DEF Spec

-------------------------------------------------------------------------------
(* The end of a request.                                                        *)

EndInv == StopInv /\ DoneInv /\ CloseInv

LEMMA InitEnd == Init => EndInv
BY DEF Init, InitStream, EndInv, StopInv, DoneInv, CloseInv

\* An event put behind the others.
LEMMA PutBehind ==
    ASSUME TypeOK, NEW e \in Events, Put(e)
    PROVE  /\ events' \in Seq(Events)
           /\ Len(events) \in Nat
           /\ Len(events') = Len(events) + 1
           /\ \A i \in 1..Len(events) : events'[i] = events[i]
           /\ events'[Len(events) + 1] = e
BY AppendProperties DEF TypeOK, StreamTypeOK, Put

\* One that is no result, while the search is not over, or its last event.
LEMMA PutEnd ==
    ASSUME TypeOK, NEW e \in Events, Put(e), DoneInv,
           e.type = "done" => pc' = "gone",
           pc = "gone" => pc' = "gone",
           e.type = "result" => pc # "gone"
    PROVE  DoneInv'
<1> USE PutBehind DEF DoneInv
<1>1. SUFFICES ASSUME NEW i \in DOMAIN events', events'[i].type = "done",
                      NEW j \in i..Len(events')
               PROVE  pc' = "gone" /\ events'[j].type # "result"
  OBVIOUS
<1>2. i \in 1..Len(events) + 1 /\ j \in i..Len(events) + 1
  BY <1>1
<1>3. CASE i = Len(events) + 1
  BY <1>1, <1>2, <1>3
<1>4. CASE i \in 1..Len(events)
  <2>1. events[i].type = "done" /\ i \in DOMAIN events
    BY <1>1, <1>4 DEF TypeOK, StreamTypeOK
  <2>2. CASE j = Len(events) + 1
    BY <2>1, <2>2
  <2>3. CASE j \in i..Len(events)
    BY <1>4, <2>1, <2>3
  <2> QED
    BY <1>2, <2>2, <2>3
<1> QED
  BY <1>2, <1>3, <1>4

\* A step of the search.
LEMMA RunEnd ==
    ASSUME TypeOK, SearchInv, EndInv, Run
    PROVE  EndInv'
<1> USE MtusAreNat, EventTypes, FinalsAssumption DEF EndInv, Move, consumerVars
<1>1. CASE NextMtu \/ ProbeRaises \/ Finally
  BY <1>1 DEF NextMtu, ProbeRaises, Finally, NoLongerActive, streamVars, StopInv, DoneInv,
              CloseInv, TypeOK, StreamTypeOK
<1>2. ASSUME NEW e \in Events, Put(e), e.type # StopType,
             e.type = "done" => pc' = "gone",
             e.type = "result" => pc \notin {"done", "gone"},
             pc # "gone", pc \in {"done"} => pc' \in {"done", "gone"},
             UNCHANGED <<active, stop, consumerVars, spc>>
      PROVE  EndInv'
  <2>1. DoneInv'
    BY <1>2, PutEnd
  <2>2. StopInv'
    BY <1>2, PutBehind DEF StopInv
  <2>3. CloseInv'
    BY <1>2, PutBehind DEF CloseInv
  <2> QED
    BY <2>1, <2>2, <2>3
<1>3. CASE NoMtu
  BY <1>2, <1>3 DEF NoMtu
<1>4. CASE Probe
  BY <1>2, <1>4 DEF Probe, SearchInv
<1>5. CASE Found
  BY <1>2, <1>5 DEF Found, SearchInv
<1>6. CASE PutDone
  BY <1>2, <1>6 DEF PutDone, TypeOK
<1> QED
  BY <1>1, <1>3, <1>4, <1>5, <1>6 DEF Run

\* A step of stop(): the first sets _stop, and then nothing is claimed.
LEMMA StopEnd ==
    ASSUME TypeOK, EndInv, NEW s \in Stoppers, Stop(s), UNCHANGED searchVars
    PROVE  EndInv'
<1> USE StopOrder, FinalsAssumption DEF EndInv, AtStep, consumerVars, searchVars
<1>1. stop'
  <2>1. CASE SetStop(s)
    BY <2>1 DEF SetStop
  <2>2. CASE SetInactive(s)
    BY <2>2, spc[s] = 2 DEF SetInactive, StopInv, TypeOK, StreamTypeOK
  <2>3. CASE PutStopped(s)
    BY <2>3, spc[s] = 3 DEF PutStopped, StopInv, TypeOK, StreamTypeOK
  <2> QED
    BY <2>1, <2>2, <2>3 DEF Stop
<1>2. StopInv' /\ CloseInv'
  BY <1>1 DEF StopInv, CloseInv
<1>3. DoneInv'
  <2>1. CASE SetStop(s) \/ SetInactive(s)
    BY <2>1 DEF SetStop, SetInactive, DoneInv
  <2>2. CASE PutStopped(s)
    BY <2>2, EventTypes, PutEnd DEF PutStopped
  <2> QED
    BY <2>1, <2>2 DEF Stop
<1> QED
  BY <1>2, <1>3

\* A step of a request.
LEMMA StreamEnd ==
    ASSUME TypeOK, EndInv, NEW c \in Consumers, Open(c) \/ Stream(c) \/ HangUp(c),
           UNCHANGED searchVars
    PROVE  EndInv'
<1> USE DEF TypeOK, StreamTypeOK, EndInv, Goto, searchVars
<1>1. CASE Open(c)
  BY <1>1 DEF Open, StopInv, DoneInv, CloseInv
<1>2. CASE ReadActive(c)
  BY <1>2 DEF ReadActive, MoreToCome, StopInv, DoneInv, CloseInv
<1>3. CASE ReadEmpty(c)
  BY <1>3 DEF ReadEmpty, NothingLeft, StopInv, DoneInv, CloseInv
<1>4. CASE Take(c)
  <2>1. /\ Len(events) \in Nat \ {0} /\ Len(events') = Len(events) - 1
        /\ \A i \in 1..Len(events') : events'[i] = events[i + 1]
        /\ events' \in Seq(Events) /\ Head(events) = events[1]
    BY <1>4, HeadTailProperties DEF Take
  <2> HIDE DEF TypeOK, StreamTypeOK
  <2>2. /\ DOMAIN events = 1..Len(events) /\ DOMAIN events' = 1..Len(events')
        /\ cpc \in [Consumers -> {"new", "active", "empty", "get", "yield",
                                  "drained", "closed"}]
    BY <2>1 DEF TypeOK, StreamTypeOK
  <2>3. StopInv'
    BY <1>4, <2>1, <2>2 DEF Take, StopInv
  <2>4. DoneInv'
    BY <1>4, <2>1, <2>2 DEF Take, DoneInv
  <2>5. CloseInv'
    <3>1. SUFFICES ASSUME NEW d \in Consumers, ~stop
                   PROVE  /\ cpc'[d] = "empty" => pc \in {"done", "gone"}
                          /\ cpc'[d] = "closed" /\ d \notin hungUp =>
                                /\ pc \in {"done", "gone"}
                                /\ \A i \in DOMAIN events' : events'[i].type # "result"
      BY <1>4 DEF Take, CloseInv
    <3>2. CASE d # c
      BY <1>4, <2>1, <2>2, <3>1, <3>2 DEF Take, CloseInv
    <3>3. CASE d = c /\ events[1].type = "done"
      BY <1>4, <2>1, <2>2, <3>1, <3>3 DEF Take, DoneInv
    <3>4. CASE d = c /\ events[1].type # "done"
      <4>1. events[1].type \notin Finals
        BY <2>1, <2>2, <3>1, <3>4, FinalsAssumption DEF StopInv
      <4> QED
        BY <1>4, <2>1, <2>2, <3>4, <4>1 DEF Take
    <3> QED
      BY <3>2, <3>3, <3>4
  <2> QED
    BY <2>3, <2>4, <2>5
<1>5. CASE KeepAlive(c)
  BY <1>5 DEF KeepAlive, StopInv, DoneInv, CloseInv
<1>6. CASE Resume(c)
  BY <1>6 DEF Resume, StopInv, DoneInv, CloseInv
<1>7. CASE ReadDrained(c)
  BY <1>7 DEF ReadDrained, StopInv, DoneInv, CloseInv
<1>8. CASE HangUp(c)
  BY <1>8 DEF HangUp, StopInv, DoneInv, CloseInv
<1> QED
  BY <1>1, <1>2, <1>3, <1>4, <1>5, <1>6, <1>7, <1>8 DEF Stream

LEMMA NextEnd == TypeOK /\ SearchInv /\ EndInv /\ [Next]_vars => EndInv'
<1> SUFFICES ASSUME TypeOK, SearchInv, EndInv, [Next]_vars PROVE EndInv'
  OBVIOUS
<1>1. CASE UNCHANGED vars
  BY <1>1 DEF EndInv, StopInv, DoneInv, CloseInv, vars, streamVars, searchVars
<1> QED
  BY <1>1, RunEnd, StopEnd, StreamEnd DEF Next, Serve

\* A client that stays, while nobody stops the search, is told the result, for any
\* number of other requests (discover.py:92-103).
THEOREM ClientIsTold == Spec => []ResultReachesClient
<1>1. TypeOK /\ SearchInv /\ EndInv /\ [Next]_vars => TypeOK' /\ SearchInv' /\ EndInv'
  BY NextTypes, NextEnd
<1>2. EndInv => ResultReachesClient
  BY DEF EndInv, CloseInv, ResultReachesClient
<1> QED
  BY InitTypes, InitEnd, <1>1, <1>2, PTL DEF Spec

-------------------------------------------------------------------------------
(* What is reported.                                                            *)

\* A probe among the events of a sequence, by its place.
LEMMA ProbedByPlace ==
    ASSUME NEW s \in Seq(Events), NEW m, NEW b
    PROVE  ProbedIn(s, m, b) <=>
           \E j \in 1..Len(s) : s[j] = [type |-> "probe", mtu |-> m, reachable |-> b]
BY DEF ProbedIn

\* The property speaks of the events before a result, Sound of their places.
LEMMA SoundIsProperty ==
    ASSUME TypeOK
    PROVE  (\A c \in Consumers : Lone(c) => Sound(Log(c))) => ResultIsSound
<1> SUFFICES ASSUME \A c \in Consumers : Lone(c) => Sound(Log(c)),
                    NEW c \in Consumers, Lone(c), NEW i \in DOMAIN Log(c),
                    Log(c)[i].type = "result"
             PROVE  LET before == SubSeq(Log(c), 1, i - 1)
                        m      == Log(c)[i].mtu
                    IN  /\ m # None => ProbedIn(before, m, TRUE)
                        /\ \A n \in Mtus : m = None \/ n > m => ProbedIn(before, n, FALSE)
  BY DEF ResultIsSound
<1> DEFINE s == Log(c)
           before == SubSeq(s, 1, i - 1)
<1>1. s \in Seq(Events) /\ i \in 1..Len(s) /\ Len(s) \in Nat
  BY DEF TypeOK, StreamTypeOK, Log
<1>2. /\ before \in Seq(Events)
      /\ Len(before) = i - 1
      /\ \A j \in 1..i - 1 : before[j] = s[j]
  <2> HIDE DEF s
  <2>1. \A j \in 1..i - 1 : s[j] \in Events
    BY <1>1
  <2>2. /\ before \in Seq(Events)
        /\ Len(before) = IF 1 <= i - 1 THEN i - 1 - 1 + 1 ELSE 0
        /\ \A j \in 1..i - 1 - 1 + 1 : before[j] = s[1 + j - 1]
    BY <1>1, <2>1, SubSeqProperties
  <2> QED
    BY <1>1, <2>2
<1>3. Sound(s)
  OBVIOUS
<1> HIDE DEF s, before
<1>4. /\ s[i].mtu # None => ProbedIn(before, s[i].mtu, TRUE)
      /\ \A n \in Mtus : s[i].mtu = None \/ n > s[i].mtu => ProbedIn(before, n, FALSE)
  <2>0. s[i].type = "result" /\ i \in DOMAIN s
    BY <1>1 DEF s
  <2>1. ASSUME NEW m, NEW b,
               \E j \in 1..i - 1 : s[j] = [type |-> "probe", mtu |-> m, reachable |-> b]
        PROVE  ProbedIn(before, m, b)
    BY <1>2, <2>1, ProbedByPlace
  <2> QED
    BY <1>3, <2>0, <2>1 DEF Sound
<1> QED
  BY <1>4 DEF s, before

\* What has been probed stays so when an event is added.
LEMMA ProbedStays ==
    ASSUME NEW s \in Seq(Events), NEW e \in Events, NEW m, NEW b, ProbedIn(s, m, b)
    PROVE  ProbedIn(Append(s, e), m, b)
BY AppendProperties DEF ProbedIn

\* An event that is added is a probe, or a result that the events before it show, or
\* neither.
LEMMA SoundStays ==
    ASSUME NEW s \in Seq(Events), NEW e \in Events, Sound(s),
           e.type = "result" =>
               /\ e.mtu # None => ProbedIn(s, e.mtu, TRUE)
               /\ \A n \in Mtus : e.mtu = None \/ n > e.mtu => ProbedIn(s, n, FALSE)
    PROVE  Sound(Append(s, e))
<1> DEFINE t == Append(s, e)
<1>1. /\ t \in Seq(Events) /\ Len(s) \in Nat /\ Len(t) = Len(s) + 1
      /\ \A i \in 1..Len(s) : t[i] = s[i]
      /\ t[Len(s) + 1] = e
  BY AppendProperties
<1> HIDE DEF t
<1>2. SUFFICES ASSUME NEW i \in DOMAIN t, t[i].type = "result"
               PROVE  /\ t[i].mtu # None => \E j \in 1..i - 1 :
                            t[j] = [type |-> "probe", mtu |-> t[i].mtu, reachable |-> TRUE]
                      /\ \A n \in Mtus : t[i].mtu = None \/ n > t[i].mtu =>
                            \E j \in 1..i - 1 :
                               t[j] = [type |-> "probe", mtu |-> n, reachable |-> FALSE]
  BY DEF Sound, t
<1>3. i \in 1..Len(s) + 1
  BY <1>1
<1>4. CASE i = Len(s) + 1
  <2>1. ASSUME NEW m, NEW b, ProbedIn(s, m, b)
        PROVE  \E j \in 1..i - 1 : t[j] = [type |-> "probe", mtu |-> m, reachable |-> b]
    BY <1>1, <1>4, <2>1, ProbedByPlace
  <2> QED
    BY <1>1, <1>2, <1>4, <2>1
<1>5. CASE i \in 1..Len(s)
  <2>1. i \in DOMAIN s /\ t[i] = s[i] /\ \A j \in 1..i - 1 : t[j] = s[j]
    BY <1>1, <1>5
  <2> QED
    BY <1>2, <2>1 DEF Sound
<1>6. i = Len(s) + 1 \/ i \in 1..Len(s)
  BY <1>1, <1>3
<1> QED
  BY <1>4, <1>5, <1>6, Zenon

\* The log of the only request: an event put in the queue comes last, one that is
\* taken stays where it is.
LEMMA LogPut ==
    ASSUME TypeOK, NEW c \in Consumers, NEW e \in Events, Put(e), UNCHANGED got
    PROVE  /\ Log(c) \in Seq(Events)
           /\ Log(c)' = Append(Log(c), e)
<1> DEFINE g == got[c]
<1>1. g \in Seq(Events) /\ events \in Seq(Events) /\ <<e>> \in Seq(Events)
  BY DEF TypeOK, StreamTypeOK
<1>2. events' = events \o <<e>> /\ g \o events \in Seq(Events)
  BY <1>1, AppendIsConcat DEF Put
<1> HIDE DEF g
<1>3. g \o (events \o <<e>>) = (g \o events) \o <<e>>
  BY <1>1, ConcatAssociative
<1>4. (g \o events) \o <<e>> = Append(g \o events, e)
  BY <1>2, AppendIsConcat
<1> QED
  BY <1>2, <1>3, <1>4 DEF Log, g

LEMMA LogTake ==
    ASSUME TypeOK, NEW c \in Consumers, Take(c)
    PROVE  Log(c)' = Log(c)
<1> DEFINE g == got[c]
           h == Head(events)
<1>1. /\ g \in Seq(Events) /\ events \in Seq(Events) /\ events # <<>>
      /\ h \in Events /\ Tail(events) \in Seq(Events) /\ <<h>> \in Seq(Events)
  BY DEF Take, TypeOK, StreamTypeOK
<1>2. got'[c] = Append(g, h) /\ events' = Tail(events)
  BY DEF Take, TypeOK, StreamTypeOK
<1> HIDE DEF g, h
<1>3. Append(g, h) = g \o <<h>>
  BY <1>1, AppendIsConcat
<1>4. (g \o <<h>>) \o Tail(events) = g \o (<<h>> \o Tail(events))
  BY <1>1, ConcatAssociative
<1>5. <<h>> \o Tail(events) = events
  BY <1>1 DEF h
<1> QED
  BY <1>2, <1>3, <1>4, <1>5 DEF Log, g

LEMMA InitSound == Init => SoundInv
<1> SUFFICES ASSUME Init, NEW c \in Consumers
             PROVE  Sound(Log(c)) /\ LargerFailed(Log(c)) /\ pc # "found"
  BY DEF SoundInv
<1>1. Log(c) = <<>>
  BY DEF Init, InitStream, Log
<1>2. \A n \in Mtus : ~(n > mtu)
  BY MtuAssumption DEF Init, Mtus
<1>3. Sound(<<>>)
  BY DEF Sound
<1> QED
  BY <1>1, <1>2, <1>3 DEF LargerFailed, Init

\* A step of the search, in which a probe fails, gets through, or a result is told.
LEMMA RunSound ==
    ASSUME TypeOK, SearchInv, SoundInv, Run
    PROVE  SoundInv'
<1> USE DEF Move, consumerVars, streamVars
<1>1. UNCHANGED <<cpc, got>>
  BY DEF Run, NextMtu, NoMtu, Probe, ProbeRaises, Found, Finally, PutDone
<1>2. SUFFICES ASSUME NEW c \in Consumers, Lone(c)
               PROVE  /\ Sound(Log(c))'
                      /\ pc' \in {"next", "probe", "found"} => LargerFailed(Log(c))'
                      /\ pc' = "found" => ProbedIn(Log(c)', mtu', TRUE)
  BY <1>1 DEF SoundInv, Lone
<1>3. /\ Sound(Log(c))
      /\ pc \in {"next", "probe", "found"} => LargerFailed(Log(c))
      /\ pc = "found" => ProbedIn(Log(c), mtu, TRUE)
      /\ Log(c) \in Seq(Events)
  <2>1. Log(c) \in Seq(Events)
    BY DEF TypeOK, StreamTypeOK, Log
  <2> QED
    BY <1>2, <2>1 DEF SoundInv
<1>4. CASE NextMtu \/ ProbeRaises \/ Finally
  <2>1. Log(c)' = Log(c) /\ mtu' = mtu
    BY <1>4 DEF NextMtu, ProbeRaises, Finally, Log
  <2>2. pc' # "found" /\ (pc' = "probe" => pc = "next") /\ pc' # "next"
    BY <1>4 DEF NextMtu, ProbeRaises, Finally
  <2> QED
    BY <1>3, <2>1, <2>2 DEF LargerFailed, Sound
<1>5. ASSUME NEW e \in Events, Put(e),
             e.type = "result" =>
               /\ e.mtu # None => ProbedIn(Log(c), e.mtu, TRUE)
               /\ \A n \in Mtus : e.mtu = None \/ n > e.mtu => ProbedIn(Log(c), n, FALSE)
      PROVE  /\ Sound(Log(c))'
             /\ Log(c)' = Append(Log(c), e)
             /\ \A m, b : ProbedIn(Log(c), m, b) => ProbedIn(Log(c)', m, b)
  <2>1. Log(c)' = Append(Log(c), e)
    BY <1>1, <1>5, LogPut
  <2>2. Sound(Append(Log(c), e))
    BY <1>3, <1>5, SoundStays
  <2>3. Sound(Log(c))' = Sound(Log(c)')
    BY DEF Sound
  <2> QED
    BY <1>3, <2>1, <2>2, <2>3, ProbedStays
<1>6. CASE NoMtu
  <2> DEFINE e == [type |-> "result", mtu |-> None]
  <2>1. e \in Events /\ Put(e) /\ pc = "next" /\ pc' = "end"
    BY <1>6, EventTypes DEF NoMtu
  <2>2. \A n \in Mtus : ProbedIn(Log(c), n, FALSE)
    <3>1. \A n \in Mtus : n > mtu
      BY <1>6, MtuAssumption DEF NoMtu, Exhausted, Mtus, TypeOK
    <3> QED
      BY <1>3, <2>1, <3>1 DEF LargerFailed
  <2> QED
    BY <1>5, <2>1, <2>2
<1>7. CASE Probe /\ pc' = "found"
  <2> DEFINE e == [type |-> "probe", mtu |-> mtu, reachable |-> TRUE]
  <2>1. pc = "probe" /\ mtu \in Mtus /\ mtu' = mtu /\ Put(e)
    BY <1>7 DEF Probe, SearchInv
  <2>2. e \in Events
    BY <2>1, EventTypes
  <2>3. /\ Sound(Log(c))' /\ Log(c)' = Append(Log(c), e)
        /\ \A m, b : ProbedIn(Log(c), m, b) => ProbedIn(Log(c)', m, b)
    BY <1>5, <2>1, <2>2
  <2>4. ProbedIn(Log(c)', mtu, TRUE)
    <3>1. ProbedIn(Append(Log(c), e), mtu, TRUE)
      BY <1>3, <2>2, AppendProperties DEF ProbedIn
    <3> QED
      BY <2>3, <3>1
  <2>5. LargerFailed(Log(c))'
    BY <1>3, <2>1, <2>3 DEF LargerFailed
  <2> QED
    BY <2>1, <2>3, <2>4, <2>5
<1>8. CASE Probe /\ pc' # "found"
  <2> DEFINE e == [type |-> "probe", mtu |-> mtu, reachable |-> FALSE]
  <2>1. pc = "probe" /\ mtu \in Mtus /\ mtu' = mtu - 1 /\ Put(e)
    BY <1>8 DEF Probe, SearchInv
  <2>2. e \in Events
    BY <2>1, EventTypes
  <2>3. /\ Sound(Log(c))' /\ Log(c)' = Append(Log(c), e)
        /\ \A m, b : ProbedIn(Log(c), m, b) => ProbedIn(Log(c)', m, b)
    BY <1>5, <2>1, <2>2
  <2>4. ProbedIn(Log(c)', mtu, FALSE)
    <3>1. ProbedIn(Append(Log(c), e), mtu, FALSE)
      BY <1>3, <2>2, AppendProperties DEF ProbedIn
    <3> QED
      BY <2>3, <3>1
  <2>5. \A n \in Mtus : n > mtu - 1 => n = mtu \/ n > mtu
    BY <2>1, MtusAreNat
  <2>6. LargerFailed(Log(c))'
    BY <1>3, <2>1, <2>3, <2>4, <2>5 DEF LargerFailed
  <2> QED
    BY <1>8, <2>3, <2>6
<1>9. CASE Found
  <2> DEFINE e == [type |-> "result", mtu |-> mtu]
  <2>1. pc = "found" /\ pc' = "end" /\ mtu \in Mtus /\ mtu # None /\ Put(e)
    BY <1>9, MtusAreNat DEF Found, SearchInv
  <2>2. e \in Events
    BY <2>1, EventTypes
  <2> QED
    BY <1>3, <1>5, <2>1, <2>2 DEF LargerFailed
<1>10. CASE PutDone
  <2> DEFINE e == [type |-> "done", mtu |-> resultMtu]
  <2>1. e \in Events /\ Put(e) /\ pc' = "gone"
    BY <1>10, EventTypes DEF PutDone, TypeOK
  <2> QED
    BY <1>5, <2>1
<1> QED
  BY <1>4, <1>6, <1>7, <1>8, <1>9, <1>10 DEF Run

\* The other steps add the event of stop(), or let a request take one.
LEMMA ServeSound ==
    ASSUME TypeOK, SoundInv, Serve, UNCHANGED searchVars
    PROVE  SoundInv'
<1> SUFFICES ASSUME NEW c \in Consumers, Lone(c)'
             PROVE  /\ Sound(Log(c))'
                    /\ pc \in {"next", "probe", "found"} => LargerFailed(Log(c))'
                    /\ pc = "found" => ProbedIn(Log(c)', mtu, TRUE)
  BY DEF SoundInv, searchVars
<1>1. ASSUME Lone(c), Log(c)' = Log(c)
      PROVE  /\ Sound(Log(c))'
             /\ pc \in {"next", "probe", "found"} => LargerFailed(Log(c))'
             /\ pc = "found" => ProbedIn(Log(c)', mtu, TRUE)
  <2>1. Sound(Log(c))' = Sound(Log(c)')
    BY DEF Sound
  <2>2. /\ Sound(Log(c))
        /\ pc \in {"next", "probe", "found"} => LargerFailed(Log(c))
        /\ pc = "found" => ProbedIn(Log(c), mtu, TRUE)
    BY <1>1 DEF SoundInv
  <2>3. LargerFailed(Log(c)) => LargerFailed(Log(c))'
    BY <1>1 DEF LargerFailed, searchVars
  <2>4. Sound(Log(c))'
    BY <1>1, <2>1, <2>2
  <2>5. ProbedIn(Log(c), mtu, TRUE) => ProbedIn(Log(c)', mtu, TRUE)
    BY <1>1
  <2> QED
    BY <2>2, <2>3, <2>4, <2>5
<1>2. ASSUME NEW s \in Stoppers, Stop(s) PROVE UNCHANGED <<cpc, got>>
  BY <1>2 DEF Stop, SetStop, SetInactive, PutStopped, consumerVars
<1>3. ASSUME NEW s \in Stoppers, PutStopped(s)
      PROVE  /\ Sound(Log(c))'
             /\ pc \in {"next", "probe", "found"} => LargerFailed(Log(c))'
             /\ pc = "found" => ProbedIn(Log(c)', mtu, TRUE)
  <2> DEFINE e == [type |-> StopType]
  <2>1. Lone(c) /\ Put(e) /\ UNCHANGED got /\ e \in Events
    BY <1>2, <1>3, EventTypes DEF Stop, Lone, PutStopped
  <2>2. Log(c) \in Seq(Events) /\ Log(c)' = Append(Log(c), e)
    BY <2>1, LogPut
  <2>3. e.type # "result"
    BY FinalsAssumption
  <2>4. Sound(Append(Log(c), e))
    BY <2>1, <2>2, <2>3, SoundStays DEF SoundInv
  <2>5. \A m, b : ProbedIn(Log(c), m, b) => ProbedIn(Log(c)', m, b)
    BY <2>1, <2>2, ProbedStays
  <2>6. Sound(Log(c))' = Sound(Log(c)')
    BY DEF Sound
  <2> QED
    BY <2>1, <2>2, <2>4, <2>5, <2>6 DEF SoundInv, LargerFailed, searchVars
<1>4. ASSUME NEW s \in Stoppers, SetStop(s) \/ SetInactive(s)
      PROVE  Lone(c) /\ Log(c)' = Log(c)
  BY <1>2, <1>4 DEF Stop, SetStop, SetInactive, Lone, Log
<1>5. ASSUME NEW d \in Consumers, Open(d) \/ Stream(d) \/ HangUp(d)
      PROVE  Lone(c) /\ Log(c)' = Log(c)
  <2>1. /\ cpc'[d] # "new"
        /\ \A x \in Consumers \ {d} : cpc'[x] = cpc[x]
    BY <1>5 DEF TypeOK, StreamTypeOK, Goto, Open, Stream, ReadActive, ReadEmpty, Take,
                KeepAlive, Resume, ReadDrained, HangUp
  <2>2. d = c /\ Lone(c)
    BY <2>1 DEF Lone
  <2>3. CASE Take(d)
    BY <2>2, <2>3, LogTake
  <2>4. CASE ~Take(d)
    <3>1. UNCHANGED <<events, got>>
      BY <1>5, <2>4 DEF Open, Stream, ReadActive, ReadEmpty, KeepAlive, Resume,
                            ReadDrained, HangUp
    <3> QED
      BY <2>2, <3>1 DEF Log
  <2> QED
    BY <2>2, <2>3, <2>4
<1> QED
  BY <1>1, <1>3, <1>4, <1>5 DEF Serve, Stop

LEMMA NextSound == TypeOK /\ SearchInv /\ SoundInv /\ [Next]_vars => SoundInv'
<1> SUFFICES ASSUME TypeOK, SearchInv, SoundInv, [Next]_vars PROVE SoundInv'
  OBVIOUS
<1>1. CASE UNCHANGED vars
  BY <1>1 DEF SoundInv, Sound, LargerFailed, ProbedIn, Lone, Log, vars, streamVars,
              searchVars
<1> QED
  BY <1>1, RunSound, ServeSound DEF Next

\* A result names an MTU that got through after all larger ones failed, and "no usable
\* MTU" is said only when all failed, for any range (discover.py:51-91).
THEOREM ResultHolds == Spec => []ResultIsSound
<1>1. TypeOK /\ SearchInv /\ SoundInv /\ [Next]_vars
      => TypeOK' /\ SearchInv' /\ SoundInv'
  BY NextTypes, NextSound
<1>2. TypeOK /\ SoundInv => ResultIsSound
  BY SoundIsProperty DEF SoundInv
<1> QED
  BY InitTypes, InitSound, <1>1, <1>2, PTL DEF Spec

-------------------------------------------------------------------------------
(* The session implements the stream its pages were promised.                   *)

\* The flag is down before the end is announced, whoever announces it, and before a
\* request looks at the queue to leave; only a request at its end has lost its client.
FlagInv ==
    /\ \A s \in Stoppers : spc[s] > 2 => ~active
    /\ pc \in {"done", "gone"} => ~active
    /\ \A c \in Consumers : cpc[c] = "empty" => ~active
    /\ \A c \in hungUp : cpc[c] = "closed"

\* The step of the promise an event is.
LEMMA ReportIsStep ==
    ASSUME NEW e \in Events, Put(e), UNCHANGED <<active, stop, consumerVars>>,
           e.type \in Finals => ~active,
           ~active => e.type \in Finals \/ stop
    PROVE  Promise!Next
<1>1. Promise!Report(e)
  BY DEF Promise!Report, Put, consumerVars
<1> QED
  BY <1>1 DEF Promise!Next

\* The search reports while the flag is up, lowers it, and announces its end.
LEMMA RunRefines ==
    ASSUME TypeOK, SearchInv, StopInv, FlagInv, Run
    PROVE  [Promise!Next]_Promise!vars /\ FlagInv'
<1> USE EventTypes, FinalsAssumption DEF Move
<1>1. ASSUME NEW e \in Events, Put(e), UNCHANGED <<active, stop, consumerVars, spc>>,
             \/ e.type \notin Finals /\ pc \notin {"done", "gone"}
                   /\ pc' \notin {"done", "gone"}
             \/ e.type \in Finals /\ pc = "done" /\ pc' = "gone"
      PROVE  [Promise!Next]_Promise!vars /\ FlagInv'
  <2>1. e.type \in Finals => ~active
    BY <1>1 DEF FlagInv
  <2>2. ~active => e.type \in Finals \/ stop
    BY <1>1 DEF StopInv
  <2>3. Promise!Next
    BY <1>1, <2>1, <2>2, ReportIsStep
  <2> QED
    BY <1>1, <2>3 DEF FlagInv, consumerVars
<1>2. CASE NextMtu \/ ProbeRaises
  BY <1>2 DEF NextMtu, ProbeRaises, streamVars, FlagInv, Promise!vars
<1>3. CASE NoMtu
  BY <1>1, <1>3 DEF NoMtu
<1>4. CASE Probe
  BY <1>1, <1>4 DEF Probe, SearchInv
<1>5. CASE Found
  BY <1>1, <1>5 DEF Found, SearchInv
<1>6. CASE Finally
  <2>1. Promise!End
    BY <1>6 DEF Finally, NoLongerActive, consumerVars, Promise!End
  <2>2. FlagInv'
    BY <1>6 DEF Finally, NoLongerActive, consumerVars, FlagInv
  <2> QED
    BY <2>1, <2>2 DEF Promise!Next
<1>7. CASE PutDone
  BY <1>1, <1>7 DEF PutDone, TypeOK
<1> QED
  BY <1>2, <1>3, <1>4, <1>5, <1>6, <1>7 DEF Run

\* stop() asks for the end, makes it, and announces it.
LEMMA StopRefines ==
    ASSUME TypeOK, StopInv, FlagInv, NEW s \in Stoppers, Stop(s), UNCHANGED searchVars
    PROVE  [Promise!Next]_Promise!vars /\ FlagInv'
<1> USE StopOrder DEF TypeOK, StreamTypeOK, AtStep, consumerVars, searchVars
<1>1. CASE SetStop(s)
  <2>1. Promise!Stop
    BY <1>1 DEF SetStop, Promise!Stop
  <2>2. FlagInv'
    BY <1>1, spc[s] = 1 DEF SetStop, FlagInv
  <2> QED
    BY <2>1, <2>2 DEF Promise!Next
<1>2. CASE SetInactive(s)
  <2>1. stop
    BY <1>2, spc[s] = 2 DEF SetInactive, StopInv
  <2>2. Promise!End
    BY <1>2, <2>1 DEF SetInactive, Promise!End
  <2>3. FlagInv'
    BY <1>2 DEF SetInactive, FlagInv
  <2> QED
    BY <2>2, <2>3 DEF Promise!Next
<1>3. CASE PutStopped(s)
  <2>1. ~active
    BY <1>3, spc[s] = 3 DEF PutStopped, FlagInv
  <2>2. Promise!Next
    BY <1>3, <2>1, ReportIsStep, EventTypes, FinalsAssumption DEF PutStopped
  <2>3. FlagInv'
    BY <1>3, <2>1 DEF PutStopped, FlagInv
  <2> QED
    BY <2>2, <2>3
<1> QED
  BY <1>1, <1>2, <1>3 DEF Stop

\* A request is given the next event, or ends as the promise allows.
LEMMA RequestRefines ==
    ASSUME TypeOK, StopInv, FlagInv, NEW c \in Consumers, UNCHANGED searchVars,
           Open(c) \/ Stream(c) \/ HangUp(c)
    PROVE  [Promise!Next]_Promise!vars /\ FlagInv'
<1> DEFINE closed == {d \in Consumers : cpc[d] = "closed"} \ hungUp
<1> USE DEF TypeOK, StreamTypeOK, Goto, searchVars
<1>1. ASSUME cpc[c] # "closed", cpc' = [cpc EXCEPT ![c] = "closed"], UNCHANGED hungUp
      PROVE  closed' = closed \cup {c} /\ c \notin closed
  BY <1>1 DEF FlagInv
<1>2. ASSUME NEW at, at # "closed", cpc[c] # "closed", cpc' = [cpc EXCEPT ![c] = at],
             UNCHANGED hungUp
      PROVE  closed' = closed /\ c \notin closed
  BY <1>2 DEF FlagInv
<1>3. ASSUME NEW at, at # "empty", cpc[c] # "closed", cpc' = [cpc EXCEPT ![c] = at], UNCHANGED hungUp,
             UNCHANGED <<active, spc>>
      PROVE  FlagInv'
  BY <1>3 DEF FlagInv
<1>4. ASSUME NEW at, at \notin {"closed", "empty"}, cpc[c] # "closed", cpc' = [cpc EXCEPT ![c] = at],
             UNCHANGED <<events, active, stop, hungUp, got, spc>>
      PROVE  [Promise!Next]_Promise!vars /\ FlagInv'
  BY <1>2, <1>3, <1>4 DEF Promise!vars
<1>5. ASSUME cpc[c] # "closed", cpc' = [cpc EXCEPT ![c] = "closed"], events = <<>>,
             ~active \/ stop, UNCHANGED <<events, active, stop, hungUp, got, spc>>
      PROVE  [Promise!Next]_Promise!vars /\ FlagInv'
  <2>1. Promise!Close(c)
    BY <1>1, <1>5 DEF Promise!Close
  <2> QED
    BY <1>3, <1>5, <2>1 DEF Promise!Next
<1>6. CASE Open(c)
  BY <1>4, <1>6 DEF Open
<1>7. CASE ReadActive(c)
  <2>1. CASE active
    BY <1>4, <1>7, <2>1 DEF ReadActive, MoreToCome
  <2>2. CASE ~active
    <3>1. FlagInv'
      BY <1>7, <2>2 DEF ReadActive, FlagInv
    <3>2. closed' = closed
      BY <1>2, <1>7 DEF ReadActive
    <3> QED
      BY <1>7, <3>1, <3>2 DEF ReadActive, Promise!vars
  <2> QED
    BY <2>1, <2>2
<1>8. CASE ReadEmpty(c)
  <2>1. cpc[c] = "empty" /\ (~active \/ stop)
    BY <1>8 DEF ReadEmpty, StopInv, FlagInv
  <2>2. CASE NothingLeft
    BY <1>5, <1>8, <2>1, <2>2 DEF ReadEmpty, NothingLeft
  <2>3. CASE ~NothingLeft
    BY <1>4, <1>8, <2>1, <2>3 DEF ReadEmpty
  <2> QED
    BY <2>2, <2>3
<1>9. CASE Take(c)
  <2>1. cpc[c] = "get" /\ events # <<>> /\ UNCHANGED <<active, stop, hungUp, spc>>
    BY <1>9 DEF Take
  <2>2. PICK at : /\ cpc' = [cpc EXCEPT ![c] = at]
                  /\ at = IF Head(events).type \in Finals THEN "closed" ELSE "yield"
    BY <1>9 DEF Take
  <2>3. closed' = IF Head(events).type \in Finals THEN closed \cup {c} ELSE closed
    BY <1>1, <1>2, <2>1, <2>2
  <2>4. c \notin closed
    BY <2>1
  <2>5. Promise!Deliver(c)
    BY <1>9, <2>1, <2>3, <2>4 DEF Take, Promise!Deliver
  <2> QED
    BY <1>3, <2>1, <2>2, <2>5 DEF Promise!Next
<1>10. CASE KeepAlive(c)
  BY <1>4, <1>10 DEF KeepAlive
<1>11. CASE Resume(c)
  BY <1>4, <1>11 DEF Resume
<1>12. CASE ReadDrained(c)
  <2>1. cpc[c] = "drained" /\ stop
    BY <1>12 DEF ReadDrained, StopInv, FlagInv
  <2>2. CASE events = <<>>
    BY <1>5, <1>12, <2>1, <2>2 DEF ReadDrained
  <2>3. CASE events # <<>>
    BY <1>4, <1>12, <2>1, <2>3 DEF ReadDrained
  <2> QED
    BY <2>2, <2>3
<1>13. CASE HangUp(c)
  <2>1. closed' = closed
    BY <1>13 DEF HangUp
  <2>2. FlagInv'
    BY <1>13 DEF HangUp, FlagInv
  <2> QED
    BY <1>13, <2>1, <2>2 DEF HangUp, Promise!vars
<1> QED
  BY <1>6, <1>7, <1>8, <1>9, <1>10, <1>11, <1>12, <1>13 DEF Stream

\* For every range of MTUs and any number of requests and calls of stop(): each page
\* is given events nobody else is, in their order, and its stream ends as promised
\* (discover.py:44-103).
THEOREM Refinement == Spec => ImplementsStream
<1> SUFFICES Spec => Promise!Spec
  BY DEF ImplementsStream
<1> DEFINE Inv == TypeOK /\ SearchInv /\ EndInv /\ FlagInv
<1>1. Init => Inv
  <2>1. Init => FlagInv
    BY DEF Init, InitStream, FlagInv
  <2> QED
    BY <2>1, InitTypes, InitEnd
<1>2. Init => Promise!Init
  BY DEF Init, InitStream, Promise!Init
<1>3. Inv /\ [Next]_vars => Inv' /\ [Promise!Next]_Promise!vars
  <2> SUFFICES ASSUME Inv, [Next]_vars
               PROVE  [Promise!Next]_Promise!vars /\ FlagInv'
    BY NextTypes, NextEnd
  <2>1. CASE UNCHANGED vars
    BY <2>1 DEF vars, streamVars, searchVars, Promise!vars, FlagInv
  <2> QED
    BY <2>1, RunRefines, StopRefines, RequestRefines DEF Next, Serve, EndInv
<1> QED
  BY <1>1, <1>2, <1>3, PTL DEF Spec, Promise!Spec

===============================================================================
