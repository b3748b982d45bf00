---------------------------- MODULE LivePingProofs ----------------------------
(* Only stop() ends the streams of a live ping, whatever the number of hosts,  *)
(* samples, requests and calls of stop().  The argument is StopInv: each step  *)
(* that takes a request out of iter_events reads something only stop() writes. *)
EXTENDS LivePing, SequenceTheorems, FiniteSetTheorems, TLAPS

\* The events a thread may queue, and the one stop() does, are Events; all but
\* the last are quiet.
LEMMA EventTypes ==
    /\ \A h \in Hosts, n \in 1..MaxSamples :
          [type |-> "sample", host |-> h, seq |-> n] \in Quiet
    /\ \A h \in Hosts, n \in 0..MaxSamples :
          [type |-> "host_done", host |-> h, samples |-> n] \in Quiet
    /\ [type |-> StopType] \in Events
    /\ Quiet \subseteq Events
BY LivePingAssumption DEF Quiet, Events

\* stop() sets _stop before it does anything else.
LEMMA StopOrder ==
    /\ Len(StopSteps) = 3
    /\ StopSteps[1] = "set" /\ StopSteps[2] = "inactive" /\ StopSteps[3] = "put"
BY DEF StopSteps

\* The first state.
LEMMA InitStopInv == Init => TypeOK /\ StopInv
<1> SUFFICES ASSUME Init PROVE TypeOK /\ StopInv
  OBVIOUS
<1> USE LivePingAssumption, StopOrder DEF Init, InitStream
<1>1. events \in Seq(Events) /\ events \in Seq(Quiet)
  OBVIOUS
<1>2. spc \in [Stoppers -> 1..Len(StopSteps) + 1]
  OBVIOUS
<1>3. got \in [Consumers -> Seq(Events)]
  OBVIOUS
<1>4. TypeOK
  <2>1. StreamTypeOK(Events)
    BY <1>1, <1>2, <1>3 DEF StreamTypeOK
  <2>2. seq \in [Hosts -> 0..MaxSamples]
    OBVIOUS
  <2> QED
    BY <2>1, <2>2 DEF TypeOK
<1>5. StopInv
  BY <1>1 DEF StopInv
<1> QED
  BY <1>4, <1>5

\* A ping thread's step keeps the types and StopInv.
LEMMA PingStopInv ==
    ASSUME TypeOK, StopInv, NEW h \in Hosts, PingLoop(h)
    PROVE  TypeOK' /\ StopInv'
<1> USE LivePingAssumption, EventTypes DEF TypeOK, StreamTypeOK, StopInv, Move
<1>1. CASE Loop(h)
  BY <1>1 DEF Loop, streamVars, SamplesLeft
<1>2. CASE Ping(h)
  BY <1>2 DEF Ping, consumerVars, Put
<1>3. CASE PingRaises(h)
  BY <1>3 DEF PingRaises, streamVars
<1>4. CASE Wait(h)
  BY <1>4 DEF Wait, streamVars
<1>5. CASE End(h)
  BY <1>5 DEF End, streamVars
<1>6. CASE HostDone(h)
  BY <1>6 DEF HostDone, consumerVars, Put, Samples
<1> QED
  BY <1>1, <1>2, <1>3, <1>4, <1>5, <1>6 DEF PingLoop

\* So does a step of stop().
LEMMA StopStopInv ==
    ASSUME TypeOK, StopInv, NEW s \in Stoppers, Stop(s), UNCHANGED pingVars
    PROVE  TypeOK' /\ StopInv'
<1> USE LivePingAssumption, EventTypes, StopOrder
    DEF TypeOK, StreamTypeOK, StopInv, AtStep, consumerVars, pingVars
<1>1. CASE SetStop(s)
  BY <1>1 DEF SetStop
<1>2. CASE SetInactive(s)
  <2>1. stop
    BY <1>2, spc[s] = 2 DEF SetInactive
  <2> USE <1>2, <2>1 DEF SetInactive
  <2>2. /\ spc' \in [Stoppers -> 1..Len(StopSteps) + 1]
        /\ active' \in BOOLEAN
        /\ stop'
    <3>1. spc' \in [Stoppers -> 1..Len(StopSteps) + 1]
      OBVIOUS
    <3>2. active' = FALSE
      OBVIOUS
    <3>3. stop'
      OBVIOUS
    <3> QED
      BY <3>1, <3>2, <3>3
  <2>3. TypeOK'
    BY <2>2
  <2>4. StopInv'
    BY <2>2
  <2> QED
    BY <2>3, <2>4
<1>3. CASE PutStopped(s)
  <2> USE <1>3 DEF PutStopped, Put
  <2>1. stop /\ stop'
    BY spc[s] = 3
  <2>2. TypeOK'
    OBVIOUS
  <2>3. StopInv'
    BY <2>1
  <2> QED
    BY <2>2, <2>3
<1> QED
  BY <1>1, <1>2, <1>3 DEF Stop

\* So does a step of a request.
LEMMA StreamStopInv ==
    ASSUME TypeOK, StopInv, NEW c \in Consumers, UNCHANGED pingVars,
           Open(c) \/ Stream(c) \/ HangUp(c)
    PROVE  TypeOK' /\ StopInv'
<1> USE LivePingAssumption, EventTypes
    DEF TypeOK, StreamTypeOK, StopInv, Goto, pingVars
<1>1. CASE Open(c)
  BY <1>1 DEF Open
<1>2. CASE ReadActive(c)
  BY <1>2 DEF ReadActive, MoreToCome
<1>3. CASE ReadEmpty(c)
  BY <1>3 DEF ReadEmpty, NothingLeft
<1>4. CASE Take(c)
  BY <1>4 DEF Take, Quiet
<1>5. CASE KeepAlive(c)
  BY <1>5 DEF KeepAlive, GivesUp
<1>6. CASE Resume(c)
  BY <1>6 DEF Resume
<1>7. CASE ReadDrained(c)
  BY <1>7 DEF ReadDrained
<1>8. CASE HangUp(c)
  BY <1>8 DEF HangUp
<1> QED
  BY <1>1, <1>2, <1>3, <1>4, <1>5, <1>6, <1>7, <1>8 DEF Stream

\* TypeOK and StopInv together are inductive.
LEMMA NextStopInv == TypeOK /\ StopInv /\ [Next]_vars => TypeOK' /\ StopInv'
<1> SUFFICES ASSUME TypeOK, StopInv, [Next]_vars PROVE TypeOK' /\ StopInv'
  OBVIOUS
<1>1. CASE UNCHANGED vars
  BY <1>1 DEF TypeOK, StreamTypeOK, StopInv, vars, streamVars, pingVars
<1>2. CASE Next
  BY <1>2, PingStopInv, StopStopInv, StreamStopInv DEF Next, Serve
<1> QED
  BY <1>1, <1>2

\* The types, and no ping past max_samples, for every value of the constants
\* (live.py:75).
THEOREM TypeCorrect == Spec => []TypeOK
<1>1. TypeOK /\ StopInv /\ [Next]_vars => TypeOK' /\ StopInv'
  BY NextStopInv
<1> QED
  BY InitStopInv, <1>1, PTL DEF Spec

\* No request is ended by the server before stop() is called, however many hosts
\* are done and however many requests compete for the events (live.py:101-109).
THEOREM StreamsOutliveHosts == Spec => []StopEndsStreams
<1>1. TypeOK /\ StopInv /\ [Next]_vars => TypeOK' /\ StopInv'
  BY NextStopInv
<1>2. StopInv => StopEndsStreams
  BY DEF StopInv, StopEndsStreams
<1> QED
  BY InitStopInv, <1>1, <1>2, PTL DEF Spec

-------------------------------------------------------------------------------
(* What the only request is given, host by host.                               *)

SamplesOnly(h, s) == \A i \in DOMAIN s : IsOf(h, s[i]) => s[i].type = "sample"

\* The events of host h are numbered, and host_done counts and closes them.
InOrder(h, s) ==
    \A i \in DOMAIN s : IsOf(h, s[i]) =>
        IF s[i].type = "sample"
        THEN s[i].seq = Cardinality(Before(h, s, i)) + 1
        ELSE /\ s[i].samples = Cardinality(Before(h, s, i))
             /\ \A j \in i + 1..Len(s) : ~IsOf(h, s[j])

\* A thread that is not gone has queued the samples it counts, and nothing else.
CountInv ==
    \A c \in Consumers, h \in Hosts : Lone(c) =>
        /\ InOrder(h, Log(c))
        /\ pc[h] # "gone" =>
               /\ SamplesOnly(h, Log(c))
               /\ seq[h] = Cardinality(Before(h, Log(c), Len(Log(c)) + 1))

\* The events of host h that s has behind its i-th place.
NoneAfter(h, s, i) == \A j \in i + 1..Len(s) : ~IsOf(h, s[j])
OneAfter(h, s, i) == \A j, k \in i + 1..Len(s) : IsOf(h, s[j]) /\ IsOf(h, s[k]) => j = k

\* Behind the end that was announced comes the event of a thread that was making a
\* ping, or about to report; then it reads _stop and the flag, which are set.
AfterInv ==
    /\ \A s \in Stoppers : spc[s] > 2 => ~active
    /\ \A c \in Consumers : Lone(c) =>
           \A i \in DOMAIN Log(c) : Log(c)[i].type = StopType =>
               /\ stop /\ ~active
               /\ \A h \in Hosts : /\ OneAfter(h, Log(c), i)
                                   /\ pc[h] \in {"ping", "last"} => NoneAfter(h, Log(c), i)

\* The log of the only request: an event put in the queue comes last, one that is
\* taken stays where it is.
LEMMA LogPut ==
    ASSUME TypeOK, NEW c \in Consumers, NEW e \in Events, Put(e), UNCHANGED got
    PROVE  Log(c) \in Seq(Events) /\ Log(c)' = Append(Log(c), e)
<1> DEFINE given == got[c]
<1>1. given \in Seq(Events) /\ events \in Seq(Events) /\ <<e>> \in Seq(Events)
  BY DEF TypeOK, StreamTypeOK
<1>2. events' = events \o <<e>> /\ given \o events \in Seq(Events)
  BY <1>1, AppendIsConcat DEF Put
<1> HIDE DEF given
<1>3. given \o (events \o <<e>>) = (given \o events) \o <<e>>
  BY <1>1, ConcatAssociative
<1>4. (given \o events) \o <<e>> = Append(given \o events, e)
  BY <1>2, AppendIsConcat
<1> QED
  BY <1>2, <1>3, <1>4 DEF Log, given

LEMMA LogTake ==
    ASSUME TypeOK, NEW c \in Consumers, Take(c)
    PROVE  Log(c)' = Log(c)
<1> DEFINE given == got[c]
           first == Head(events)
<1>1. /\ given \in Seq(Events) /\ events \in Seq(Events) /\ events # <<>>
      /\ first \in Events /\ Tail(events) \in Seq(Events) /\ <<first>> \in Seq(Events)
  BY DEF Take, TypeOK, StreamTypeOK
<1>2. got'[c] = Append(given, first) /\ events' = Tail(events)
  BY DEF Take, TypeOK, StreamTypeOK
<1> HIDE DEF given, first
<1>3. Append(given, first) = given \o <<first>>
  BY <1>1, AppendIsConcat
<1>4. (given \o <<first>>) \o Tail(events) = given \o (<<first>> \o Tail(events))
  BY <1>1, ConcatAssociative
<1>5. <<first>> \o Tail(events) = events
  BY <1>1 DEF first
<1> QED
  BY <1>2, <1>3, <1>4, <1>5 DEF Log, given

\* No request's step changes the log of the only one.
LEMMA StreamKeepsLog ==
    ASSUME TypeOK, NEW c \in Consumers, NEW d \in Consumers, Lone(c)',
           Open(d) \/ Stream(d) \/ HangUp(d)
    PROVE  Lone(c) /\ Log(c)' = Log(c) /\ UNCHANGED <<stop, active, spc>>
<1>1. cpc \in [Consumers -> {"new", "active", "empty", "get", "yield", "drained", "closed"}]
  BY DEF TypeOK, StreamTypeOK
<1>2. \A b \in Consumers : cpc'[b] = "new" => cpc[b] = "new"
  BY <1>1 DEF Open, Stream, HangUp, ReadActive, ReadEmpty, Take, KeepAlive, Resume,
              ReadDrained, Goto
<1>3. Lone(c)
  BY <1>2 DEF Lone
<1>4. UNCHANGED <<stop, active, spc>>
  BY DEF Open, Stream, HangUp, ReadActive, ReadEmpty, Take, KeepAlive, Resume, ReadDrained
<1>5. CASE Take(d)
  <2>1. d = c
    <3>1. cpc[d] = "get"
      BY <1>5 DEF Take, Goto
    <3> QED
      BY <1>3, <3>1 DEF Lone
  <2> QED
    BY <1>3, <1>4, <1>5, <2>1, LogTake
<1>6. CASE ~Take(d)
  <2>1. UNCHANGED <<events, got>>
    BY <1>6 DEF Open, Stream, HangUp, ReadActive, ReadEmpty, KeepAlive, Resume, ReadDrained
  <2> QED
    BY <1>3, <1>4, <2>1 DEF Log
<1> QED
  BY <1>5, <1>6

-------------------------------------------------------------------------------
(* A log that grows by one event.                                              *)

LEMMA BeforeIsFinite ==
    ASSUME NEW h, NEW s, NEW n \in Nat \ {0}
    PROVE  IsFiniteSet(Before(h, s, n)) /\ Cardinality(Before(h, s, n)) \in Nat
<1>1. Before(h, s, n) \in SUBSET (1..n - 1) /\ IsFiniteSet(1..n - 1)
  BY FS_Interval DEF Before
<1> QED
  BY <1>1, FS_Subset, FS_CardinalityType

LEMMA BeforeGrows ==
    ASSUME NEW h, NEW s \in Seq(Events), NEW e \in Events
    PROVE  /\ \A i \in 1..Len(s) + 1 : Before(h, Append(s, e), i) = Before(h, s, i)
           /\ Cardinality(Before(h, Append(s, e), Len(s) + 2))
                  = Cardinality(Before(h, s, Len(s) + 1)) + IF IsOf(h, e) THEN 1 ELSE 0
<1> DEFINE t == Append(s, e)
<1>1. /\ Len(s) \in Nat /\ Len(t) = Len(s) + 1 /\ t[Len(s) + 1] = e
      /\ \A i \in 1..Len(s) : t[i] = s[i]
  OBVIOUS
<1> HIDE DEF t
<1>2. ASSUME NEW i \in 1..Len(s) + 1 PROVE Before(h, t, i) = Before(h, s, i)
  BY <1>1 DEF Before
<1>3. Before(h, t, Len(s) + 2)
          = Before(h, s, Len(s) + 1) \cup (IF IsOf(h, e) THEN {Len(s) + 1} ELSE {})
  BY <1>1 DEF Before
<1>4. Len(s) + 1 \notin Before(h, s, Len(s) + 1)
  BY <1>1 DEF Before
<1>5. IsFiniteSet(Before(h, s, Len(s) + 1)) /\ Cardinality(Before(h, s, Len(s) + 1)) \in Nat
  BY <1>1, BeforeIsFinite
<1>6. Cardinality(Before(h, t, Len(s) + 2))
          = Cardinality(Before(h, s, Len(s) + 1)) + IF IsOf(h, e) THEN 1 ELSE 0
  <2>1. CASE IsOf(h, e)
    BY <1>3, <1>4, <1>5, <2>1, FS_AddElement
  <2>2. CASE ~IsOf(h, e)
    <3>1. Before(h, t, Len(s) + 2) = Before(h, s, Len(s) + 1)
      BY <1>3, <2>2
    <3> QED
      BY <1>5, <2>2, <3>1
  <2> QED
    BY <2>1, <2>2
<1> QED
  BY <1>2, <1>6 DEF t

\* An event with the next number, or the one that counts them, keeps the order.
LEMMA OrderGrows ==
    ASSUME NEW h, NEW s \in Seq(Events), NEW e \in Events, InOrder(h, s),
           IsOf(h, e) =>
               /\ SamplesOnly(h, s)
               /\ IF e.type = "sample"
                  THEN e.seq = Cardinality(Before(h, s, Len(s) + 1)) + 1
                  ELSE e.samples = Cardinality(Before(h, s, Len(s) + 1))
    PROVE  InOrder(h, Append(s, e))
<1> DEFINE t == Append(s, e)
<1>1. /\ Len(s) \in Nat /\ Len(t) = Len(s) + 1 /\ t[Len(s) + 1] = e
      /\ DOMAIN s = 1..Len(s) /\ DOMAIN t = 1..Len(s) + 1
      /\ \A i \in 1..Len(s) : t[i] = s[i]
  OBVIOUS
<1>2. \A i \in 1..Len(s) + 1 : Before(h, t, i) = Before(h, s, i)
  BY BeforeGrows
<1> HIDE DEF t
<1>3. ASSUME NEW i \in DOMAIN t, IsOf(h, t[i])
      PROVE  IF t[i].type = "sample"
             THEN t[i].seq = Cardinality(Before(h, t, i)) + 1
             ELSE /\ t[i].samples = Cardinality(Before(h, t, i))
                  /\ \A j \in i + 1..Len(t) : ~IsOf(h, t[j])
  <2>1. CASE i = Len(s) + 1
    <3>1. t[i] = e /\ i + 1..Len(t) = {} /\ Before(h, t, i) = Before(h, s, Len(s) + 1)
      BY <1>1, <1>2, <2>1
    <3> QED
      BY <1>3, <3>1
  <2>2. CASE i \in 1..Len(s)
    <3>1. i \in DOMAIN s /\ t[i] = s[i] /\ Before(h, t, i) = Before(h, s, i)
      BY <1>1, <1>2, <2>2
    <3>2. CASE s[i].type = "sample"
      BY <1>3, <3>1, <3>2 DEF InOrder
    <3>3. CASE s[i].type # "sample"
      <4>1. /\ s[i].samples = Cardinality(Before(h, s, i))
            /\ \A j \in i + 1..Len(s) : ~IsOf(h, s[j])
        BY <1>3, <3>1, <3>3 DEF InOrder
      <4>2. ~IsOf(h, e)
        BY <1>3, <3>1, <3>3 DEF SamplesOnly
      <4>3. ASSUME NEW j \in i + 1..Len(t) PROVE ~IsOf(h, t[j])
        <5>1. j = Len(s) + 1 \/ j \in i + 1..Len(s)
          BY <1>1, <2>2
        <5>2. j \in i + 1..Len(s) => t[j] = s[j]
          BY <1>1, <2>2
        <5> QED
          BY <1>1, <4>1, <4>2, <5>1, <5>2
      <4> QED
        BY <3>1, <3>3, <4>1, <4>3
    <3> QED
      BY <3>2, <3>3
  <2> QED
    BY <1>1, <2>1, <2>2
<1> QED
  BY <1>3 DEF InOrder, t

\* What comes behind the i-th place of a log that grows.
LEMMA AfterGrows ==
    ASSUME NEW h, NEW s \in Seq(Events), NEW e \in Events, NEW i \in 1..Len(s)
    PROVE  /\ NoneAfter(h, s, i) /\ ~IsOf(h, e) => NoneAfter(h, Append(s, e), i)
           /\ NoneAfter(h, s, i) => OneAfter(h, Append(s, e), i)
           /\ OneAfter(h, s, i) /\ ~IsOf(h, e) => OneAfter(h, Append(s, e), i)
<1> DEFINE t == Append(s, e)
<1>1. /\ Len(s) \in Nat /\ Len(t) = Len(s) + 1 /\ t[Len(s) + 1] = e
      /\ \A j \in 1..Len(s) : t[j] = s[j]
  OBVIOUS
<1> HIDE DEF t
<1>2. \A j \in i + 1..Len(t) : j = Len(s) + 1 \/ (j \in i + 1..Len(s) /\ t[j] = s[j])
  BY <1>1
<1>3. NoneAfter(h, s, i) /\ ~IsOf(h, e) => NoneAfter(h, t, i)
  BY <1>1, <1>2, Zenon DEF NoneAfter
<1>4. NoneAfter(h, s, i) => OneAfter(h, t, i)
  BY <1>1, <1>2, Zenon DEF NoneAfter, OneAfter
<1>5. OneAfter(h, s, i) /\ ~IsOf(h, e) => OneAfter(h, t, i)
  BY <1>1, <1>2, Zenon DEF OneAfter
<1> QED
  BY <1>3, <1>4, <1>5 DEF t

-------------------------------------------------------------------------------
(* CountInv.                                                                   *)

LEMMA InitCount == Init => CountInv
<1> SUFFICES ASSUME Init, NEW c \in Consumers, NEW h \in Hosts
             PROVE  /\ InOrder(h, Log(c)) /\ SamplesOnly(h, Log(c))
                    /\ seq[h] = Cardinality(Before(h, Log(c), Len(Log(c)) + 1))
  BY DEF CountInv
<1>1. Log(c) = <<>>
  BY DEF Init, InitStream, Log
<1>2. Before(h, <<>>, 1) = {}
  BY DEF Before
<1>3. seq[h] = 0
  BY DEF Init
<1> QED
  BY <1>1, <1>2, <1>3, FS_EmptySet DEF InOrder, SamplesOnly

\* A step that leaves the log and the numbers of the threads alone.
LEMMA CountStays ==
    ASSUME CountInv,
           \A c \in Consumers : Lone(c)' => Lone(c) /\ Log(c)' = Log(c),
           \A h \in Hosts : pc'[h] # "gone" => pc[h] # "gone" /\ seq'[h] = seq[h]
    PROVE  CountInv'
BY DEF CountInv

\* An event of a thread that counts itself, or all that went before.
LEMMA CountGrows ==
    ASSUME TypeOK, CountInv, NEW e \in Events, Put(e), UNCHANGED <<got, cpc>>,
           \A h \in Hosts : IsOf(h, e) =>
               /\ pc[h] # "gone"
               /\ IF e.type = "sample" THEN e.seq = seq[h] + 1 ELSE e.samples = seq[h],
           \A h \in Hosts : pc'[h] # "gone" =>
               /\ pc[h] # "gone"
               /\ IsOf(h, e) => e.type = "sample"
               /\ seq'[h] = seq[h] + IF IsOf(h, e) THEN 1 ELSE 0
    PROVE  CountInv'
<1> SUFFICES ASSUME NEW c \in Consumers, NEW h \in Hosts, Lone(c)'
             PROVE  /\ InOrder(h, Log(c)')
                    /\ pc'[h] # "gone" =>
                           /\ SamplesOnly(h, Log(c)')
                           /\ seq'[h] = Cardinality(Before(h, Log(c)', Len(Log(c)') + 1))
  BY DEF CountInv
<1> DEFINE s == Log(c)
<1>1. Lone(c)
  BY DEF Lone
<1>2. s \in Seq(Events) /\ Log(c)' = Append(s, e)
  BY LogPut
<1>3. InOrder(h, s)
  BY <1>1 DEF CountInv
<1>4. pc[h] # "gone" =>
          SamplesOnly(h, s) /\ seq[h] = Cardinality(Before(h, s, Len(s) + 1))
  BY <1>1 DEF CountInv
<1> HIDE DEF s
<1>5. InOrder(h, Append(s, e))
  BY <1>2, <1>3, <1>4, OrderGrows
<1>6. ASSUME pc'[h] # "gone"
      PROVE  /\ SamplesOnly(h, Append(s, e))
             /\ seq'[h] = Cardinality(Before(h, Append(s, e), Len(Append(s, e)) + 1))
  <2>1. /\ DOMAIN s = 1..Len(s) /\ DOMAIN Append(s, e) = 1..Len(s) + 1
        /\ Len(Append(s, e)) = Len(s) + 1 /\ Append(s, e)[Len(s) + 1] = e
        /\ Len(s) \in Nat /\ \A i \in 1..Len(s) : Append(s, e)[i] = s[i]
    BY <1>2
  <2>2. SamplesOnly(h, Append(s, e))
    BY <1>4, <1>6, <2>1 DEF SamplesOnly
  <2>3. Len(Append(s, e)) + 1 = Len(s) + 2
    BY <2>1
  <2>4. Cardinality(Before(h, Append(s, e), Len(s) + 2))
            = Cardinality(Before(h, s, Len(s) + 1)) + IF IsOf(h, e) THEN 1 ELSE 0
    BY <1>2, BeforeGrows
  <2> QED
    BY <1>4, <1>6, <2>2, <2>3, <2>4
<1> QED
  BY <1>2, <1>5, <1>6

LEMMA PingCounts ==
    ASSUME TypeOK, StopInv, CountInv, NEW g \in Hosts, PingLoop(g)
    PROVE  CountInv'
<1>1. pc \in [Hosts -> {"loop", "ping", "wait", "end", "last", "gone"}]
      /\ seq \in [Hosts -> 0..MaxSamples]
  BY DEF TypeOK
<1>2. CASE Ping(g)
  <2> DEFINE e == [type |-> "sample", host |-> g, seq |-> seq[g] + 1]
  <2>1. /\ pc[g] = "ping" /\ pc' = [pc EXCEPT ![g] = "wait"]
        /\ seq' = [seq EXCEPT ![g] = seq[g] + 1]
        /\ Put(e) /\ UNCHANGED <<got, cpc>>
    BY <1>1, <1>2 DEF Ping, Move, consumerVars
  <2>2. e \in Events
    <3>1. seq[g] + 1 \in 1..MaxSamples
      BY <1>1, <2>1, LivePingAssumption DEF StopInv
    <3> QED
      BY <3>1 DEF Events
  <2>3. \A h \in Hosts : IsOf(h, e) <=> h = g
    BY LivePingAssumption DEF IsOf
  <2>4. e.type = "sample" /\ e.seq = seq[g] + 1
    OBVIOUS
  <2> HIDE DEF e
  <2>5. \A h \in Hosts : IsOf(h, e) =>
            /\ pc[h] # "gone"
            /\ IF e.type = "sample" THEN e.seq = seq[h] + 1 ELSE e.samples = seq[h]
    BY <2>1, <2>3, <2>4
  <2>6. \A h \in Hosts : pc'[h] # "gone" =>
            /\ pc[h] # "gone"
            /\ IsOf(h, e) => e.type = "sample"
            /\ seq'[h] = seq[h] + IF IsOf(h, e) THEN 1 ELSE 0
    BY <1>1, <2>1, <2>3, <2>4
  <2> QED
    BY <2>1, <2>2, <2>5, <2>6, CountGrows
<1>3. CASE HostDone(g)
  <2> DEFINE e == [type |-> "host_done", host |-> g, samples |-> seq[g]]
  <2>1. /\ pc[g] = "last" /\ pc' = [pc EXCEPT ![g] = "gone"] /\ seq' = seq
        /\ Put(e) /\ UNCHANGED <<got, cpc>>
    BY <1>3 DEF HostDone, Move, Samples, consumerVars
  <2>2. e \in Events
    BY <1>1 DEF Events
  <2>3. \A h \in Hosts : IsOf(h, e) <=> h = g
    BY LivePingAssumption DEF IsOf
  <2>4. e.type = "host_done" /\ e.samples = seq[g]
    OBVIOUS
  <2> HIDE DEF e
  <2>5. \A h \in Hosts : IsOf(h, e) =>
            /\ pc[h] # "gone"
            /\ IF e.type = "sample" THEN e.seq = seq[h] + 1 ELSE e.samples = seq[h]
    BY <2>1, <2>3, <2>4
  <2>6. \A h \in Hosts : pc'[h] # "gone" =>
            /\ pc[h] # "gone"
            /\ IsOf(h, e) => e.type = "sample"
            /\ seq'[h] = seq[h] + IF IsOf(h, e) THEN 1 ELSE 0
    BY <1>1, <2>1, <2>3
  <2> QED
    BY <2>1, <2>2, <2>5, <2>6, CountGrows
<1>4. CASE Loop(g) \/ PingRaises(g) \/ Wait(g) \/ End(g)
  <2>1. UNCHANGED <<events, got, cpc, seq>> /\ \A h \in Hosts : pc'[h] # "gone" => pc[h] # "gone"
    BY <1>1, <1>4 DEF Loop, PingRaises, Wait, End, Move, streamVars
  <2>2. \A c \in Consumers : Lone(c)' => Lone(c) /\ Log(c)' = Log(c)
    BY <2>1 DEF Lone, Log
  <2> QED
    BY <2>1, <2>2, CountStays
<1> QED
  BY <1>2, <1>3, <1>4 DEF PingLoop

LEMMA ServeCounts ==
    ASSUME TypeOK, CountInv, Serve, UNCHANGED pingVars
    PROVE  CountInv'
<1>1. pc' = pc /\ seq' = seq /\ seq \in [Hosts -> 0..MaxSamples]
  BY DEF pingVars, TypeOK
<1>2. CASE \E s \in Stoppers : SetStop(s) \/ SetInactive(s)
  <2>1. UNCHANGED <<events, got, cpc>>
    BY <1>2 DEF SetStop, SetInactive, consumerVars
  <2>2. \A c \in Consumers : Lone(c)' => Lone(c) /\ Log(c)' = Log(c)
    BY <2>1 DEF Lone, Log
  <2> QED
    BY <1>1, <2>2, CountStays
<1>3. CASE \E s \in Stoppers : PutStopped(s)
  <2> DEFINE e == [type |-> StopType]
  <2>1. Put(e) /\ UNCHANGED <<got, cpc>>
    BY <1>3 DEF PutStopped, consumerVars
  <2>2. e \in Events /\ \A h \in Hosts : ~IsOf(h, e)
    BY EventTypes DEF IsOf
  <2> HIDE DEF e
  <2>3. \A h \in Hosts : seq'[h] = seq[h] + IF IsOf(h, e) THEN 1 ELSE 0
    BY <1>1, <2>2
  <2> QED
    BY <1>1, <2>1, <2>2, <2>3, CountGrows
<1>4. CASE \E d \in Consumers : Open(d) \/ Stream(d) \/ HangUp(d)
  BY <1>1, <1>4, StreamKeepsLog, CountStays
<1> QED
  BY <1>2, <1>3, <1>4 DEF Serve, Stop

LEMMA NextCounts == TypeOK /\ StopInv /\ CountInv /\ [Next]_vars => CountInv'
<1> SUFFICES ASSUME TypeOK, StopInv, CountInv, [Next]_vars PROVE CountInv'
  OBVIOUS
<1>1. CASE UNCHANGED vars
  BY <1>1 DEF vars, streamVars, pingVars, CountInv, Lone, Log
<1> QED
  BY <1>1, PingCounts, ServeCounts DEF Next

\* host_done counts what the request was given (live.py:73-99), for any number of
\* hosts and samples, and any moment at which stop() interrupts them.
THEOREM SamplesAreCounted == Spec => []CountsAgree
<1>1. TypeOK /\ CountInv => CountsAgree
  <2> SUFFICES ASSUME TypeOK, CountInv, NEW c \in Consumers, NEW h \in Hosts, Lone(c),
                      NEW i \in DOMAIN got[c], IsOf(h, got[c][i])
               PROVE  IF got[c][i].type = "sample"
                      THEN got[c][i].seq = Cardinality(Before(h, got[c], i)) + 1
                      ELSE /\ got[c][i].samples = Cardinality(Before(h, got[c], i))
                           /\ \A j \in i + 1..Len(got[c]) : ~IsOf(h, got[c][j])
    BY DEF CountsAgree
  <2> DEFINE given == got[c]
             s == Log(c)
  <2>1. given \in Seq(Events) /\ events \in Seq(Events) /\ s = given \o events
    BY DEF TypeOK, StreamTypeOK, Log
  <2>2. InOrder(h, s)
    BY DEF CountInv
  <2>3. i \in DOMAIN given /\ IsOf(h, given[i])
    OBVIOUS
  <2> HIDE DEF given, s
  <2>4. /\ DOMAIN given = 1..Len(given) /\ DOMAIN s = 1..Len(s) /\ Len(given) <= Len(s)
        /\ Len(given) \in Nat /\ Len(s) \in Nat /\ \A j \in 1..Len(given) : s[j] = given[j]
    BY <2>1
  <2>5. i \in DOMAIN s /\ s[i] = given[i] /\ Before(h, s, i) = Before(h, given, i)
    BY <2>3, <2>4 DEF Before
  <2>6. \A j \in i + 1..Len(given) : j \in i + 1..Len(s) /\ s[j] = given[j]
    BY <2>3, <2>4
  <2>7. IF given[i].type = "sample"
        THEN given[i].seq = Cardinality(Before(h, given, i)) + 1
        ELSE /\ given[i].samples = Cardinality(Before(h, given, i))
             /\ \A j \in i + 1..Len(given) : ~IsOf(h, given[j])
    BY <2>2, <2>3, <2>5, <2>6 DEF InOrder
  <2> QED
    BY <2>7 DEF given
<1>2. TypeOK /\ StopInv /\ [Next]_vars => TypeOK' /\ StopInv'
  BY NextStopInv
<1> QED
  BY InitStopInv, InitCount, NextCounts, <1>1, <1>2, PTL DEF Spec

-------------------------------------------------------------------------------
(* AfterInv.                                                                   *)

LEMMA InitAfter == Init => AfterInv
<1> SUFFICES ASSUME Init PROVE AfterInv
  OBVIOUS
<1>1. \A s \in Stoppers : spc[s] = 1
  BY DEF Init, InitStream
<1>2. ASSUME NEW c \in Consumers PROVE Log(c) = <<>>
  BY DEF Init, InitStream, Log
<1> QED
  BY <1>1, <1>2 DEF AfterInv

\* A step that leaves the log alone: behind the end, no thread turns to a ping or to
\* its report.
LEMMA AfterStays ==
    ASSUME AfterInv,
           \A c \in Consumers : Lone(c)' => Lone(c) /\ Log(c)' = Log(c),
           stop => stop', ~active => ~active',
           \A s \in Stoppers : spc'[s] > 2 => ~active',
           \A h \in Hosts : pc'[h] \in {"ping", "last"} =>
               pc[h] \in {"ping", "last"} \/ ~stop \/ active
    PROVE  AfterInv'
BY DEF AfterInv

\* An event of a thread that is then done with it, or the end, which stop() has
\* prepared.
LEMMA AfterPuts ==
    ASSUME TypeOK, AfterInv, NEW e \in Events, Put(e), UNCHANGED <<got, cpc, stop, active>>,
           e.type = StopType => stop /\ ~active,
           \A s \in Stoppers : spc'[s] > 2 => ~active,
           \A h \in Hosts : IsOf(h, e) => pc[h] \in {"ping", "last"},
           \A h \in Hosts : pc'[h] \in {"ping", "last"} =>
               pc[h] \in {"ping", "last"} /\ ~IsOf(h, e)
    PROVE  AfterInv'
<1>1. ASSUME NEW c \in Consumers, Lone(c)', NEW i \in DOMAIN Log(c)',
             Log(c)'[i].type = StopType
      PROVE  /\ stop' /\ ~active'
             /\ \A h \in Hosts : /\ OneAfter(h, Log(c)', i)
                                 /\ pc'[h] \in {"ping", "last"} => NoneAfter(h, Log(c)', i)
  <2> DEFINE s == Log(c)
  <2>1. Lone(c)
    BY <1>1 DEF Lone
  <2>2. s \in Seq(Events) /\ Log(c)' = Append(s, e)
    BY LogPut
  <2>3. \A j \in DOMAIN s : s[j].type = StopType =>
            /\ stop /\ ~active
            /\ \A h \in Hosts : /\ OneAfter(h, s, j)
                                /\ pc[h] \in {"ping", "last"} => NoneAfter(h, s, j)
    BY <2>1 DEF AfterInv
  <2> HIDE DEF s
  <2>4. /\ DOMAIN s = 1..Len(s) /\ DOMAIN Append(s, e) = 1..Len(s) + 1
        /\ Len(Append(s, e)) = Len(s) + 1 /\ Append(s, e)[Len(s) + 1] = e
        /\ Len(s) \in Nat /\ \A j \in 1..Len(s) : Append(s, e)[j] = s[j]
    BY <2>2
  <2>5. CASE i = Len(s) + 1
    <3>1. e.type = StopType /\ i + 1..Len(Append(s, e)) = {}
      BY <1>1, <2>2, <2>4, <2>5
    <3> QED
      BY <2>2, <3>1 DEF OneAfter, NoneAfter
  <2>6. CASE i \in 1..Len(s)
    <3>1. s[i].type = StopType
      BY <1>1, <2>2, <2>4, <2>6
    <3>2. /\ stop /\ ~active
          /\ \A h \in Hosts : /\ OneAfter(h, s, i)
                              /\ pc[h] \in {"ping", "last"} => NoneAfter(h, s, i)
      BY <2>3, <2>4, <2>6, <3>1
    <3>3. \A h \in Hosts :
              /\ NoneAfter(h, s, i) /\ ~IsOf(h, e) => NoneAfter(h, Append(s, e), i)
              /\ NoneAfter(h, s, i) => OneAfter(h, Append(s, e), i)
              /\ OneAfter(h, s, i) /\ ~IsOf(h, e) => OneAfter(h, Append(s, e), i)
      BY <2>2, <2>6, AfterGrows
    <3> QED
      BY <2>2, <3>2, <3>3
  <2> QED
    BY <1>1, <2>2, <2>4, <2>5, <2>6
<1> QED
  BY <1>1 DEF AfterInv

LEMMA PingAfter ==
    ASSUME TypeOK, StopInv, AfterInv, NEW g \in Hosts, PingLoop(g)
    PROVE  AfterInv'
<1>1. pc \in [Hosts -> {"loop", "ping", "wait", "end", "last", "gone"}]
      /\ seq \in [Hosts -> 0..MaxSamples]
  BY DEF TypeOK
<1>2. \A s \in Stoppers : spc[s] > 2 => ~active
  BY DEF AfterInv
<1>3. ASSUME NEW e \in Events, Put(e), e.type # StopType, e.host = g,
             pc[g] \in {"ping", "last"}, NEW to \in {"wait", "gone"},
             pc' = [pc EXCEPT ![g] = to], UNCHANGED <<got, cpc, stop, active, spc>>
      PROVE  AfterInv'
  <2>1. \A h \in Hosts : IsOf(h, e) <=> h = g
    BY <1>3 DEF IsOf
  <2>2. \A h \in Hosts : pc'[h] \in {"ping", "last"} =>
            pc[h] \in {"ping", "last"} /\ ~IsOf(h, e)
    BY <1>1, <1>3, <2>1
  <2>3. \A s \in Stoppers : spc'[s] > 2 => ~active
    BY <1>2, <1>3
  <2> QED
    BY <1>3, <2>1, <2>2, <2>3, AfterPuts
<1>4. CASE Ping(g)
  <2> DEFINE e == [type |-> "sample", host |-> g, seq |-> seq[g] + 1]
  <2>1. /\ pc[g] = "ping" /\ pc' = [pc EXCEPT ![g] = "wait"]
        /\ Put(e) /\ UNCHANGED <<got, cpc, stop, active, spc>>
    BY <1>1, <1>4 DEF Ping, Move, consumerVars
  <2>2. e \in Events
    <3>1. seq[g] + 1 \in 1..MaxSamples
      BY <1>1, <2>1, LivePingAssumption DEF StopInv
    <3> QED
      BY <3>1 DEF Events
  <2>3. e.type # StopType /\ e.host = g
    BY LivePingAssumption
  <2> HIDE DEF e
  <2> QED
    BY <1>3, <2>1, <2>2, <2>3
<1>5. CASE HostDone(g)
  <2> DEFINE e == [type |-> "host_done", host |-> g, samples |-> seq[g]]
  <2>1. /\ pc[g] = "last" /\ pc' = [pc EXCEPT ![g] = "gone"]
        /\ Put(e) /\ UNCHANGED <<got, cpc, stop, active, spc>>
    BY <1>5 DEF HostDone, Move, Samples, consumerVars
  <2>2. e \in Events
    BY <1>1 DEF Events
  <2>3. e.type # StopType /\ e.host = g
    BY LivePingAssumption
  <2> HIDE DEF e
  <2> QED
    BY <1>3, <2>1, <2>2, <2>3
<1>6. CASE Loop(g) \/ PingRaises(g) \/ Wait(g) \/ End(g)
  <2>1. UNCHANGED <<events, got, cpc, stop, active, spc>>
    BY <1>6 DEF Loop, PingRaises, Wait, End, streamVars
  <2>2. \A h \in Hosts : pc'[h] \in {"ping", "last"} =>
            pc[h] \in {"ping", "last"} \/ ~stop \/ active
    BY <1>1, <1>6 DEF Loop, PingRaises, Wait, End, Move
  <2>3. \A c \in Consumers : Lone(c)' => Lone(c) /\ Log(c)' = Log(c)
    BY <2>1 DEF Lone, Log
  <2>4. \A s \in Stoppers : spc'[s] > 2 => ~active'
    BY <1>2, <2>1
  <2> QED
    BY <2>1, <2>2, <2>3, <2>4, AfterStays
<1> QED
  BY <1>4, <1>5, <1>6 DEF PingLoop

LEMMA ServeAfter ==
    ASSUME TypeOK, StopInv, AfterInv, Serve, UNCHANGED pingVars
    PROVE  AfterInv'
<1>1. pc' = pc
  BY DEF pingVars
<1>2. spc \in [Stoppers -> 1..4]
  BY StopOrder DEF TypeOK, StreamTypeOK
<1>3. \A s \in Stoppers : (spc[s] > 2 => ~active) /\ (spc[s] > 1 => stop)
  BY DEF AfterInv, StopInv
<1>4. CASE \E s \in Stoppers : SetStop(s) \/ SetInactive(s)
  <2>1. PICK s \in Stoppers : SetStop(s) \/ SetInactive(s)
    BY <1>4
  <2>2. /\ UNCHANGED <<events, got, cpc>> /\ (stop => stop') /\ (~active => ~active')
        /\ spc' = [spc EXCEPT ![s] = spc[s] + 1]
    BY <2>1 DEF SetStop, SetInactive, AtStep, consumerVars
  <2>3. (spc[s] = 1 /\ UNCHANGED active) \/ ~active'
    BY <1>2, <2>1, StopOrder DEF SetStop, SetInactive, AtStep
  <2>4. \A t \in Stoppers : spc'[t] > 2 => ~active'
    <3>1. CASE spc[s] = 1 /\ UNCHANGED active
      BY <1>2, <1>3, <2>2, <3>1
    <3>2. CASE ~active'
      BY <3>2
    <3> QED
      BY <2>3, <3>1, <3>2
  <2>5. \A c \in Consumers : Lone(c)' => Lone(c) /\ Log(c)' = Log(c)
    BY <2>2 DEF Lone, Log
  <2> QED
    BY <1>1, <2>2, <2>4, <2>5, AfterStays
<1>5. CASE \E s \in Stoppers : PutStopped(s)
  <2> DEFINE e == [type |-> StopType]
  <2>1. PICK s \in Stoppers : PutStopped(s)
    BY <1>5
  <2>2. /\ Put(e) /\ UNCHANGED <<got, cpc, stop, active>>
        /\ spc[s] = 3 /\ spc' = [spc EXCEPT ![s] = spc[s] + 1]
    BY <1>2, <2>1, StopOrder DEF PutStopped, AtStep, consumerVars
  <2>3. e \in Events /\ \A h \in Hosts : ~IsOf(h, e)
    BY EventTypes DEF IsOf
  <2>4. stop /\ ~active
    BY <1>3, <2>2
  <2> HIDE DEF e
  <2> QED
    BY <1>1, <2>2, <2>3, <2>4, AfterPuts
<1>6. CASE \E d \in Consumers : Open(d) \/ Stream(d) \/ HangUp(d)
  <2>1. PICK d \in Consumers : Open(d) \/ Stream(d) \/ HangUp(d)
    BY <1>6
  <2>2. UNCHANGED <<stop, active, spc>>
    BY <2>1 DEF Open, Stream, HangUp, ReadActive, ReadEmpty, Take, KeepAlive, Resume,
                ReadDrained
  <2>3. \A c \in Consumers : Lone(c)' => Lone(c) /\ Log(c)' = Log(c)
    BY <2>1, StreamKeepsLog
  <2>4. \A s \in Stoppers : spc'[s] > 2 => ~active'
    BY <1>3, <2>2
  <2> QED
    BY <1>1, <2>2, <2>3, <2>4, AfterStays
<1> QED
  BY <1>4, <1>5, <1>6 DEF Serve, Stop

LEMMA NextAfter == TypeOK /\ StopInv /\ AfterInv /\ [Next]_vars => AfterInv'
<1> SUFFICES ASSUME TypeOK, StopInv, AfterInv, [Next]_vars PROVE AfterInv'
  OBVIOUS
<1>1. CASE UNCHANGED vars
  BY <1>1 DEF vars, streamVars, pingVars, AfterInv, Lone, Log
<1> QED
  BY <1>1, PingAfter, ServeAfter DEF Next

\* A thread can no more than finish what it was at when the end is announced
\* (live.py:68-71, 75, 96-98), for any number of hosts and of calls of stop().
THEOREM OneEventAfterDone == Spec => []AtMostOneEventAfterDone
<1>1. AfterInv => AtMostOneEventAfterDone
  BY DEF AfterInv, AtMostOneEventAfterDone, OneAfter
<1>2. TypeOK /\ StopInv /\ [Next]_vars => TypeOK' /\ StopInv'
  BY NextStopInv
<1> QED
  BY InitStopInv, InitAfter, NextAfter, <1>1, <1>2, PTL DEF Spec

-------------------------------------------------------------------------------
(* The session implements the stream its pages were promised.                  *)

\* The step of the promise an event is.
LEMMA ReportIsStep ==
    ASSUME NEW e \in Events, Put(e), UNCHANGED <<active, stop, consumerVars>>,
           e.type \in Finals => ~active,
           ~active => e.type \in Finals \/ stop
    PROVE  Promise!Next
<1>1. Promise!Report(e)
  BY DEF Promise!Report, Put, consumerVars
<1> QED
  BY <1>1 DEF Promise!Next

\* A thread's pings are reports, and no endings.
LEMMA PingRefines ==
    ASSUME TypeOK, StopInv, EndInv, NEW h \in Hosts, PingLoop(h)
    PROVE  [Promise!Next]_Promise!vars /\ EndInv'
<1> USE DEF Move, streamVars
<1>1. ASSUME UNCHANGED streamVars PROVE [Promise!Next]_Promise!vars /\ EndInv'
  BY <1>1 DEF Promise!vars, EndInv
<1>2. ASSUME NEW e \in Events, e.type # StopType, Put(e),
             UNCHANGED <<active, stop, consumerVars, spc>>
      PROVE  [Promise!Next]_Promise!vars /\ EndInv'
  <2>1. ~active => stop
    BY DEF StopInv
  <2>2. Promise!Next
    BY <1>2, <2>1, ReportIsStep, LivePingAssumption
  <2> QED
    BY <1>2, <2>2 DEF EndInv, consumerVars
<1>3. CASE Loop(h)
  BY <1>1, <1>3 DEF Loop
<1>4. CASE Ping(h)
  <2>1. seq'[h] \in 1..MaxSamples
    BY <1>4, LivePingAssumption DEF Ping, TypeOK, StopInv
  <2> DEFINE e == [type |-> "sample", host |-> h, seq |-> seq'[h]]
  <2>2. e \in Events /\ e.type # StopType
    BY <2>1, LivePingAssumption DEF Events
  <2> QED
    BY <1>2, <1>4, <2>2 DEF Ping
<1>5. CASE PingRaises(h)
  BY <1>1, <1>5 DEF PingRaises
<1>6. CASE Wait(h)
  BY <1>1, <1>6 DEF Wait
<1>7. CASE End(h)
  BY <1>1, <1>7 DEF End
<1>8. CASE HostDone(h)
  <2> DEFINE e == [type |-> "host_done", host |-> h, samples |-> Samples(h)]
  <2>1. e \in Events /\ e.type # StopType
    BY LivePingAssumption DEF Events, TypeOK, Samples
  <2> QED
    BY <1>2, <1>8, <2>1 DEF HostDone
<1> QED
  BY <1>3, <1>4, <1>5, <1>6, <1>7, <1>8 DEF PingLoop

\* stop() asks for the end, makes it, and announces it.
LEMMA StopRefines ==
    ASSUME TypeOK, StopInv, EndInv, NEW s \in Stoppers, Stop(s)
    PROVE  [Promise!Next]_Promise!vars /\ EndInv'
<1> USE StopOrder DEF TypeOK, StreamTypeOK, AtStep, consumerVars
<1>1. CASE SetStop(s)
  <2>1. Promise!Stop
    BY <1>1 DEF SetStop, Promise!Stop
  <2>2. EndInv'
    BY <1>1, spc[s] = 1 DEF SetStop, EndInv
  <2> QED
    BY <2>1, <2>2 DEF Promise!Next
<1>2. CASE SetInactive(s)
  <2>1. stop
    BY <1>2, spc[s] = 2 DEF SetInactive, StopInv
  <2>2. Promise!End
    BY <1>2, <2>1 DEF SetInactive, Promise!End
  <2>3. EndInv'
    BY <1>2 DEF SetInactive, EndInv
  <2> QED
    BY <2>2, <2>3 DEF Promise!Next
<1>3. CASE PutStopped(s)
  <2>1. ~active
    BY <1>3, spc[s] = 3 DEF PutStopped, EndInv
  <2>2. Promise!Next
    BY <1>3, <2>1, ReportIsStep, EventTypes, LivePingAssumption DEF PutStopped
  <2>3. EndInv'
    BY <1>3, <2>1 DEF PutStopped, EndInv
  <2> QED
    BY <2>2, <2>3
<1> QED
  BY <1>1, <1>2, <1>3 DEF Stop

\* A request is given the next event, or ends as the promise allows.
LEMMA StreamRefines ==
    ASSUME TypeOK, StopInv, EndInv, NEW c \in Consumers,
           Open(c) \/ Stream(c) \/ HangUp(c)
    PROVE  [Promise!Next]_Promise!vars /\ EndInv'
<1> DEFINE closed == {d \in Consumers : cpc[d] = "closed"} \ hungUp
<1> USE DEF TypeOK, StreamTypeOK, Goto
<1>1. ASSUME cpc[c] # "closed", cpc' = [cpc EXCEPT ![c] = "closed"], UNCHANGED hungUp
      PROVE  closed' = closed \cup {c} /\ c \notin closed
  BY <1>1 DEF EndInv
<1>2. ASSUME NEW at, at # "closed", cpc[c] # "closed", cpc' = [cpc EXCEPT ![c] = at],
             UNCHANGED hungUp
      PROVE  closed' = closed /\ c \notin closed
  BY <1>2 DEF EndInv
<1>3. ASSUME NEW at, cpc[c] # "closed", cpc' = [cpc EXCEPT ![c] = at], UNCHANGED hungUp,
             UNCHANGED <<active, spc>>
      PROVE  EndInv'
  BY <1>3 DEF EndInv
<1>4. ASSUME NEW at, at # "closed", cpc[c] # "closed", cpc' = [cpc EXCEPT ![c] = at],
             UNCHANGED <<events, active, stop, hungUp, got, spc>>
      PROVE  [Promise!Next]_Promise!vars /\ EndInv'
  BY <1>2, <1>3, <1>4 DEF Promise!vars
<1>5. ASSUME cpc[c] # "closed", cpc' = [cpc EXCEPT ![c] = "closed"], events = <<>>,
             ~active \/ stop, UNCHANGED <<events, active, stop, hungUp, got, spc>>
      PROVE  [Promise!Next]_Promise!vars /\ EndInv'
  <2>1. Promise!Close(c)
    BY <1>1, <1>5 DEF Promise!Close
  <2> QED
    BY <1>3, <1>5, <2>1 DEF Promise!Next
<1>6. CASE Open(c)
  BY <1>4, <1>6 DEF Open
<1>7. CASE ReadActive(c)
  BY <1>4, <1>7 DEF ReadActive
<1>8. CASE ReadEmpty(c)
  <2>1. cpc[c] = "empty" /\ (~active \/ stop)
    BY <1>8 DEF ReadEmpty, StopInv, EndInv
  <2>2. CASE NothingLeft
    BY <1>5, <1>8, <2>1, <2>2 DEF ReadEmpty, NothingLeft
  <2>3. CASE ~NothingLeft
    BY <1>4, <1>8, <2>1, <2>3 DEF ReadEmpty
  <2> QED
    BY <2>2, <2>3
<1>9. CASE Take(c)
  <2>1. cpc[c] = "get" /\ events # <<>> /\ UNCHANGED <<active, stop, hungUp, spc>>
    BY <1>9 DEF Take
  <2>2. PICK at : /\ cpc' = [cpc EXCEPT ![c] = at]
                  /\ at = IF Head(events).type \in Finals THEN "closed" ELSE "yield"
    BY <1>9 DEF Take
  <2>3. closed' = IF Head(events).type \in Finals THEN closed \cup {c} ELSE closed
    BY <1>1, <1>2, <2>1, <2>2
  <2>4. c \notin closed
    BY <2>1
  <2>5. Promise!Deliver(c)
    BY <1>9, <2>1, <2>3, <2>4 DEF Take, Promise!Deliver
  <2> QED
    BY <1>3, <2>1, <2>2, <2>5 DEF Promise!Next
<1>10. CASE KeepAlive(c)
  BY <1>4, <1>10 DEF KeepAlive
<1>11. CASE Resume(c)
  BY <1>4, <1>11 DEF Resume
<1>12. CASE ReadDrained(c)
  <2>1. cpc[c] = "drained" /\ stop
    BY <1>12 DEF ReadDrained, StopInv, EndInv
  <2>2. CASE events = <<>>
    BY <1>5, <1>12, <2>1, <2>2 DEF ReadDrained
  <2>3. CASE events # <<>>
    BY <1>4, <1>12, <2>1, <2>3 DEF ReadDrained
  <2> QED
    BY <2>2, <2>3
<1>13. CASE HangUp(c)
  <2>1. closed' = closed
    BY <1>13 DEF HangUp
  <2>2. EndInv'
    BY <1>13 DEF HangUp, EndInv
  <2> QED
    BY <1>13, <2>1, <2>2 DEF HangUp, Promise!vars
<1> QED
  BY <1>6, <1>7, <1>8, <1>9, <1>10, <1>11, <1>12, <1>13 DEF Stream

\* For every number of hosts, samples, requests and calls of stop(): each page is
\* given events nobody else is, in their order, and its stream ends as promised
\* (live.py:68-109).
THEOREM Refinement == Spec => ImplementsStream
<1> SUFFICES Spec => Promise!Spec
  BY DEF ImplementsStream
<1>1. Init => TypeOK /\ StopInv /\ EndInv
  <2>1. Init => EndInv
    BY DEF Init, InitStream, EndInv
  <2> QED
    BY <2>1, InitStopInv
<1>2. Init => Promise!Init
  BY DEF Init, InitStream, Promise!Init
<1>3. TypeOK /\ StopInv /\ EndInv /\ [Next]_vars
        => /\ TypeOK' /\ StopInv' /\ EndInv'
           /\ [Promise!Next]_Promise!vars
  <2> SUFFICES ASSUME TypeOK, StopInv, EndInv, [Next]_vars
               PROVE  [Promise!Next]_Promise!vars /\ EndInv'
    BY NextStopInv
  <2>1. CASE UNCHANGED vars
    BY <2>1 DEF vars, streamVars, Promise!vars, EndInv
  <2> QED
    BY <2>1, PingRefines, StopRefines, StreamRefines DEF Next, Serve
<1> QED
  BY <1>1, <1>2, <1>3, PTL DEF Spec, Promise!Spec

===============================================================================
