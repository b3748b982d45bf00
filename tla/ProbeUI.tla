-------------------------------- MODULE ProbeUI --------------------------------
(* The display's process, ndp/ui/app.py: the engine's thread, the main loop with *)
(* its button queue, the ping worker and the web server's handlers over one      *)
(* state and one lock.  What a refresh finds is in ProbeEngine; here it counts    *)
(* that it holds the lock throughout, and that the first one puts the engine's    *)
(* own ProbeState in the place of the one the display began with.  The wizard on  *)
(* the DISCOVER screen is the abstract UpDownRun, which the session implements.   *)
EXTENDS Integers, Sequences

CONSTANTS
    Worker,         \* the thread ndp-ping
    Web,            \* requests that run the ping suite
    MaxPresses,     \* bound on the buttons pressed
    MaxRequests     \* bound on the requests made

ASSUME UIAssumption ==
    Worker \notin Web /\ MaxPresses \in Nat /\ MaxRequests \in Nat

VARIABLES
    current,    \* the ProbeState that is shown: the "first" or the "engine"'s
    ping,       \* per ProbeState: the suite is shown as running; it shows results
    file,       \* the file of the adhoc host exists
    epc,        \* where the engine's thread is
    mpc,        \* where the main loop is
    apc,        \* per runner of the suite: where it is
    queue,      \* buttons pressed and not handled yet
    screen,
    presses, requests,
    stage, confirmed, outcome,  \* the wizard
    ending      \* its thread is over with the run and has not ended yet

wizard == <<stage, confirmed, outcome, ending>>
bounds == <<presses, requests>>
vars == <<current, ping, file, epc, mpc, apc, queue, screen, bounds, wizard>>

Wizard == INSTANCE UpDownRun

Buttons == {"PREVIOUS", "NEXT", "SELECT"}
Screens == <<"HOME", "SWITCH", "NETWORK", "PING", "SYSTEM", "DISCOVER">>
Runners == {Worker} \cup Web
States == {"first", "engine"}

Init ==
    /\ current = "first"
    /\ ping = [s \in States |-> [running |-> FALSE, results |-> FALSE]]
    /\ file \in BOOLEAN
    /\ epc = "asleep"
    /\ mpc \in {"splash", "loop"}
    /\ apc = [a \in Runners |-> "idle"]
    /\ queue = <<>>
    /\ screen \in {"PING", "DISCOVER"}
    /\ presses = 0
    /\ requests = 0
    /\ Wizard!Init
    /\ ending = FALSE

\* The lock is held by the engine for the whole of a refresh and by the main loop
\* while it starts a ping; everybody else is in and out in one step.  The mutants
\* sleep without having let it go, take it twice, or do without.
AsleepToo == {"refresh", "exists", "read", "asleep"}
Refreshing == {"refresh", "exists", "read"}
TakenTwice == epc \notin Refreshing /\ mpc \notin {"start", "exists", "read"}
NeverTaken == TRUE
LockFree == epc \notin Refreshing /\ mpc \notin {"exists", "read"}

\* read_adhoc_host looks for the file and then reads it; when it has been removed
\* in between, FileNotFoundError ends the thread that reads.
Looked(next) == IF file THEN "read" ELSE next
ReadAll(next) == IF file THEN next ELSE "dead"

-------------------------------------------------------------------------------
(* The engine's thread.                                                        *)

EngineBegin ==
    /\ epc = "asleep" /\ mpc # "splash" /\ LockFree
    /\ epc' = "refresh"
    /\ UNCHANGED <<current, ping, file, mpc, apc, queue, screen, bounds, wizard>>

\* Whether a refresh leaves the ping results as they are.  The mutant collects into
\* a new ProbeState.
NewState == [running |-> FALSE, results |-> FALSE]
SameState == ping["engine"]

EngineRefreshed ==
    /\ epc = "refresh"
    /\ current' = "engine"
    /\ ping' = [ping EXCEPT !["engine"] = SameState]
    /\ epc' = "exists"
    /\ UNCHANGED <<file, mpc, apc, queue, screen, bounds, wizard>>

\* A refresh raises: a command that it waits for is slower than its timeout, or says
\* something that is not JSON, which no collector catches, nor the loop.
EngineRaised ==
    /\ epc = "refresh"
    /\ epc' = "dead"
    /\ UNCHANGED <<current, ping, file, mpc, apc, queue, screen, bounds, wizard>>

EngineAdhoc ==
    /\ \/ epc = "exists" /\ epc' = Looked("asleep")
       \/ epc = "read" /\ epc' = ReadAll("asleep")
    /\ UNCHANGED <<current, ping, file, mpc, apc, queue, screen, bounds, wizard>>

Engine == EngineBegin \/ EngineRefreshed \/ EngineRaised \/ EngineAdhoc

-------------------------------------------------------------------------------
(* The suite, run by the ping worker or by a request.                           *)

Move(a, from, to) == apc[a] = from /\ apc' = [apc EXCEPT ![a] = to]

\* The file is read for the suite and again for its targets.
SuiteStep(a) ==
    /\ \/ Move(a, "exists", Looked("existsAgain"))
       \/ Move(a, "read", ReadAll("existsAgain"))
       \/ Move(a, "existsAgain", IF file THEN "readAgain" ELSE "pinging")
       \/ Move(a, "readAgain", ReadAll("pinging"))
       \/ Move(a, "pinging", "complete")
    /\ UNCHANGED <<current, ping, file, epc, mpc, queue, screen, bounds, wizard>>

\* What update_ping_state puts in place of the suite shown.  The mutant hands over a
\* suite that was not marked as ended.
NotEnded == [running |-> TRUE, results |-> TRUE]
Ended == [running |-> FALSE, results |-> TRUE]

Complete(a) ==
    /\ LockFree
    /\ Move(a, "complete", "idle")
    /\ ping' = [ping EXCEPT ![current] = Ended]
    /\ UNCHANGED <<current, file, epc, mpc, queue, screen, bounds, wizard>>

Suite(a) == SuiteStep(a) \/ Complete(a)

\* POST /api/ping/run, after the state was taken under the lock.
PingRun(a) ==
    /\ a \in Web /\ apc[a] \in {"idle", "dead"} /\ LockFree
    /\ requests < MaxRequests
    /\ requests' = requests + 1
    /\ apc' = [apc EXCEPT ![a] = "exists"]
    /\ UNCHANGED <<current, ping, file, epc, mpc, queue, screen, presses, wizard>>

\* PUT and DELETE /api/ping/adhoc.
SetAdhoc ==
    /\ requests < MaxRequests
    /\ requests' = requests + 1
    /\ file' = ~file
    /\ UNCHANGED <<current, ping, epc, mpc, apc, queue, screen, presses, wizard>>

-------------------------------------------------------------------------------
(* The main loop.                                                              *)

\* The splash screen is left when the warmup thread has made a first refresh, or was
\* not to make one, or the refresh raised; the engine's thread begins after it, the
\* web server has begun before.
Warmup ==
    /\ mpc = "splash" /\ LockFree
    /\ current' \in {"engine", current}
    /\ mpc' = "loop"
    /\ UNCHANGED <<ping, file, epc, apc, queue, screen, bounds, wizard>>

Press ==
    /\ presses < MaxPresses /\ mpc # "splash"
    /\ presses' = presses + 1
    /\ \E b \in Buttons : queue' = Append(queue, b)
    /\ UNCHANGED <<current, ping, file, epc, mpc, apc, screen, requests, wizard>>

Index(s) == CHOOSE i \in DOMAIN Screens : Screens[i] = s
NextScreen(s, step) ==
    Screens[((Index(s) - 1 + step + Len(Screens)) % Len(Screens)) + 1]

Active == stage \in Wizard!Active

\* A thread that is ending is not idle, though its phase is final.
IsIdle == ~Active /\ ~ending

\* What the wizard makes of SELECT and of NEXT at a prompt, the replug check's may be
\* skipped.  Over a result it starts again once the thread has ended.
Prompt == stage \in {"wait_unplug", "verify_replug"} /\ ~confirmed
Select ==
    CASE Prompt -> Wizard!Confirm /\ UNCHANGED ending
      [] IsIdle \/ stage = "done" -> Wizard!Start /\ ending' = FALSE
      [] OTHER -> UNCHANGED wizard
CanSkip == stage = "verify_replug" /\ ~confirmed

\* Whether NEXT leaves the wizard's screen.  The mutant asks for the flag of a prompt.
NoPrompt == ~Prompt
WizardIdle == IsIdle

\* PREVIOUS cancels a run, which the wizard's next check aborts; while its thread is
\* ending the run may still be taken for one under way.
OnDiscover(b) ==
    CASE b = "SELECT" -> Select /\ UNCHANGED screen
      [] b = "NEXT" /\ CanSkip -> Wizard!Confirm /\ UNCHANGED <<screen, ending>>
      [] b = "PREVIOUS" ->
            /\ UNCHANGED wizard
            /\ \/ (Active \/ ending) /\ UNCHANGED screen
               \/ ~Active /\ screen' = NextScreen(screen, -1)
      [] b = "NEXT" /\ ~CanSkip ->
            /\ UNCHANGED wizard
            /\ screen' = IF WizardIdle THEN NextScreen(screen, 1) ELSE screen

\* is_idle looks for the thread and then asks it whether it is alive; when its last
\* line has removed it in between, AttributeError ends the main loop.
ThreadGone(b) == b \in {"SELECT", "NEXT"} /\ ending

\* SELECT on the other screens sets an event that the engine's loop only clears.
OnOther(b) ==
    /\ screen' = CASE b = "PREVIOUS" -> NextScreen(screen, -1)
                   [] b = "NEXT" -> NextScreen(screen, 1)
                   [] b = "SELECT" -> screen
    /\ UNCHANGED wizard

OnButton ==
    /\ mpc = "loop" /\ queue # <<>>
    /\ queue' = Tail(queue)
    /\ LET b == Head(queue) IN
       \/ /\ screen = "PING" /\ b = "SELECT"
          /\ mpc' = IF apc[Worker] \in {"idle", "dead"} THEN "start" ELSE "loop"
          /\ UNCHANGED <<screen, wizard>>
       \/ /\ screen = "DISCOVER" /\ ThreadGone(b)
          /\ mpc' = "dead"
          /\ UNCHANGED <<screen, wizard>>
       \/ /\ ~(screen = "PING" /\ b = "SELECT")
          /\ IF screen = "DISCOVER" THEN OnDiscover(b) ELSE OnOther(b)
          /\ UNCHANGED mpc
    /\ UNCHANGED <<current, ping, file, epc, apc, bounds>>

\* _start_ping_suite: flag and adhoc host under the lock, and then the thread.
StartPing ==
    /\ mpc = "start" /\ LockFree
    /\ ping' = [ping EXCEPT ![current].running = TRUE]
    /\ mpc' = "exists"
    /\ UNCHANGED <<current, file, epc, apc, queue, screen, bounds, wizard>>

StartAdhoc ==
    /\ \/ mpc = "exists" /\ mpc' = Looked("spawn")
       \/ mpc = "read" /\ mpc' = ReadAll("spawn")
    /\ UNCHANGED <<current, ping, file, epc, apc, queue, screen, bounds, wizard>>

SpawnPing ==
    /\ mpc = "spawn"
    /\ mpc' = "loop"
    /\ apc' = [apc EXCEPT ![Worker] = "exists"]
    /\ UNCHANGED <<current, ping, file, epc, queue, screen, bounds, wizard>>

\* A frame is due.
DrawDue ==
    /\ mpc = "loop" /\ queue = <<>>
    /\ mpc' = "draw"
    /\ UNCHANGED <<current, ping, file, epc, apc, queue, screen, bounds, wizard>>

Draw ==
    /\ mpc = "draw" /\ LockFree
    /\ mpc' = "loop"
    /\ UNCHANGED <<current, ping, file, epc, apc, queue, screen, bounds, wizard>>

Main == Warmup \/ OnButton \/ StartPing \/ StartAdhoc \/ SpawnPing \/ DrawDue \/ Draw

\* The wizard's thread goes on by itself, and ends.
WizardStep ==
    /\ \/ /\ Wizard!Ask \/ Wizard!LeavePrompt \/ Wizard!SecondScan \/ Wizard!ShowDiff
          /\ UNCHANGED ending
       \/ (Wizard!Finish \/ Wizard!Abort) /\ ending' = TRUE
       \/ ending /\ ending' = FALSE /\ UNCHANGED <<stage, confirmed, outcome>>
    /\ UNCHANGED <<current, ping, file, epc, mpc, apc, queue, screen, bounds>>

\* With the main loop the process ends.
Running == mpc # "dead"

Next ==
    /\ Running
    /\ \/ Engine
       \/ \E a \in Runners : Suite(a) \/ PingRun(a)
       \/ SetAdhoc
       \/ Press
       \/ Main
       \/ WizardStep

Spec == Init /\ [][Next]_vars

(* The threads are scheduled.  The engine sleeps with the lock free, a second or  *)
(* more, so that a thread that waits for it gets it: strong fairness of the steps *)
(* that take it.                                                                *)
Fairness ==
    /\ WF_vars(Running /\ Engine) /\ SF_vars(Running /\ EngineBegin)
    /\ WF_vars(Running /\ Main) /\ SF_vars(Running /\ StartPing) /\ SF_vars(Running /\ Draw)
    /\ \A a \in Runners :
          WF_vars(Running /\ Suite(a)) /\ SF_vars(Running /\ Complete(a))

FairSpec == Spec /\ Fairness

-------------------------------------------------------------------------------
(* Properties.                                                                 *)

SuitePCs == {"idle", "exists", "read", "existsAgain", "readAgain", "pinging", "complete",
             "dead"}

\* Types, with at most one of the engine and the main loop in the lock
\* (app.py:224, 298, 469).
TypeOK ==
    /\ current \in States
    /\ ping \in [States -> [running : BOOLEAN, results : BOOLEAN]]
    /\ file \in BOOLEAN
    /\ epc \in Refreshing \cup {"asleep", "dead"}
    /\ mpc \in {"splash", "loop", "start", "exists", "read", "spawn", "draw",
               "dead"}
    /\ apc \in [Runners -> SuitePCs]
    /\ queue \in Seq(Buttons) /\ Len(queue) <= MaxPresses
    /\ screen \in {Screens[i] : i \in DOMAIN Screens}
    /\ ~(epc \in Refreshing /\ mpc \in {"exists", "read"})

\* The wizard is never left to itself: while a run is under way, and may be waiting
\* for an answer, its screen is the one the buttons go to (app.py:251-274, with
\* discovery_session.py:64-69).
WizardIsOnScreen == Active => screen = "DISCOVER"

\* The screen that says a ping is running is right: a worker is at it, is about to
\* be started, or has died of an error (app.py:294-313, service.py:97-140).
RunningIsTrue ==
    ping[current].running =>
        \/ apc[Worker] # "idle"
        \/ mpc \in {"exists", "read", "spawn", "dead"}

\* Once the engine has refreshed, the results of a suite stay until those of another
\* are there, whatever is refreshed, started or looked at (app.py:182-185, 224-228,
\* engine.py:33-42).
ResultsAreKept ==
    [][current = "engine" /\ ping[current].results => ping'[current'].results]_vars

\* Every button pressed is handled in the end, however long refreshes take, unless
\* the program died of an error (app.py:204-210, 455-477).
ButtonsAreHandled == queue # <<>> ~> (queue = <<>> \/ mpc = "dead")

\* Nobody keeps the lock from the engine: as long as it and the program live, it goes on
\* to another refresh, whatever is drawn, pinged and asked for (app.py:220-229).
EngineIsServed == []<>(epc \in {"refresh", "dead"} \/ mpc = "dead")

\* "Aggiornamento automatico periodico", says DOCUMENTAZIONE.md:512 of what is shown of
\* link, network and switch, and :689 calls poll_interval_* the "Frequenza polling
\* motore": while the program runs, it refreshes again and again (app.py:220-229).
EngineGoesOn == [](mpc # "dead") => []<>(epc = "refresh")

===============================================================================
