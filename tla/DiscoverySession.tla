--------------------------- MODULE DiscoverySession ---------------------------
(* The guided Up/Down wizard as the UI drives it: ndp/ui/discovery_session.py  *)
(* (DiscoveryUISession) running ndp/discovery/wizard.py (UpDownWizard) in a    *)
(* thread of its own.                                                          *)
(*                                                                             *)
(* Two kinds of threads share the session object.  A worker executes           *)
(* DiscoveryUISession._run, hence UpDownWizard.run.  A handler is a caller of  *)
(* the session: the TFT's button loop, or a thread of the web server's pool.   *)
(* A block under self._lock is one action; outside the lock every read or      *)
(* write another thread can tell apart is an action of its own.                *)
(*                                                                             *)
(* Abstracted: the log lines, the texts, the value shown by the countdown, and *)
(* the contents of the snapshots (a result is the worker that delivered it).   *)
EXTENDS Naturals, FiniteSets

CONSTANTS
    Workers,    \* threads that can exist at once; an ended one is a fresh one again
    Handlers,   \* threads that call the session
    Ops,        \* the operations these callers use
    Ticks,      \* seconds of the countdown before the second scan
    None

AllOps == {"start", "select", "skip", "cancel", "reset"}

ASSUME SessionAssumption ==
    /\ None \notin Workers
    /\ Ops \subseteq AllOps
    /\ Ticks \in Nat \ {0}

Phases == {"idle", "scanning_baseline", "wait_unplug", "prepare_second_scan",
           "scanning_after", "show_diff", "verify_replug", "scanning_verify",
           "done"}

Prompts == {"wait_unplug", "verify_replug"}

Scans == {"scanning_baseline", "scanning_after", "scanning_verify"}

WorkerPCs == {"gone", "created", "begin", "check", "checkFlush", "scan",
              "flush", "tick", "sleep", "open", "wait", "awake", "return",
              "cancelled", "failed", "fin1", "fin2", "fin3"}

HandlerPCs == {"ready", "locked", "idle1", "alive1", "phase", "cancel1",
               "cancel2", "join1", "join2", "join3", "clear", "idle2",
               "alive2", "write", "spawn", "launch"}

VARIABLES
    config,     \* discovery.flush_arp and discovery.verify_replug
    phase,      \* _phase
    running,    \* _running
    thread,     \* _thread
    wizard,     \* _wizard, named by its worker
    result,     \* _result, named by the worker that delivered it
    error,      \* _error is set
    countdown,  \* _countdown is set
    cancel,     \* the event _cancel
    waiting,    \* _waiting_for_user
    allowSkip,  \* _waiting_allow_skip
    answer,     \* the event _prompt_answer
    skip,       \* _skip_answer
    wpc,        \* where each worker stands
    wphase,     \* UpDownWizard.phase of each worker
    ticks,      \* seconds each worker's countdown still has to run
    hpc,        \* where each handler stands
    hop,        \* the operation it is executing
    joining,    \* the thread its reset() waits for
    answered,   \* history: the user has answered the prompt of the current phase
    latest      \* history: the worker created last

promptVars  == <<waiting, allowSkip, answer, skip, answered>>
runVars     == <<running, thread, wizard, result, error, countdown, cancel>>
workerVars  == <<wpc, wphase, ticks>>
handlerVars == <<hpc, hop, joining>>
sessionVars == <<config, phase, promptVars, runVars, latest>>
vars == <<config, phase, promptVars, runVars, workerVars, handlerVars, latest>>

Init ==
    /\ config \in [flushArp : BOOLEAN, verifyReplug : BOOLEAN]
    /\ phase = "idle"
    /\ running = FALSE
    /\ thread = None
    /\ wizard = None
    /\ result = None
    /\ error = FALSE
    /\ countdown = FALSE
    /\ cancel = FALSE
    /\ waiting = FALSE
    /\ allowSkip = FALSE
    /\ answer = FALSE
    /\ skip = FALSE
    /\ wpc = [w \in Workers |-> "gone"]
    /\ wphase = [w \in Workers |-> "idle"]
    /\ ticks = [w \in Workers |-> 0]
    /\ hpc = [h \in Handlers |-> "ready"]
    /\ hop = [h \in Handlers |-> "select"]
    /\ joining = [h \in Handlers |-> None]
    /\ answered = FALSE
    /\ latest = None

-------------------------------------------------------------------------------
(* Workers: DiscoveryUISession._run and UpDownWizard.run.                      *)

Go(w, pc) == wpc' = [wpc EXCEPT ![w] = pc]

\* UpDownWizard.run enters phase p and says so: _ui_output copies the phase of
\* the wizard the session knows of.
Enter(w, p) ==
    /\ wphase' = [wphase EXCEPT ![w] = p]
    /\ phase' = IF wizard = None THEN phase ELSE wphase'[wizard]
    /\ answered' = (answered /\ p \notin Prompts)

Begin(w) ==
    /\ wpc[w] = "begin"
    /\ wizard' = w
    /\ wphase' = [wphase EXCEPT ![w] = "scanning_baseline"]
    /\ phase' = "scanning_baseline"
    /\ Go(w, "check")
    /\ UNCHANGED <<config, running, thread, result, error, countdown, cancel,
                   promptVars, ticks, handlerVars, latest>>

\* What UpDownWizard.run does once _check_cancel has let it through.
AfterCheck(w) ==
    CASE wpc[w] = "checkFlush"   -> "flush"
      [] wphase[w] \in Scans     -> "scan"
      [] wphase[w] \in Prompts   -> "open"
      [] OTHER                   -> "tick"

CheckCancel(w) ==
    /\ wpc[w] \in {"check", "checkFlush"}
    /\ Go(w, IF cancel THEN "cancelled" ELSE AfterCheck(w))
    /\ UNCHANGED <<sessionVars, wphase, ticks, handlerVars>>

\* The baseline or the second scan returns, and the next phase is announced.
ScanDone(w) ==
    /\ wpc[w] = "scan"
    /\ \/ /\ wphase[w] = "scanning_baseline"
          /\ Enter(w, "wait_unplug")
          /\ Go(w, "check")
       \/ /\ wphase[w] = "scanning_after"
          /\ config.verifyReplug
          /\ Enter(w, "verify_replug")
          /\ Go(w, "check")
       \/ /\ wphase[w] = "scanning_after"
          /\ ~config.verifyReplug
          /\ Enter(w, "show_diff")
          /\ Go(w, "return")
    /\ UNCHANGED <<config, runVars, waiting, allowSkip, answer, skip, ticks,
                   handlerVars, latest>>

VerifyScanDone(w) ==
    /\ wpc[w] = "scan"
    /\ wphase[w] = "scanning_verify"
    /\ Go(w, "return")
    /\ UNCHANGED <<sessionVars, wphase, ticks, handlerVars>>

\* The scan or the flush raises something they do not catch themselves.
CommandFails(w) ==
    /\ wpc[w] \in {"scan", "flush"}
    /\ Go(w, "failed")
    /\ UNCHANGED <<sessionVars, wphase, ticks, handlerVars>>

\* What a prompt finds in _prompt_answer: the event is cleared first.  The mutant
\* leaves in it what an earlier cancel() has set.
KeptAnswer == answer
ClearedAnswer == FALSE

\* _ui_prompt up to the wait.
OpenPrompt(w) ==
    /\ wpc[w] = "open"
    /\ phase' = IF wizard = None THEN phase ELSE wphase[wizard]
    /\ waiting' = TRUE
    /\ allowSkip' = (phase' = "verify_replug")
    /\ answer' = ClearedAnswer
    /\ answered' = FALSE
    /\ Go(w, "wait")
    /\ UNCHANGED <<config, runVars, skip, wphase, ticks, handlerVars, latest>>

WakeUp(w) ==
    /\ wpc[w] = "wait"
    /\ answer
    /\ Go(w, "awake")
    /\ UNCHANGED <<sessionVars, wphase, ticks, handlerVars>>

\* The rest of _ui_prompt, and what UpDownWizard.run makes of the answer.
ClosePrompt(w) ==
    /\ wpc[w] = "awake"
    /\ waiting' = FALSE
    /\ allowSkip' = FALSE
    /\ skip' = FALSE
    /\ UNCHANGED <<config, runVars, answer, handlerVars, latest>>
    /\ \/ /\ wphase[w] = "wait_unplug"
          /\ Enter(w, "prepare_second_scan")
          /\ ticks' = [ticks EXCEPT ![w] = Ticks]
          /\ Go(w, IF config.flushArp THEN "checkFlush" ELSE "check")
       \/ /\ wphase[w] = "verify_replug"
          /\ skip
          /\ Go(w, "return")
          /\ UNCHANGED <<phase, answered, wphase, ticks>>
       \/ /\ wphase[w] = "verify_replug"
          /\ ~skip
          /\ Enter(w, "scanning_verify")
          /\ Go(w, "check")
          /\ UNCHANGED ticks

FlushDone(w) ==
    /\ wpc[w] = "flush"
    /\ Go(w, "check")
    /\ UNCHANGED <<sessionVars, wphase, ticks, handlerVars>>

\* _ui_sleep: one second of the countdown, cut short by _prompt_answer.
StartTick(w) ==
    /\ wpc[w] = "tick"
    /\ IF cancel
       THEN Go(w, "cancelled") /\ UNCHANGED countdown
       ELSE Go(w, "sleep") /\ countdown' = TRUE
    /\ UNCHANGED <<config, phase, promptVars, running, thread, wizard, result,
                   error, cancel, wphase, ticks, handlerVars, latest>>

\* The countdown ends with its last second.
LastTick(w) == ticks[w] = 1

EndTick(w) ==
    /\ wpc[w] = "sleep"
    /\ answer' = FALSE
    /\ countdown' = FALSE
    /\ ticks' = [ticks EXCEPT ![w] = ticks[w] - 1]
    /\ Go(w, "check")
    /\ IF LastTick(w)
       THEN Enter(w, "scanning_after")
       ELSE UNCHANGED <<phase, answered, wphase>>
    /\ UNCHANGED <<config, running, thread, wizard, result, error, cancel,
                   waiting, allowSkip, skip, handlerVars, latest>>

\* The three ways out of wizard.run(), each under the lock.
Return(w) ==
    /\ wpc[w] = "return"
    /\ result' = w
    /\ phase' = "done"
    /\ wphase' = [wphase EXCEPT ![w] = "done"]
    /\ Go(w, "fin1")
    /\ UNCHANGED <<config, promptVars, running, thread, wizard, error,
                   countdown, cancel, ticks, handlerVars, latest>>

Abort(w) ==
    /\ wpc[w] \in {"cancelled", "failed"}
    /\ error' = (wpc[w] = "failed")
    /\ phase' = "idle"
    /\ Go(w, "fin1")
    /\ UNCHANGED <<config, promptVars, running, thread, wizard, result,
                   countdown, cancel, wphase, ticks, handlerVars, latest>>

\* The finally block, which does not take the lock.
Finally1(w) ==
    /\ wpc[w] = "fin1"
    /\ wizard' = None
    /\ running' = FALSE
    /\ Go(w, "fin2")
    /\ UNCHANGED <<config, phase, promptVars, thread, result, error, countdown,
                   cancel, wphase, ticks, handlerVars, latest>>

Finally2(w) ==
    /\ wpc[w] = "fin2"
    /\ waiting' = FALSE
    /\ countdown' = FALSE
    /\ Go(w, "fin3")
    /\ UNCHANGED <<config, phase, allowSkip, answer, skip, answered, running,
                   thread, wizard, result, error, cancel, wphase, ticks,
                   handlerVars, latest>>

Finally3(w) ==
    /\ wpc[w] = "fin3"
    /\ thread' = None
    /\ Go(w, "gone")
    /\ UNCHANGED <<config, phase, promptVars, running, wizard, result, error,
                   countdown, cancel, wphase, ticks, handlerVars, latest>>

Work(w) ==
    \/ Begin(w)     \/ CheckCancel(w) \/ ScanDone(w)    \/ VerifyScanDone(w)
    \/ CommandFails(w) \/ OpenPrompt(w) \/ WakeUp(w)    \/ ClosePrompt(w)
    \/ FlushDone(w) \/ StartTick(w)   \/ EndTick(w)     \/ Return(w)
    \/ Abort(w)     \/ Finally1(w)    \/ Finally2(w)    \/ Finally3(w)

-------------------------------------------------------------------------------
(* Handlers: start, on_select, on_next_skip, cancel, reset.                    *)

At(h, from, to) == hpc[h] = from /\ hpc' = [hpc EXCEPT ![h] = to]

Call(h, op) ==
    /\ hop' = [hop EXCEPT ![h] = op]
    /\ At(h, "ready", CASE op = "start"              -> "idle1"
                        [] op \in {"select", "skip"} -> "locked"
                        [] OTHER                     -> "cancel1")
    /\ UNCHANGED <<sessionVars, workerVars, joining>>

\* Whether the prompt takes this answer: any prompt a select, one that allows it
\* a skip.  In the mutants every prompt takes both, or only a skippable one does.
AnyAnswer(h) == waiting
SkippableOnly(h) == waiting /\ allowSkip
CanAnswer(h) == waiting /\ (hop[h] = "skip" => allowSkip)

\* The locked part of on_select and of on_next_skip.
Answer(h) ==
    /\ hpc[h] = "locked"
    /\ CanAnswer(h)
    /\ skip' = (hop[h] = "skip")
    /\ answer' = TRUE
    /\ answered' = TRUE
    /\ At(h, "locked", "ready")
    /\ UNCHANGED <<config, phase, waiting, allowSkip, runVars, workerVars, hop,
                   joining, latest>>

NoPrompt(h) ==
    /\ hpc[h] = "locked"
    /\ ~CanAnswer(h)
    /\ At(h, "locked", IF hop[h] = "skip" THEN "ready" ELSE "idle1")
    /\ UNCHANGED <<sessionVars, workerVars, hop, joining>>

\* Where the callers of is_idle() go on: on_select and the start endpoint ask
\* once (level 1), start() itself once more (level 2).
IfIdle(h) == IF hpc[h] \in {"idle1", "alive1"} THEN "idle2" ELSE "write"
IfBusy(h) == IF hpc[h] \in {"idle1", "alive1"} /\ hop[h] = "select"
             THEN "phase" ELSE "ready"

\* is_idle() has no thread to ask.  The mutant trusts _running alone.
NeverAsk == TRUE
NoThread == thread = None

IsIdle(h) ==
    /\ hpc[h] \in {"idle1", "idle2"}
    /\ At(h, hpc[h], IF running THEN IfBusy(h)
                     ELSE IF NoThread THEN IfIdle(h)
                     ELSE IF hpc[h] = "idle1" THEN "alive1" ELSE "alive2")
    /\ UNCHANGED <<sessionVars, workerVars, hop, joining>>

\* is_alive() of the thread is_idle() has just seen: None.is_alive() raises.
IsAlive(h) ==
    /\ hpc[h] \in {"alive1", "alive2"}
    /\ At(h, hpc[h], IF thread = None THEN "ready"
                     ELSE IF wpc[thread] \in {"gone", "created"} THEN IfIdle(h)
                     ELSE IfBusy(h))
    /\ UNCHANGED <<sessionVars, workerVars, hop, joining>>

\* on_select on a session that is not idle: a finished one is reset and restarted.
\* The mutant restarts any.
Always == TRUE
Finished == phase = "done"

SelectBusy(h) ==
    /\ At(h, "phase", IF Finished THEN "cancel1" ELSE "ready")
    /\ UNCHANGED <<sessionVars, workerVars, hop, joining>>

Cancel1(h) ==
    /\ At(h, "cancel1", "cancel2")
    /\ cancel' = TRUE
    /\ UNCHANGED <<config, phase, promptVars, running, thread, wizard, result,
                   error, countdown, workerVars, hop, joining, latest>>

Cancel2(h) ==
    /\ At(h, "cancel2", IF hop[h] = "cancel" THEN "ready" ELSE "join1")
    /\ answer' = TRUE
    /\ UNCHANGED <<config, phase, waiting, allowSkip, skip, answered, runVars,
                   workerVars, hop, joining, latest>>

\* reset() reads _thread twice: the second read may find None, and join() raises,
\* as it does on a thread not started yet.
Join1(h) ==
    /\ At(h, "join1", IF thread = None THEN "clear" ELSE "join2")
    /\ UNCHANGED <<sessionVars, workerVars, hop, joining>>

Join2(h) ==
    /\ IF thread = None \/ wpc[thread] = "created"
       THEN At(h, "join2", "ready") /\ UNCHANGED joining
       ELSE At(h, "join2", "join3") /\ joining' = [joining EXCEPT ![h] = thread]
    /\ UNCHANGED <<sessionVars, workerVars, hop>>

\* join(timeout=0.5) gives up only on a thread that a command or an event blocks:
\* between two of these a worker needs far less.
Join3(h) ==
    /\ joining[h] # None
    /\ wpc[joining[h]] \in {"gone", "scan", "flush", "sleep", "wait"}
    /\ At(h, "join3", "clear")
    /\ joining' = [joining EXCEPT ![h] = None]
    /\ UNCHANGED <<sessionVars, workerVars, hop>>

\* The assignments of reset() that follow the join.
Clear(h) ==
    /\ At(h, "clear", IF hop[h] = "reset" THEN "ready" ELSE "idle2")
    /\ thread' = None
    /\ running' = FALSE
    /\ result' = None
    /\ error' = FALSE
    /\ phase' = "idle"
    /\ countdown' = FALSE
    /\ cancel' = FALSE
    /\ answer' = FALSE
    /\ UNCHANGED <<config, waiting, allowSkip, skip, answered, wizard,
                   workerVars, hop, joining, latest>>

\* What start() leaves of the last run's result.  The mutant forgets to drop it.
KeptResult == result
StartResult == None

\* start(), once is_idle() has said so.
Write(h) ==
    /\ At(h, "write", "spawn")
    /\ cancel' = FALSE
    /\ result' = StartResult
    /\ error' = FALSE
    /\ phase' = "scanning_baseline"
    /\ running' = TRUE
    /\ UNCHANGED <<config, promptVars, thread, wizard, countdown, workerVars,
                   hop, joining, latest>>

\* An ended thread nothing refers to stands for a new one.
Fresh(w) == /\ wpc[w] = "gone"
            /\ w \notin {thread, wizard, result}
            /\ \A h \in Handlers : joining[h] # w

Spawn(h) ==
    /\ At(h, "spawn", "launch")
    /\ \E w \in Workers :
          /\ Fresh(w)
          /\ thread' = w
          /\ latest' = w
          /\ Go(w, "created")
          /\ wphase' = [wphase EXCEPT ![w] = "idle"]
    /\ UNCHANGED <<config, phase, promptVars, running, wizard, result, error,
                   countdown, cancel, ticks, hop, joining>>

\* self._thread.start(): it raises on None and on a thread started before.
Launch(h) ==
    /\ At(h, "launch", "ready")
    /\ IF thread # None /\ wpc[thread] = "created"
       THEN Go(thread, "begin")
       ELSE UNCHANGED wpc
    /\ UNCHANGED <<sessionVars, wphase, ticks, hop, joining>>

Continue(h) ==
    \/ Answer(h)     \/ NoPrompt(h) \/ IsIdle(h)  \/ IsAlive(h)
    \/ SelectBusy(h) \/ Cancel1(h)  \/ Cancel2(h) \/ Join1(h)
    \/ Join2(h)      \/ Join3(h)    \/ Clear(h)   \/ Write(h)
    \/ Spawn(h)      \/ Launch(h)

Handle(h) == Continue(h) \/ \E op \in Ops : Call(h, op)

Next == \/ \E w \in Workers : Work(w)
        \/ \E h \in Handlers : Handle(h)

Spec == Init /\ [][Next]_vars

-------------------------------------------------------------------------------
(* Fairness.  Threads run; arp-scan and ip end, run_command gives them a        *)
(* timeout.  Nobody has to press anything, unless UserAnswers says so.          *)
ThreadsRun == /\ \A w \in Workers : WF_vars(Work(w))
              /\ \A h \in Handlers : WF_vars(Continue(h))

UserAnswers == \A h \in Handlers : SF_vars(waiting /\ Call(h, "select"))

FairSpec     == Spec /\ ThreadsRun
AnsweredSpec == FairSpec /\ UserAnswers

-------------------------------------------------------------------------------
(* Properties.                                                                 *)

FlagsOK ==
    /\ running \in BOOLEAN   /\ error \in BOOLEAN     /\ countdown \in BOOLEAN
    /\ cancel \in BOOLEAN    /\ waiting \in BOOLEAN   /\ allowSkip \in BOOLEAN
    /\ answer \in BOOLEAN    /\ skip \in BOOLEAN      /\ answered \in BOOLEAN

\* The variables hold what the code can put in them; the countdown never runs
\* past its last second (wizard.py:163-168).
TypeOK ==
    /\ config \in [flushArp : BOOLEAN, verifyReplug : BOOLEAN]
    /\ phase \in Phases
    /\ {thread, wizard, result, latest} \subseteq Workers \cup {None}
    /\ wpc \in [Workers -> WorkerPCs]
    /\ wphase \in [Workers -> Phases]
    /\ ticks \in [Workers -> 0..Ticks]
    /\ hpc \in [Handlers -> HandlerPCs]
    /\ hop \in [Handlers -> AllOps]
    /\ joining \in [Handlers -> Workers \cup {None}]
    /\ FlagsOK

\* At most one wizard thread exists, the finally block of _run included: start()
\* and the restart of on_select never overlap a run that can still write the
\* session (is_idle, discovery_session.py:64-69).
OneRun ==
    \A v, w \in Workers : wpc[v] # "gone" /\ wpc[w] # "gone" => v = w

\* No ARP flush, countdown or scan of a later step begins unless the user has
\* answered the prompt before it: an event left set by an earlier cancel() does
\* not stand in for the user (discovery_session.py:269, wizard.py:103, 130).
ScansFollowConfirmation ==
    \A w \in Workers :
        \/ wpc[w] \in {"flush", "sleep"}
        \/ wpc[w] = "scan" /\ wphase[w] # "scanning_baseline"
        => answered

\* The prompt flags callers act on describe a worker that does wait, and a skip
\* is pending only while the replug prompt is open: it is never taken for the
\* answer to a later prompt (discovery_session.py:109-130, 263-278).
PromptFlagsAreTrue ==
    /\ waiting => \E w \in Workers : wpc[w] \in {"wait", "awake"}
    /\ allowSkip \/ skip => \E w \in Workers : /\ wpc[w] \in {"wait", "awake"}
                                              /\ wphase[w] = "verify_replug"

\* A result on display is that of the run started last, and is there only when
\* the phase says so: a run that is over, cancelled or restarted leaves none
\* behind (discovery_session.py:75-87, 230-248).
ResultIsOfLastRun == result # None => result = latest /\ phase = "done"

\* As long as the user answers the prompts, every run ends, cancelled or not: no
\* thread waits for ever on an event nobody sets (discovery_session.py:212-278).
RunsEnd == \A w \in Workers : wpc[w] = "begin" ~> wpc[w] = "gone"

\* A cancelled run ends, without the user having to answer anything: what
\* WizardCancelled is for (wizard.py:58, discovery_session.py:89-92).
CancelEndsRun == \A w \in Workers : wpc[w] # "gone" /\ cancel ~> wpc[w] = "gone"

Run == INSTANCE UpDownRun WITH stage     <- phase,
                               confirmed <- answered,
                               outcome   <- result # None

\* The session implements the run its user was promised: the phases come in
\* their order, no scan is made past an unanswered prompt, DONE and a result go
\* together, whatever the worker and its caller interleave (UpDownWizard.run,
\* wizard.py:94-148, driven by discovery_session.py:212-249).
ImplementsUpDownRun == Run!Spec

===============================================================================
