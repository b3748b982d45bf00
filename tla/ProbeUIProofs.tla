---------------------------- MODULE ProbeUIProofs -----------------------------
(* The display's process for any number of buttons, and of requests at a time:   *)
(* its locking, the wizard's screen and what is shown of a ping.                 *)
EXTENDS ProbeUI, TLAPS

\* The engine's ProbeState is not touched before it is the one that is shown.
Untouched == current = "first" => ~ping["engine"].running

\* No more buttons wait than were pressed.
QueueInv == presses \in Nat /\ presses <= MaxPresses /\ Len(queue) <= presses

-------------------------------------------------------------------------------
(* Types.                                                                       *)

AllScreens == {Screens[i] : i \in DOMAIN Screens}

\* A screen has a place in the row, and so has the one beside it.
LEMMA ScreensInRow ==
    ASSUME NEW s \in AllScreens, NEW step \in {-1, 1}
    PROVE  NextScreen(s, step) \in AllScreens
<1>1. DOMAIN Screens = 1..6 /\ Len(Screens) = 6
  BY DEF Screens
<1>2. PICK i \in 1..6 : Screens[i] = s
  BY <1>1 DEF AllScreens
<1>3. Index(s) \in 1..6
  BY <1>1, <1>2 DEF Index
<1>4. ((Index(s) - 1 + step + 6) % 6) + 1 \in 1..6
  BY <1>3
<1>5. NextScreen(s, step) = Screens[((Index(s) - 1 + step + 6) % 6) + 1]
  BY <1>1 DEF NextScreen
<1> QED
  BY <1>1, <1>4, <1>5 DEF AllScreens

LEMMA InitTypes == Init => TypeOK /\ QueueInv
<1> SUFFICES ASSUME Init PROVE TypeOK /\ QueueInv
  OBVIOUS
<1>1. screen \in AllScreens
  <2>1. DOMAIN Screens = 1..6 /\ Screens[4] = "PING" /\ Screens[6] = "DISCOVER"
    BY DEF Screens
  <2> QED
    BY <2>1 DEF Init, AllScreens
<1>2. queue \in Seq(Buttons) /\ Len(queue) <= MaxPresses
  BY UIAssumption DEF Init
<1>3. ping \in [States -> [running : BOOLEAN, results : BOOLEAN]]
  BY DEF Init
<1>4. apc \in [Runners -> SuitePCs]
  BY DEF Init, SuitePCs
<1>5. QueueInv
  BY UIAssumption DEF Init, QueueInv
<1> QED
  BY <1>1, <1>2, <1>3, <1>4, <1>5 DEF Init, TypeOK, AllScreens, States, Refreshing

LEMMA EngineTypes == TypeOK /\ QueueInv /\ Engine => TypeOK' /\ QueueInv'
<1> SUFFICES ASSUME TypeOK, QueueInv, Engine PROVE TypeOK' /\ QueueInv'
  OBVIOUS
<1> USE DEF TypeOK, QueueInv, bounds, Refreshing
<1>1. CASE EngineBegin
  BY <1>1 DEF EngineBegin, LockFree
<1>2. CASE EngineRefreshed \/ EngineRaised
  BY <1>2 DEF EngineRefreshed, EngineRaised, SameState, States
<1>3. CASE EngineAdhoc
  BY <1>3 DEF EngineAdhoc, Looked, ReadAll
<1> QED
  BY <1>1, <1>2, <1>3 DEF Engine

LEMMA SuiteTypes ==
    ASSUME TypeOK, QueueInv, NEW a \in Runners, Suite(a) \/ PingRun(a)
    PROVE  TypeOK' /\ QueueInv'
<1> USE DEF TypeOK, QueueInv, bounds
<1>1. CASE SuiteStep(a)
  BY <1>1 DEF SuiteStep, Move, Looked, ReadAll, SuitePCs
<1>2. CASE Complete(a)
  BY <1>2 DEF Complete, Move, Ended, SuitePCs
<1>3. CASE PingRun(a)
  BY <1>3 DEF PingRun, SuitePCs
<1> QED
  BY <1>1, <1>2, <1>3 DEF Suite

LEMMA PressTypes == TypeOK /\ QueueInv /\ Press => TypeOK' /\ QueueInv'
<1> SUFFICES ASSUME TypeOK, QueueInv, Press PROVE TypeOK' /\ QueueInv'
  OBVIOUS
<1>1. queue' \in Seq(Buttons) /\ Len(queue') = Len(queue) + 1 /\ Len(queue) \in Nat
  BY DEF TypeOK, Press
<1>2. presses' = presses + 1 /\ presses' <= MaxPresses
  BY UIAssumption DEF Press, QueueInv
<1> QED
  BY <1>1, <1>2, UIAssumption DEF TypeOK, QueueInv, Press

\* What a button does to screen and wizard.
LEMMA OnDiscoverScreen ==
    ASSUME TypeOK, screen = "DISCOVER", NEW b \in Buttons, OnDiscover(b)
    PROVE  /\ screen' \in AllScreens
           /\ stage' \in Wizard!Active => screen' = "DISCOVER"
<1>1. screen \in AllScreens
  BY DEF TypeOK, AllScreens
<1>2. /\ NextScreen(screen, -1) \in AllScreens
      /\ NextScreen(screen, 1) \in AllScreens
  BY <1>1, ScreensInRow
<1>3. CASE b = "PREVIOUS"
  <2>1. /\ UNCHANGED wizard
        /\ \/ (Active \/ ending) /\ UNCHANGED screen
           \/ ~Active /\ screen' = NextScreen(screen, -1)
    BY <1>3 DEF OnDiscover
  <2>2. CASE UNCHANGED screen
    BY <1>1, <2>2
  <2>3. CASE ~Active /\ screen' = NextScreen(screen, -1)
    BY <1>2, <2>1, <2>3 DEF Active, wizard
  <2> QED
    BY <2>1, <2>2, <2>3
<1>4. CASE UNCHANGED screen
  BY <1>1, <1>4
<1>5. CASE ~Active /\ UNCHANGED wizard /\ screen' \in AllScreens
  BY <1>5 DEF Active, wizard
<1> QED
  <2>1. CASE b = "SELECT"
    BY <1>4, <2>1 DEF OnDiscover
  <2>2. CASE b = "NEXT" /\ CanSkip
    BY <1>4, <2>2 DEF OnDiscover
  <2>3. CASE b = "NEXT" /\ ~CanSkip
    BY <1>2, <1>4, <1>5, <2>3 DEF OnDiscover, WizardIdle, IsIdle
  <2> QED
    BY <1>3, <2>1, <2>2, <2>3 DEF Buttons

LEMMA OnOtherScreen ==
    ASSUME TypeOK, NEW b \in Buttons, OnOther(b)
    PROVE  screen' \in AllScreens /\ UNCHANGED wizard
<1>1. screen \in AllScreens
  BY DEF TypeOK, AllScreens
<1>2. /\ NextScreen(screen, -1) \in AllScreens
      /\ NextScreen(screen, 1) \in AllScreens
  BY <1>1, ScreensInRow
<1> QED
  BY <1>1, <1>2 DEF OnOther, Buttons

LEMMA ButtonTypes == TypeOK /\ QueueInv /\ OnButton => TypeOK' /\ QueueInv'
<1> SUFFICES ASSUME TypeOK, QueueInv, OnButton PROVE TypeOK' /\ QueueInv'
  OBVIOUS
<1>1. /\ queue' \in Seq(Buttons) /\ Len(queue') = Len(queue) - 1
      /\ Len(queue) \in Nat /\ Head(queue) \in Buttons
  BY DEF TypeOK, OnButton
<1>2. screen \in AllScreens
  BY DEF TypeOK, AllScreens
<1>3. screen' \in AllScreens /\ mpc' \in {"loop", "start", "dead"} /\ mpc = "loop"
  BY <1>1, <1>2, OnDiscoverScreen, OnOtherScreen DEF OnButton
<1>4. UNCHANGED <<current, ping, file, epc, apc, presses>>
  BY DEF OnButton, bounds
<1> QED
  BY <1>1, <1>3, <1>4, UIAssumption DEF TypeOK, QueueInv, AllScreens

LEMMA MainTypes == TypeOK /\ QueueInv /\ Main => TypeOK' /\ QueueInv'
<1> SUFFICES ASSUME TypeOK, QueueInv, Main PROVE TypeOK' /\ QueueInv'
  OBVIOUS
<1>1. CASE OnButton
  BY <1>1, ButtonTypes
<1> USE DEF TypeOK, QueueInv, bounds
<1>2. CASE Warmup
  BY <1>2 DEF Warmup, States
<1>3. CASE StartPing
  BY <1>3 DEF StartPing, LockFree
<1>4. CASE StartAdhoc
  BY <1>4 DEF StartAdhoc, Looked, ReadAll
<1>5. CASE SpawnPing
  BY <1>5 DEF SpawnPing, SuitePCs
<1>6. CASE DrawDue \/ Draw
  BY <1>6 DEF DrawDue, Draw
<1> QED
  BY <1>1, <1>2, <1>3, <1>4, <1>5, <1>6 DEF Main

LEMMA NextTypes == TypeOK /\ QueueInv /\ [Next]_vars => TypeOK' /\ QueueInv'
<1> SUFFICES ASSUME TypeOK, QueueInv, [Next]_vars PROVE TypeOK' /\ QueueInv'
  OBVIOUS
<1>1. CASE UNCHANGED vars
  BY <1>1 DEF vars, bounds, TypeOK, QueueInv
<1>2. CASE SetAdhoc
  BY <1>2 DEF SetAdhoc, TypeOK, QueueInv
<1>3. CASE WizardStep
  BY <1>3 DEF WizardStep, bounds, TypeOK, QueueInv
<1> QED
  BY <1>1, <1>2, <1>3, EngineTypes, SuiteTypes, PressTypes, MainTypes DEF Next

\* Types, and one thread in the lock at a time, however many pages ask for a ping
\* (app.py:224, 298, 469).
THEOREM TypeCorrect == Spec => []TypeOK
BY InitTypes, NextTypes, PTL DEF Spec

-------------------------------------------------------------------------------
(* The wizard's screen.                                                         *)

LEMMA NextOnScreen == TypeOK /\ WizardIsOnScreen /\ [Next]_vars => WizardIsOnScreen'
<1> SUFFICES ASSUME TypeOK, WizardIsOnScreen, [Next]_vars PROVE WizardIsOnScreen'
  OBVIOUS
<1> USE DEF WizardIsOnScreen, Active
<1>1. CASE UNCHANGED <<screen, wizard>>
  BY <1>1 DEF wizard, Wizard!Active
<1>2. CASE WizardStep
  \* A wizard that goes on by itself was under way.
  BY <1>2 DEF WizardStep, Wizard!Ask, Wizard!LeavePrompt, Wizard!SecondScan,
              Wizard!ShowDiff, Wizard!Finish, Wizard!Abort, Wizard!Active
<1>3. CASE OnButton
  <2>1. Head(queue) \in Buttons
    BY <1>3 DEF TypeOK, OnButton
  <2>2. CASE UNCHANGED <<screen, wizard>>
    BY <1>1, <2>2
  <2>3. CASE screen = "DISCOVER" /\ OnDiscover(Head(queue))
    BY <2>1, <2>3, OnDiscoverScreen DEF Wizard!Active
  <2>4. CASE screen # "DISCOVER" /\ OnOther(Head(queue))
    BY <2>1, <2>4, OnOtherScreen DEF wizard, Wizard!Active
  <2> QED
    BY <1>3, <2>2, <2>3, <2>4 DEF OnButton
<1>4. CASE Engine
  BY <1>1, <1>4 DEF Engine, EngineBegin, EngineRefreshed, EngineRaised,
              EngineAdhoc
<1>5. ASSUME NEW a \in Runners, Suite(a) \/ PingRun(a) PROVE WizardIsOnScreen'
  BY <1>1, <1>5 DEF Suite, SuiteStep, Complete, PingRun
<1>6. CASE SetAdhoc \/ Press
  BY <1>1, <1>6 DEF SetAdhoc, Press
<1>7. CASE Main /\ ~OnButton
  BY <1>1, <1>7 DEF Main, Warmup, StartPing, StartAdhoc, SpawnPing, DrawDue, Draw
<1>8. CASE UNCHANGED vars
  BY <1>1, <1>8 DEF vars
<1> QED
  BY <1>2, <1>3, <1>4, <1>5, <1>6, <1>7, <1>8 DEF Next

\* A wizard that is under way, and may be waiting, is on the screen the buttons go to,
\* in whatever order they are pressed and the wizard goes on (app.py:251-274).
THEOREM OnScreen == Spec => []WizardIsOnScreen
<1>1. Init => WizardIsOnScreen
  BY DEF Init, WizardIsOnScreen, Active, Wizard!Init, Wizard!Active
<1> QED
  BY TypeCorrect, <1>1, NextOnScreen, PTL DEF Spec

-------------------------------------------------------------------------------
(* What is shown of a ping.                                                     *)

LEMMA NextRunning ==
    TypeOK /\ Untouched /\ RunningIsTrue /\ [Next]_vars
    => Untouched' /\ RunningIsTrue'
<1> SUFFICES ASSUME TypeOK, Untouched, RunningIsTrue, [Next]_vars
             PROVE  Untouched' /\ RunningIsTrue'
  OBVIOUS
<1> USE DEF TypeOK, Untouched, RunningIsTrue, States
<1>1. CASE Engine
  BY <1>1 DEF Engine, EngineBegin, EngineRefreshed, EngineRaised,
              EngineAdhoc, SameState
<1>2. ASSUME NEW a \in Runners, SuiteStep(a) PROVE Untouched' /\ RunningIsTrue'
  <2>1. apc[Worker] # "idle" => apc'[Worker] # "idle"
    BY <1>2 DEF SuiteStep, Move, Looked, ReadAll, Runners
  <2>2. UNCHANGED <<current, ping, mpc>>
    BY <1>2 DEF SuiteStep
  <2> QED
    BY <2>1, <2>2
<1>3. ASSUME NEW a \in Runners, Complete(a) PROVE Untouched' /\ RunningIsTrue'
  <2>1. ping' \in [States -> [running : BOOLEAN, results : BOOLEAN]] /\ ~ping'[current].running
    BY <1>3 DEF Complete, Ended
  <2> QED
    BY <1>3, <2>1 DEF Complete, Ended
<1>4. ASSUME NEW a \in Runners, PingRun(a) PROVE Untouched' /\ RunningIsTrue'
  BY <1>4, UIAssumption DEF PingRun, Runners
<1>5. CASE SetAdhoc \/ Press \/ WizardStep
  BY <1>5 DEF SetAdhoc, Press, WizardStep
<1>6. CASE Warmup
  BY <1>6 DEF Warmup
<1>7. CASE OnButton
  BY <1>7 DEF OnButton
<1>8. CASE StartPing
  BY <1>8 DEF StartPing
<1>9. CASE StartAdhoc
  BY <1>9 DEF StartAdhoc, Looked, ReadAll
<1>10. CASE SpawnPing
  BY <1>10 DEF SpawnPing, Runners
<1>11. CASE DrawDue \/ Draw
  BY <1>11 DEF DrawDue, Draw
<1>12. CASE UNCHANGED vars
  BY <1>12 DEF vars
<1> QED
  BY <1>1, <1>2, <1>3, <1>4, <1>5, <1>6, <1>7, <1>8, <1>9, <1>10, <1>11, <1>12
     DEF Next, Main, Suite

\* A ping shown as running has a worker, or the error of one, behind it, whoever else
\* runs pings on the same state (app.py:294-313).
THEOREM RunningHolds == Spec => []RunningIsTrue
<1>1. Init => Untouched /\ RunningIsTrue
  BY DEF Init, Untouched, RunningIsTrue, States
<1>2. TypeOK /\ Untouched /\ RunningIsTrue /\ [Next]_vars => Untouched' /\ RunningIsTrue'
  BY NextRunning
<1> QED
  BY TypeCorrect, <1>1, <1>2, PTL DEF Spec

\* Results stay, once the engine's state is shown, until those of another suite are
\* there (app.py:182-185, engine.py:33-42).
LEMMA NextKeeps ==
    ASSUME TypeOK, [Next]_vars, current = "engine", ping[current].results
    PROVE  ping'[current'].results
<1> USE DEF TypeOK, States
<1>1. CASE Engine
  BY <1>1 DEF Engine, EngineBegin, EngineRefreshed, EngineRaised,
              EngineAdhoc, SameState
<1>2. ASSUME NEW a \in Runners, Suite(a) \/ PingRun(a) PROVE ping'[current'].results
  BY <1>2 DEF Suite, SuiteStep, Complete, Ended, PingRun
<1>3. CASE SetAdhoc \/ Press \/ WizardStep
  BY <1>3 DEF SetAdhoc, Press, WizardStep
<1>4. CASE Main
  BY <1>4 DEF Main, Warmup, OnButton, StartPing, StartAdhoc, SpawnPing, DrawDue, Draw
<1>5. CASE UNCHANGED vars
  BY <1>5 DEF vars
<1> QED
  BY <1>1, <1>2, <1>3, <1>4, <1>5 DEF Next

\* The same of every behaviour (app.py:224-228).
THEOREM ResultsStay == Spec => ResultsAreKept
<1>1. TypeOK /\ [Next]_vars
      => [current = "engine" /\ ping[current].results => ping'[current'].results]_vars
  BY NextKeeps
<1> QED
  BY TypeCorrect, <1>1, PTL DEF Spec, ResultsAreKept

===============================================================================
