------------------------ MODULE DiscoverySessionProofs ------------------------
(* The session is correct for every number of threads and of seconds to wait,  *)
(* as long as its operations are called one at a time and reset() is not among *)
(* them (Serial).                                                              *)
(*                                                                             *)
(* The argument: the types, flags first since provers treat Booleans apart;    *)
(* then IInv, which each step of a worker (WorkInv) and of a caller (HandleInv)*)
(* preserves; the safety properties follow from IInv, and with IInv every step *)
(* is one of UpDownRun or changes nothing it shows (WorkRefines, HandleRefines).*)
EXTENDS DiscoverySessionInv, TLAPS

\* The variables of a fresh session have their types.
LEMMA TypeInit == Init => TypeOK
<1> SUFFICES ASSUME Init PROVE TypeOK
  OBVIOUS
<1>1. FlagsOK
  BY DEF Init, FlagsOK
<1> QED
  BY <1>1, SessionAssumption
     DEF Init, TypeOK, Phases, WorkerPCs, HandlerPCs, AllOps

\* A worker's step keeps the flags Boolean.
LEMMA WorkFlags ==
    ASSUME TypeOK, NEW w \in Workers, Work(w)
    PROVE  FlagsOK'
<1> FlagsOK
  BY DEF TypeOK
<1> USE DEF FlagsOK, sessionVars, promptVars, runVars
<1>1. CASE Begin(w)
  BY <1>1 DEF Begin
<1>2. CASE CheckCancel(w)
  BY <1>2 DEF CheckCancel
<1>3. CASE ScanDone(w)
  BY <1>3 DEF ScanDone, Enter
<1>4. CASE VerifyScanDone(w)
  BY <1>4 DEF VerifyScanDone
<1>5. CASE CommandFails(w)
  BY <1>5 DEF CommandFails
<1>6. CASE OpenPrompt(w)
  BY <1>6 DEF OpenPrompt, ClearedAnswer
<1>7. CASE WakeUp(w)
  BY <1>7 DEF WakeUp
<1>8. CASE ClosePrompt(w)
  BY <1>8 DEF ClosePrompt, Enter
<1>9. CASE FlushDone(w)
  BY <1>9 DEF FlushDone
<1>10. CASE StartTick(w)
  BY <1>10 DEF StartTick
<1>11. CASE EndTick(w)
  BY <1>11 DEF EndTick, LastTick, Enter
<1>12. CASE Return(w)
  BY <1>12 DEF Return
<1>13. CASE Abort(w)
  BY <1>13 DEF Abort
<1>14. CASE Finally1(w)
  BY <1>14 DEF Finally1
<1>15. CASE Finally2(w)
  BY <1>15 DEF Finally2
<1>16. CASE Finally3(w)
  BY <1>16 DEF Finally3
<1> QED
  BY <1>1, <1>2, <1>3, <1>4, <1>5, <1>6, <1>7, <1>8, <1>9, <1>10, <1>11,
     <1>12, <1>13, <1>14, <1>15, <1>16 DEF Work

\* A worker's step keeps the types; the countdown's needs that there is a second
\* left to wait, which PhaseInv says.
LEMMA WorkType ==
    ASSUME TypeOK, NEW w \in Workers, Work(w),
           wpc[w] = "sleep" => ticks[w] > 0
    PROVE  TypeOK'
<1> USE DEF TypeOK, WorkerPCs, Go
<1> FlagsOK'
  BY WorkFlags
<1>1. CASE Begin(w)
  BY <1>1 DEF Begin, sessionVars, promptVars, handlerVars, Phases
<1>2. CASE CheckCancel(w)
  BY <1>2 DEF CheckCancel, sessionVars, promptVars, runVars, handlerVars, AfterCheck
<1>3. CASE ScanDone(w)
  BY <1>3 DEF ScanDone, Enter, runVars, handlerVars, Phases
<1>4. CASE VerifyScanDone(w)
  BY <1>4 DEF VerifyScanDone, sessionVars, promptVars, runVars, handlerVars
<1>5. CASE CommandFails(w)
  BY <1>5 DEF CommandFails, sessionVars, promptVars, runVars, handlerVars
<1>6. CASE OpenPrompt(w)
  BY <1>6 DEF OpenPrompt, ClearedAnswer, runVars, handlerVars
<1>7. CASE WakeUp(w)
  BY <1>7 DEF WakeUp, sessionVars, promptVars, runVars, handlerVars
<1>8. CASE ClosePrompt(w)
  BY <1>8, SessionAssumption DEF ClosePrompt, Enter, runVars, handlerVars, Phases
<1>9. CASE FlushDone(w)
  BY <1>9 DEF FlushDone, sessionVars, promptVars, runVars, handlerVars
<1>10. CASE StartTick(w)
  BY <1>10 DEF StartTick, sessionVars, promptVars, handlerVars
<1>11. CASE EndTick(w)
  BY <1>11, SessionAssumption DEF EndTick, LastTick, Enter, handlerVars, Phases
<1>12. CASE Return(w)
  BY <1>12 DEF Return, sessionVars, promptVars, handlerVars, Phases
<1>13. CASE Abort(w)
  BY <1>13 DEF Abort, sessionVars, promptVars, handlerVars, Phases
<1>14. CASE Finally1(w)
  BY <1>14 DEF Finally1, sessionVars, promptVars, handlerVars
<1>15. CASE Finally2(w)
  BY <1>15 DEF Finally2, handlerVars
<1>16. CASE Finally3(w)
  BY <1>16 DEF Finally3, sessionVars, promptVars, handlerVars
<1> QED
  BY <1>1, <1>2, <1>3, <1>4, <1>5, <1>6, <1>7, <1>8, <1>9, <1>10, <1>11,
     <1>12, <1>13, <1>14, <1>15, <1>16 DEF Work

\* A caller's step keeps the flags Boolean.
LEMMA HandleFlags ==
    ASSUME TypeOK, NEW h \in Handlers, Handle(h)
    PROVE  FlagsOK'
<1> FlagsOK
  BY DEF TypeOK
<1> USE DEF FlagsOK, sessionVars, promptVars, runVars
<1>1. ASSUME NEW op \in Ops, Call(h, op) PROVE FlagsOK'
  BY <1>1 DEF Call
<1>2. CASE Answer(h)
  BY <1>2 DEF Answer, CanAnswer
<1>3. CASE NoPrompt(h)
  BY <1>3 DEF NoPrompt, CanAnswer
<1>4. CASE IsIdle(h)
  BY <1>4 DEF IsIdle, NoThread
<1>5. CASE IsAlive(h)
  BY <1>5 DEF IsAlive
<1>6. CASE SelectBusy(h)
  BY <1>6 DEF SelectBusy, Finished
<1>7. CASE Cancel1(h)
  BY <1>7 DEF Cancel1
<1>8. CASE Cancel2(h)
  BY <1>8 DEF Cancel2
<1>9. CASE Join1(h)
  BY <1>9 DEF Join1
<1>10. CASE Join2(h)
  BY <1>10 DEF Join2
<1>11. CASE Join3(h)
  BY <1>11 DEF Join3
<1>12. CASE Clear(h)
  BY <1>12 DEF Clear
<1>13. CASE Write(h)
  BY <1>13 DEF Write, StartResult
<1>14. CASE Spawn(h)
  BY <1>14 DEF Spawn
<1>15. CASE Launch(h)
  BY <1>15 DEF Launch
<1> QED
  BY <1>1, <1>2, <1>3, <1>4, <1>5, <1>6, <1>7, <1>8, <1>9, <1>10, <1>11,
     <1>12, <1>13, <1>14, <1>15 DEF Handle, Continue

\* A caller's step keeps the types.
LEMMA HandleType ==
    ASSUME TypeOK, NEW h \in Handlers, Handle(h)
    PROVE  TypeOK'
<1> USE SessionAssumption
    DEF TypeOK, HandlerPCs, AllOps, At, sessionVars, promptVars, runVars, workerVars
<1> FlagsOK'
  BY HandleFlags
<1>1. ASSUME NEW op \in Ops, Call(h, op) PROVE TypeOK'
  BY <1>1 DEF Call
<1>2. CASE Answer(h)
  BY <1>2 DEF Answer, CanAnswer
<1>3. CASE NoPrompt(h)
  BY <1>3 DEF NoPrompt, CanAnswer
<1>4. CASE IsIdle(h)
  BY <1>4 DEF IsIdle, NoThread, IfIdle, IfBusy
<1>5. CASE IsAlive(h)
  BY <1>5 DEF IsAlive, IfIdle, IfBusy
<1>6. CASE SelectBusy(h)
  BY <1>6 DEF SelectBusy, Finished
<1>7. CASE Cancel1(h)
  BY <1>7 DEF Cancel1
<1>8. CASE Cancel2(h)
  BY <1>8 DEF Cancel2
<1>9. CASE Join1(h)
  BY <1>9 DEF Join1
<1>10. CASE Join2(h)
  BY <1>10 DEF Join2
<1>11. CASE Join3(h)
  BY <1>11 DEF Join3
<1>12. CASE Clear(h)
  BY <1>12 DEF Clear, Phases
<1>13. CASE Write(h)
  BY <1>13 DEF Write, StartResult, Phases
<1>14. CASE Spawn(h)
  BY <1>14 DEF Spawn, Go, Phases, WorkerPCs
<1>15. CASE Launch(h)
  BY <1>15 DEF Launch, Go, WorkerPCs
<1> QED
  BY <1>1, <1>2, <1>3, <1>4, <1>5, <1>6, <1>7, <1>8, <1>9, <1>10, <1>11,
     <1>12, <1>13, <1>14, <1>15 DEF Handle, Continue

\* A worker's step, of whatever the thread is at, keeps the invariant.
LEMMA WorkInv ==
    ASSUME IInv, TypeOK', Serial, NEW w \in Workers, Work(w)
    PROVE  IInv'
<1> USE SessionAssumption
    DEF IInv, TypeOK, ThreadInv, PhaseInv, PromptInv, ConfirmInv, HandlerInv,
        ResultIsOfLastRun, InRun, Ending, Asking, Scans, Prompts, Go,
        sessionVars, promptVars, runVars, handlerVars
<1>1. CASE Begin(w)
  BY <1>1 DEF Begin
<1>2. CASE CheckCancel(w)
  BY <1>2 DEF CheckCancel, AfterCheck, Phases
<1>3. CASE ScanDone(w)
  <2>1. ThreadInv'
    BY <1>3 DEF ScanDone, Enter
  <2>2. PhaseInv'
    BY <1>3 DEF ScanDone, Enter
  <2>3. PromptInv'
    BY <1>3 DEF ScanDone, Enter
  <2>4. ConfirmInv'
    <3>1. wpc'[w] = "check" => ~answered' /\ phase' \in Prompts
      BY <1>3 DEF ScanDone, Enter
    <3>2. wpc'[w] = "return" => answered'
      BY <1>3, FlagsOK DEF ScanDone, Enter, FlagsOK
    <3>3. wpc'[w] \in {"check", "return"} /\ \A v \in Workers : v # w => wpc'[v] = "gone"
      BY <1>3 DEF ScanDone
    <3> QED
      BY <3>1, <3>2, <3>3
  <2>5. HandlerInv'
    BY <1>3 DEF ScanDone, Enter
  <2>6. ResultIsOfLastRun'
    BY <1>3 DEF ScanDone, Enter
  <2> QED
    BY <2>1, <2>2, <2>3, <2>4, <2>5, <2>6
<1>4. CASE VerifyScanDone(w)
  BY <1>4 DEF VerifyScanDone
<1>5. CASE CommandFails(w)
  BY <1>5 DEF CommandFails
<1>6. CASE OpenPrompt(w)
  <2>1. ThreadInv'
    BY <1>6 DEF OpenPrompt, ClearedAnswer
  <2>2. PhaseInv'
    BY <1>6 DEF OpenPrompt, ClearedAnswer
  <2>3. PromptInv'
    BY <1>6 DEF OpenPrompt, ClearedAnswer
  <2>4. ConfirmInv'
    BY <1>6 DEF OpenPrompt, ClearedAnswer
  <2>5. HandlerInv'
    BY <1>6 DEF OpenPrompt, ClearedAnswer
  <2>6. ResultIsOfLastRun'
    BY <1>6 DEF OpenPrompt, ClearedAnswer
  <2> QED
    BY <2>1, <2>2, <2>3, <2>4, <2>5, <2>6
<1>7. CASE WakeUp(w)
  BY <1>7 DEF WakeUp
<1>8. CASE ClosePrompt(w)
  <2>1. ThreadInv'
    BY <1>8 DEF ClosePrompt, Enter
  <2>2. PhaseInv'
    BY <1>8 DEF ClosePrompt, Enter
  <2>3. PromptInv'
    BY <1>8 DEF ClosePrompt, Enter
  <2>4. ConfirmInv'
    <3>1. wpc'[w] \in {"check", "checkFlush"} => answered' \/ cancel'
      BY <1>8 DEF ClosePrompt, Enter
    <3>2. wpc'[w] = "return" => answered'
      BY <1>8 DEF ClosePrompt
    <3>3. /\ wpc'[w] \in {"check", "checkFlush", "return"}
          /\ wpc'[w] = "check" => phase' \notin Prompts
          /\ \A v \in Workers : v # w => wpc'[v] = "gone"
      BY <1>8 DEF ClosePrompt, Enter
    <3> QED
      BY <3>1, <3>2, <3>3
  <2>5. HandlerInv'
    BY <1>8 DEF ClosePrompt, Enter
  <2>6. ResultIsOfLastRun'
    BY <1>8 DEF ClosePrompt, Enter
  <2> QED
    BY <2>1, <2>2, <2>3, <2>4, <2>5, <2>6
<1>9. CASE FlushDone(w)
  BY <1>9 DEF FlushDone
<1>10. CASE StartTick(w)
  BY <1>10 DEF StartTick
<1>11. CASE EndTick(w)
  <2>1. ThreadInv'
    BY <1>11 DEF EndTick, LastTick, Enter
  <2>2. PhaseInv'
    BY <1>11 DEF EndTick, LastTick, Enter
  <2>3. PromptInv'
    BY <1>11 DEF EndTick, LastTick, Enter
  <2>4. ConfirmInv'
    <3>1. answered'
      BY <1>11 DEF EndTick, LastTick, Enter
    <3>2. /\ wpc'[w] = "check"
          /\ phase' \notin Prompts
          /\ \A v \in Workers : v # w => wpc'[v] = "gone"
      BY <1>11 DEF EndTick, LastTick, Enter
    <3> QED
      BY <3>1, <3>2
  <2>5. HandlerInv'
    BY <1>11 DEF EndTick, LastTick, Enter
  <2>6. ResultIsOfLastRun'
    BY <1>11 DEF EndTick, LastTick, Enter
  <2> QED
    BY <2>1, <2>2, <2>3, <2>4, <2>5, <2>6
<1>12. CASE Return(w)
  BY <1>12 DEF Return
<1>13. CASE Abort(w)
  BY <1>13 DEF Abort
<1>14. CASE Finally1(w)
  BY <1>14 DEF Finally1
<1>15. CASE Finally2(w)
  BY <1>15 DEF Finally2
<1>16. CASE Finally3(w)
  BY <1>16 DEF Finally3
<1> QED
  BY <1>1, <1>2, <1>3, <1>4, <1>5, <1>6, <1>7, <1>8, <1>9, <1>10, <1>11,
     <1>12, <1>13, <1>14, <1>15, <1>16 DEF Work

\* A caller's step keeps the invariant, if it is the only caller and does not
\* reset: start() finds no thread left, and select restarts a finished run only
\* once its thread is gone.
LEMMA HandleInv ==
    ASSUME IInv, TypeOK', Serial, NEW h \in Handlers, Handle(h)
    PROVE  IInv'
<1> USE SessionAssumption
    DEF IInv, TypeOK, ThreadInv, PhaseInv, PromptInv, ConfirmInv, HandlerInv,
        ResultIsOfLastRun, InRun, Ending, Asking, Scans, Prompts, Serial, At,
        sessionVars, promptVars, runVars, workerVars
<1>1. ASSUME NEW op \in Ops, Call(h, op) PROVE IInv'
  BY <1>1 DEF Call, AllOps
<1>2. CASE Answer(h)
  <2>1. ThreadInv'
    BY <1>2 DEF Answer, CanAnswer
  <2>2. PhaseInv'
    BY <1>2 DEF Answer, CanAnswer
  <2>3. PromptInv'
    BY <1>2 DEF Answer, CanAnswer
  <2>4. ConfirmInv'
    BY <1>2 DEF Answer, CanAnswer
  <2>5. HandlerInv'
    BY <1>2 DEF Answer, CanAnswer
  <2>6. ResultIsOfLastRun'
    BY <1>2 DEF Answer, CanAnswer
  <2> QED
    BY <2>1, <2>2, <2>3, <2>4, <2>5, <2>6
<1>3. CASE NoPrompt(h)
  BY <1>3 DEF NoPrompt, CanAnswer
<1>4. CASE IsIdle(h)
  BY <1>4 DEF IsIdle, NoThread, IfIdle, IfBusy
<1>5. CASE IsAlive(h)
  BY <1>5 DEF IsAlive, IfIdle, IfBusy
<1>6. CASE SelectBusy(h)
  BY <1>6 DEF SelectBusy, Finished
<1>7. CASE Cancel1(h)
  BY <1>7 DEF Cancel1
<1>8. CASE Cancel2(h)
  BY <1>8 DEF Cancel2
<1>9. CASE Join1(h)
  BY <1>9 DEF Join1
<1>10. CASE Join2(h)
  BY <1>10 DEF Join2
<1>11. CASE Join3(h)
  BY <1>11 DEF Join3
<1>12. CASE Clear(h)
  BY <1>12 DEF Clear
<1>13. CASE Write(h)
  BY <1>13 DEF Write, StartResult
<1>14. CASE Spawn(h)
  BY <1>14 DEF Spawn, Go, Fresh
<1>15. CASE Launch(h)
  BY <1>15 DEF Launch, Go
<1> QED
  BY <1>1, <1>2, <1>3, <1>4, <1>5, <1>6, <1>7, <1>8, <1>9, <1>10, <1>11,
     <1>12, <1>13, <1>14, <1>15 DEF Handle, Continue

\* A step that changes nothing keeps the invariant.
LEMMA StutterInv == IInv /\ UNCHANGED vars => IInv'
BY DEF IInv, TypeOK, FlagsOK, ThreadInv, PhaseInv, PromptInv, ConfirmInv,
       HandlerInv, ResultIsOfLastRun, InRun, vars, sessionVars, promptVars, runVars,
       workerVars, handlerVars

\* A fresh session satisfies the invariant.
LEMMA InitInv == Init => IInv
<1> SUFFICES ASSUME Init PROVE IInv
  OBVIOUS
<1>1. TypeOK
  BY TypeInit
<1>2. ThreadInv /\ PhaseInv /\ HandlerInv /\ ResultIsOfLastRun
  BY SessionAssumption
     DEF Init, ThreadInv, PhaseInv, HandlerInv, ResultIsOfLastRun, InRun,
         Ending, Asking
<1>3. PromptInv
  BY DEF Init, PromptInv
<1>4. ConfirmInv
  BY DEF Init, ConfirmInv
<1> QED
  BY <1>1, <1>2, <1>3, <1>4 DEF IInv

\* The invariant is inductive.
LEMMA NextInv == IInv /\ Serial /\ [Next]_vars => IInv'
<1> SUFFICES ASSUME IInv, Serial, [Next]_vars PROVE IInv'
  OBVIOUS
<1>1. ASSUME NEW w \in Workers, Work(w) PROVE IInv'
  <2>1. wpc[w] = "sleep" => ticks[w] > 0
    BY DEF IInv, PhaseInv, InRun, Ending
  <2>2. TypeOK'
    BY <1>1, <2>1, WorkType DEF IInv
  <2> QED
    BY <1>1, <2>2, WorkInv
<1>2. ASSUME NEW h \in Handlers, Handle(h) PROVE IInv'
  BY <1>2, HandleType, HandleInv DEF IInv
<1> QED
  BY <1>1, <1>2, StutterInv DEF Next

\* With one caller at a time that does not reset, IInv holds of every state of
\* the session, whatever the number of threads and of seconds to wait.
THEOREM Invariance == Serial => (Spec => []IInv)
<1> SUFFICES ASSUME Serial PROVE Spec => []IInv
  OBVIOUS
<1>1. IInv /\ [Next]_vars => IInv'
  BY NextInv
<1> QED
  BY InitInv, <1>1, PTL DEF Spec

\* What the invariant says implies the safety properties.
LEMMA InvImpliesSafety ==
    IInv => /\ TypeOK
            /\ OneRun
            /\ ScansFollowConfirmation
            /\ PromptFlagsAreTrue
            /\ ResultIsOfLastRun
<1> SUFFICES ASSUME IInv
             PROVE  OneRun /\ ScansFollowConfirmation /\ PromptFlagsAreTrue
  BY DEF IInv
<1> USE DEF IInv
<1>1. OneRun
  BY DEF OneRun, ThreadInv
<1>2. ScansFollowConfirmation
  BY DEF ScansFollowConfirmation, ConfirmInv, PhaseInv, InRun, Ending
<1>3. PromptFlagsAreTrue
  <2>1. thread # None => thread \in Workers
    BY DEF TypeOK
  <2> QED
    BY <2>1 DEF PromptFlagsAreTrue, PromptInv, PhaseInv, InRun, Ending
<1> QED
  BY <1>1, <1>2, <1>3

\* The session never has two wizard threads at work (discovery_session.py:64-87).
THEOREM OneRunAlways == Serial => (Spec => []OneRun)
BY Invariance, InvImpliesSafety, PTL

\* No later step of the wizard starts before the user has answered.
THEOREM ScansAlwaysConfirmed == Serial => (Spec => []ScansFollowConfirmation)
BY Invariance, InvImpliesSafety, PTL

\* The flags callers act on always describe a prompt that is open.
THEOREM PromptsAreTrue == Serial => (Spec => []PromptFlagsAreTrue)
BY Invariance, InvImpliesSafety, PTL

\* A result on display is always that of the last run.
THEOREM DisplayIsTrue == Serial => (Spec => []ResultIsOfLastRun)
BY Invariance, InvImpliesSafety, PTL

\* The variables always hold values of their types.
THEOREM TypeCorrect == Serial => (Spec => []TypeOK)
BY Invariance, InvImpliesSafety, PTL

-------------------------------------------------------------------------------
(* The session implements UpDownRun: every step of a worker or of its caller   *)
(* is a step of the run the user was promised, or leaves it unchanged.         *)

\* A worker's step is a step of the abstract run, or none.
LEMMA WorkRefines ==
    ASSUME IInv, NEW w \in Workers, Work(w)
    PROVE  [Run!Next]_Run!vars
<1> USE SessionAssumption
    DEF IInv, TypeOK, FlagsOK, ThreadInv, PhaseInv, PromptInv, ConfirmInv,
        ResultIsOfLastRun, InRun, Ending, Scans, Prompts, Asking, sessionVars, promptVars,
        runVars, Run!Next, Run!vars
<1>1. CASE Begin(w)
  BY <1>1 DEF Begin
<1>2. CASE CheckCancel(w)
  BY <1>2 DEF CheckCancel
<1>3. CASE ScanDone(w)
  BY <1>3 DEF ScanDone, Run!Ask, Run!ShowDiff, Enter
<1>4. CASE VerifyScanDone(w)
  BY <1>4 DEF VerifyScanDone
<1>5. CASE CommandFails(w)
  BY <1>5 DEF CommandFails
<1>6. CASE OpenPrompt(w)
  BY <1>6 DEF OpenPrompt, ClearedAnswer
<1>7. CASE WakeUp(w)
  BY <1>7 DEF WakeUp
<1>8. CASE ClosePrompt(w)
  BY <1>8 DEF ClosePrompt, Run!LeavePrompt, Run!Finish, Enter
<1>9. CASE FlushDone(w)
  BY <1>9 DEF FlushDone
<1>10. CASE StartTick(w)
  BY <1>10 DEF StartTick
<1>11. CASE EndTick(w)
  BY <1>11 DEF EndTick, LastTick, Run!SecondScan, Enter
<1>12. CASE Return(w)
  BY <1>12 DEF Return, Run!Finish
<1>13. CASE Abort(w)
  BY <1>13 DEF Abort, Phases, Run!Abort, Run!Active
<1>14. CASE Finally1(w)
  BY <1>14 DEF Finally1
<1>15. CASE Finally2(w)
  BY <1>15 DEF Finally2
<1>16. CASE Finally3(w)
  BY <1>16 DEF Finally3
<1> QED
  BY <1>1, <1>2, <1>3, <1>4, <1>5, <1>6, <1>7, <1>8, <1>9, <1>10, <1>11,
     <1>12, <1>13, <1>14, <1>15, <1>16 DEF Work

\* A caller's step is a step of the abstract run, or none: Reset is on_select on
\* a finished run, Confirm the answer to a prompt.
LEMMA HandleRefines ==
    ASSUME IInv, NEW h \in Handlers, Handle(h)
    PROVE  [Run!Next]_Run!vars
<1> USE DEF IInv, TypeOK, FlagsOK, ThreadInv, PhaseInv, PromptInv, HandlerInv,
            ResultIsOfLastRun, InRun, Ending, Prompts, Asking, sessionVars, promptVars,
            runVars, At, Run!Next, Run!vars
<1>1. ASSUME NEW op \in Ops, Call(h, op) PROVE [Run!Next]_Run!vars
  BY <1>1 DEF Call
<1>2. CASE Answer(h)
  BY <1>2 DEF Answer, CanAnswer, Run!Confirm
<1>3. CASE NoPrompt(h)
  BY <1>3 DEF NoPrompt, CanAnswer
<1>4. CASE IsIdle(h)
  BY <1>4 DEF IsIdle, NoThread
<1>5. CASE IsAlive(h)
  BY <1>5 DEF IsAlive
<1>6. CASE SelectBusy(h)
  BY <1>6 DEF SelectBusy, Finished
<1>7. CASE Cancel1(h)
  BY <1>7 DEF Cancel1
<1>8. CASE Cancel2(h)
  BY <1>8 DEF Cancel2
<1>9. CASE Join1(h)
  BY <1>9 DEF Join1
<1>10. CASE Join2(h)
  BY <1>10 DEF Join2
<1>11. CASE Join3(h)
  BY <1>11 DEF Join3
<1>12. CASE Clear(h)
  BY <1>12 DEF Clear, Run!Reset
<1>13. CASE Write(h)
  BY <1>13 DEF Write, StartResult, Run!Start
<1>14. CASE Spawn(h)
  BY <1>14 DEF Spawn
<1>15. CASE Launch(h)
  BY <1>15 DEF Launch
<1> QED
  BY <1>1, <1>2, <1>3, <1>4, <1>5, <1>6, <1>7, <1>8, <1>9, <1>10, <1>11,
     <1>12, <1>13, <1>14, <1>15 DEF Handle, Continue

\* For every number of threads and seconds, one caller at a time: the session
\* implements the run its user was promised.
THEOREM Refinement == Serial => (Spec => ImplementsUpDownRun)
<1> SUFFICES ASSUME Serial PROVE Spec => Run!Spec
  BY DEF ImplementsUpDownRun
<1>1. Init => Run!Init
  BY DEF Init, Run!Init
<1>2. IInv /\ [Next]_vars => [Run!Next]_Run!vars
  <2> SUFFICES ASSUME IInv, [Next]_vars PROVE [Run!Next]_Run!vars
    OBVIOUS
  <2>1. ASSUME UNCHANGED vars PROVE UNCHANGED Run!vars
    BY <2>1 DEF vars, sessionVars, promptVars, runVars, Run!vars
  <2> QED
    BY <2>1, WorkRefines, HandleRefines DEF Next
<1> QED
  BY <1>1, <1>2, Invariance, PTL DEF Spec, Run!Spec

===============================================================================
