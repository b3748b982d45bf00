------------------------- MODULE DiscoverySessionInv --------------------------
(* The inductive invariant behind the safety of DiscoverySession when its      *)
(* operations are called one at a time and reset() is not among them: the TFT, *)
(* whose button loop is a single thread, and a dashboard whose requests do not *)
(* overlap.  TLC checks it, DiscoverySessionProofs proves it.                  *)
EXTENDS DiscoverySession

Serial ==
    /\ \A g, h \in Handlers : g = h
    /\ "reset" \notin Ops

Ending == {"fin1", "fin2", "fin3"}

Asking == {"open", "wait", "awake"}

\* The worker is inside wizard.run().
InRun(w) == wpc[w] \notin {"gone", "created", "begin"} \cup Ending

\* _thread names the one thread there is.
ThreadInv ==
    /\ \A w \in Workers : wpc[w] # "gone" <=> thread = w
    /\ \A w \in Workers, h \in Handlers : wpc[w] = "created" => hpc[h] = "launch"
    /\ thread # None => thread = latest

\* The phase shown is that of the wizard, and where the worker stands fits it.
PhaseInv ==
    /\ \A w \in Workers :
          /\ wpc[w] \in {"created", "begin"} => phase = "scanning_baseline"
          /\ wpc[w] \in Ending => phase \in {"idle", "done"}
          /\ InRun(w) => /\ wizard = w
                         /\ phase = wphase[w]
                         /\ phase \notin {"idle", "done"}
          /\ wpc[w] = "check" => phase # "show_diff"
          /\ wpc[w] \in {"checkFlush", "flush", "tick", "sleep"}
                => phase = "prepare_second_scan"
          /\ wpc[w] = "scan" => phase \in Scans
          /\ wpc[w] \in Asking => phase \in Prompts
          /\ wpc[w] = "return"
                => phase \in {"show_diff", "verify_replug", "scanning_verify"}
          /\ InRun(w) /\ phase = "prepare_second_scan" => ticks[w] > 0
    /\ \A h \in Handlers :
          thread = None /\ hpc[h] # "spawn" => phase \in {"idle", "done"}

\* The prompt flags describe a worker that waits for the user.
PromptInv ==
    /\ waiting \/ allowSkip \/ skip =>
          /\ thread # None
          /\ wpc[thread] \in {"wait", "awake"}
    /\ allowSkip \/ skip => phase = "verify_replug"
    /\ skip => answered

\* A prompt is passed by the user's answer or by cancel(), and with cancel() the
\* run goes no further than its next check.
ConfirmInv ==
    \A w \in Workers :
        /\ wpc[w] = "wait" /\ answer => answered \/ cancel
        /\ wpc[w] \in {"awake", "checkFlush", "tick"} => answered \/ cancel
        /\ wpc[w] = "check" /\ phase \notin Prompts \cup {"scanning_baseline"}
              => answered \/ cancel
        /\ wpc[w] \in {"flush", "sleep", "return"} => answered
        /\ wpc[w] = "scan" /\ phase # "scanning_baseline" => answered
        /\ wpc[w] \in {"check", "open"} /\ phase \in Prompts => ~answered

\* What the handler under way knows.
HandlerInv ==
    \A h \in Handlers :
        /\ hop[h] # "reset"
        /\ hpc[h] = "cancel2" => cancel
        /\ hpc[h] \in {"clear", "idle2", "alive2", "write", "spawn"} => thread = None
        /\ hpc[h] = "spawn" => phase = "scanning_baseline"
        /\ hpc[h] = "launch" => thread # None /\ wpc[thread] = "created"
        /\ \/ hpc[h] \in {"join1", "join2", "join3"}
           \/ hpc[h] \in {"cancel1", "cancel2"} /\ hop[h] # "cancel"
           => (thread # None => wpc[thread] \in Ending)
        /\ (hpc[h] = "join3") => thread \in {None, joining[h]}

\* The invariant TLAPS proves inductive.
IInv ==
    /\ TypeOK
    /\ ThreadInv
    /\ PhaseInv
    /\ PromptInv
    /\ ConfirmInv
    /\ HandlerInv
    /\ ResultIsOfLastRun

===============================================================================
