------------------------------ MODULE UpDownRun -------------------------------
(* What the Up/Down wizard promises its user (ndp/discovery/wizard.py): one    *)
(* run at a time goes through the steps in their order, a prompt is passed     *)
(* only by the user's answer, a result exists only at the end, and a run that  *)
(* is aborted goes back to idle and leaves no result.                          *)
EXTENDS Naturals

VARIABLES
    stage,      \* the step the user sees
    confirmed,  \* the user has answered the prompt of this step
    outcome     \* a result is available

vars == <<stage, confirmed, outcome>>

Init == stage = "idle" /\ confirmed = FALSE /\ outcome = FALSE

Active == {"scanning_baseline", "wait_unplug", "prepare_second_scan",
           "scanning_after", "show_diff", "verify_replug", "scanning_verify"}

\* The user starts a run from idle, or over the result of the last one.
Start ==
    /\ stage \in {"idle", "done"}
    /\ stage' = "scanning_baseline"
    /\ outcome' = FALSE
    /\ UNCHANGED confirmed

\* A finished run is cleared away.
Reset ==
    /\ stage = "done"
    /\ stage' = "idle"
    /\ outcome' = FALSE
    /\ UNCHANGED confirmed

\* The wizard asks: for the cable to be unplugged, then to be plugged in again.
Ask ==
    /\ \/ stage = "scanning_baseline" /\ stage' = "wait_unplug"
       \/ stage = "scanning_after" /\ stage' = "verify_replug"
    /\ confirmed' = FALSE
    /\ UNCHANGED outcome

Confirm ==
    /\ stage \in {"wait_unplug", "verify_replug"}
    /\ confirmed' = TRUE
    /\ UNCHANGED <<stage, outcome>>

\* A prompt is left when it is answered, or because the run is being aborted:
\* the next step is shown, and only an answer lets it go further.
LeavePrompt ==
    /\ \/ stage = "wait_unplug" /\ stage' = "prepare_second_scan"
       \/ stage = "verify_replug" /\ stage' = "scanning_verify"
    /\ UNCHANGED <<confirmed, outcome>>

SecondScan ==
    /\ stage = "prepare_second_scan"
    /\ confirmed
    /\ stage' = "scanning_after"
    /\ UNCHANGED <<confirmed, outcome>>

ShowDiff ==
    /\ stage = "scanning_after"
    /\ stage' = "show_diff"
    /\ UNCHANGED <<confirmed, outcome>>

\* The run ends: no replug check was due, the user skipped it, or it was made.
Finish ==
    /\ stage \in {"show_diff", "verify_replug", "scanning_verify"}
    /\ confirmed
    /\ stage' = "done"
    /\ outcome' = TRUE
    /\ UNCHANGED confirmed

Abort ==
    /\ stage \in Active
    /\ stage' = "idle"
    /\ UNCHANGED <<confirmed, outcome>>

Next == Start \/ Reset \/ Ask \/ Confirm \/ LeavePrompt \/ SecondScan
        \/ ShowDiff \/ Finish \/ Abort

Spec == Init /\ [][Next]_vars

===============================================================================
