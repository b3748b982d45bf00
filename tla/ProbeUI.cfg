\* Two buttons, two requests: a ping on the display and one from the page, with
\* the adhoc host changed meanwhile, or the wizard left and answered.
SPECIFICATION FairSpec
CONSTANTS
    Worker = worker
    Web = {web}
    MaxPresses = 2
    MaxRequests = 2
INVARIANTS
    TypeOK
    WizardIsOnScreen
    RunningIsTrue
PROPERTIES
    ResultsAreKept
    ButtonsAreHandled
    EngineIsServed
CHECK_DEADLOCK FALSE
