\* A user who cancels and presses nothing else.
SPECIFICATION FairSpec
CONSTANTS
    Workers = {w}
    Handlers = {h}
    Ops <- StartThenCancel
    Ticks = 1
    None = None
PROPERTIES
    CancelEndsRun
