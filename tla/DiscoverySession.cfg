\* One caller at a time who keeps answering, two threads: the run that ends and the one
\* that follows.
SPECIFICATION AnsweredSpec
CONSTANTS
    Workers = {w1, w2}
    Handlers = {h}
    Ops <- UIOps
    Ticks = 2
    None = None
INVARIANTS
    IInv
    OneRun
    ScansFollowConfirmation
    PromptFlagsAreTrue
    ResultIsOfLastRun
PROPERTIES
    RunsEnd
    ImplementsUpDownRun
