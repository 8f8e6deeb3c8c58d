\* Both submission modes; the second session meets what the first left.
CONSTANTS
    Swapchains = {sc1}
    AsyncModes = {TRUE, FALSE}
    MaxFrames = 3
    MaxSessions = 2
SPECIFICATION FairSpec
INVARIANTS
    OvrCallOrder
    SubmitsLiveSwapchains
    SubmissionContextExclusive
PROPERTIES
    NoFrameShownTwice
    ImplementsContract
    CallsReturn
    PublishedFrameIsShown
