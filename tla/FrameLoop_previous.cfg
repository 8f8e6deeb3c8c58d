\* Asynchronous submission: is the previous frame submitted when the next one
\* is composed?
CONSTANTS
    Swapchains = {sc1}
    AsyncModes = {TRUE}
    MaxFrames = 2
    MaxSessions = 1
SPECIFICATION Spec
INVARIANT PreviousFrameFinished
