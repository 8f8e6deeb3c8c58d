\* Two sessions, headless or not, two refresh rates, the three world-locked
\* spaces.
CONSTANTS
    HeadlessModes = {TRUE, FALSE}
    LocalFloor = TRUE
    Rates = {72, 90}
    DisplayRefreshRate = TRUE
    Masks = {TRUE}
    MaxSessions = 2
    MaxQueued = 2
SPECIFICATION Spec
INVARIANTS
    SettledBetweenCalls
    RecenterAnnounced
    MaskAnnounced
    RateAnnounced
PROPERTY ImplementsContract
