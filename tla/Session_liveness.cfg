\* One session, headless or not, with nothing else to announce.
CONSTANTS
    HeadlessModes = {TRUE, FALSE}
    LocalFloor = FALSE
    Rates = {72}
    DisplayRefreshRate = FALSE
    Masks = {FALSE}
    MaxSessions = 1
    MaxQueued = 1
SPECIFICATION FairSpec
PROPERTY ExitIsHeard
