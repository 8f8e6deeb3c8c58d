\* Two headsets, any sequence of instances, systems and sessions.
CONSTANTS
    d1 = d1
    d2 = d2
    Devices <- MCDevices
    None = None
SPECIFICATION FairSpec
INVARIANTS
    WatcherReadsMappedView
    ThreadsOfSession
    MirrorTexturesTied
    OvrSessionsTied
PROPERTIES CallsReturn
