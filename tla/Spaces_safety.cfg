\* Two threads, two addresses, two sessions, each tracker extension in turn.
CONSTANTS
    t1 = t1
    t2 = t2
    a1 = a1
    a2 = a2
    Threads <- MCThreads
    Makers <- MCMakers
    Addresses <- MCAddresses
    Null = Null
    Extensions <- OneExtension
    MaxSessions = 2
    NestedEyeGaze = FALSE
SPECIFICATION Spec
INVARIANTS
    RegistriesMatchHeap
    NoUseAfterFree
    HandlesTiedToSession
    NoCircularWait
SYMMETRY MCSymmetry
