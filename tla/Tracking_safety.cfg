\* Applications of seven kinds, two heights, in and out of stage tracking.
CONSTANTS
    Heights = {1, 3}
    MaxTime = 3
    Second = 1
    Setups <- MCSetups
    Ipd = 2
    None = None
SPECIFICATION Spec
INVARIANTS
    TrackedIsNow
    SpacesCompose
    HandsInPlace
    FloorNotMadeUp
    RealIpdSubmitted
