\* OpenXR 1.1: all the paths of any profile, and some applications of each kind.
CONSTANTS
    ApiMinor = 1
    Extensions <- MCExtensions
    None = None
    Setups <- MCSetups
SPECIFICATION Spec
INVARIANTS
    SourcesMatchTheirNames
    VibrationIsAsked
    EmulatedHidesPhysical
PROPERTY
    ChangesToldOnce
