\* Two action sets, bound to one trigger, over any number
\* of sessions.
CONSTANTS
    gameplay = gameplay
    overlay = overlay
    jump = jump
    fire = fire
    ActionSets = {gameplay, overlay}
    Handles = {jump, fire}
    SetOf <- MCSetOf
    MaxPriority = 1
    Priority <- MCPriority
    Overriding = {0}
    Sides = {"right"}
    Profiles = {"touch", "simple"}
    Preference <- MCPreference
    Inputs = {"value", "click", "system"}
    Mapped <- MCMapped
    Indexed <- MCIndexed
    Types = {"touch"}
    Suggestions <- MCOneTrigger
SPECIFICATION Spec
INVARIANTS
    SourcesMatchProfile
    ProfileAnnounced
    HigherSetWins
    SyncedStateIsACopy
    NoInputLost
