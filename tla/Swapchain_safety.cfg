\* Two slices, every kind of swapchain, and frames that use a slice in two
\* layers; a ring of two images wraps around as often as it can.
CONSTANTS
    Length = 2
    ArraySize = 2
    Kinds = {"direct", "copy"}
    Statics = {TRUE, FALSE}
    Alphas = {TRUE}
    Upscales = {TRUE, FALSE}
    StaticReuse = TRUE
    MaxLayers = 2
SPECIFICATION Spec
CHECK_DEADLOCK FALSE
INVARIANTS
    NoTearing
    ShownIsLatest
    CorrectedOnce
    FreedOnce
