\* A swapchain that LibOVR shows directly.
CONSTANTS
    Length = 3
    ArraySize = 1
    Kinds = {"direct"}
    Statics = {FALSE}
    Alphas = {FALSE}
    Upscales = {FALSE}
    StaticReuse = TRUE
    MaxLayers = 1
SPECIFICATION Spec
CHECK_DEADLOCK FALSE
INVARIANT LayersShowRelease
