CONSTANTS
    NULL = NULL
    Dims <- Sizes
    PixArgs = {NULL}
    AlphaArgs = {"callerAlpha"}
    SameSize = TRUE
    MallocCanFail = FALSE

SPECIFICATION Spec

INVARIANT NoMemoryFault
