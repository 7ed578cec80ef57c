CONSTANTS
    NULL = NULL
    Dims <- Sizes
    PixArgs = {"callerPix"}
    AlphaArgs = {"callerAlpha", NULL}
    SameSize = TRUE
    MallocCanFail = FALSE

SPECIFICATION Spec

INVARIANT DecodedImageComplete
INVARIANT NoMemoryFault
