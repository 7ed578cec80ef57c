CONSTANTS
    NULL = NULL
    Dims <- Sizes
    PixArgs = {"callerPix"}
    AlphaArgs = {NULL}
    SameSize = TRUE
    MallocCanFail = TRUE

SPECIFICATION Spec

INVARIANT DecodedImageComplete

