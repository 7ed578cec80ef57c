CONSTANTS
    MillisBits = 7
    VmSlices <- Slices
    NONE = NONE

SPECIFICATION Spec
\* The host makes no call after it has been told the VM finished.
CHECK_DEADLOCK FALSE

INVARIANT TypeOK
