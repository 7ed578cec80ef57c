CONSTANTS
    NULL = NULL
    Threads = {t1, t2}
    Events <- FullEvents
    ThreadKeys <- FullKeys
    PushFds = {5}
    PushAlarms = {9}
    MediaMarker = 100
    VolumeChanged = 8
    MaxQueue = 1
    SIGNAL_RESET = 3
    SIGNAL_XFER = 5
    SIGNAL_LOCK = 7
    JSR120 = TRUE

SPECIFICATION Spec
SYMMETRY Symmetry

INVARIANT TypeOK
 
