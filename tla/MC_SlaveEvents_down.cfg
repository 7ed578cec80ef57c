CONSTANTS
    NULL = NULL
    Threads = {t1, t2}
    Events <- CoreEvents
    ThreadKeys <- Keys
    PushFds = {5}
    PushAlarms = {9}
    MediaMarker = 100
    VolumeChanged = 8
    MaxQueue = 1
    SIGNAL_RESET = 11
    SIGNAL_XFER = 12
    SIGNAL_LOCK = 13
    JSR120 = FALSE

SPECIFICATION Spec
SYMMETRY Symmetry

PROPERTY NetworkDownReleasesAllWaiters
