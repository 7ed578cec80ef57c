CONSTANTS
    NULL = NULL
    Threads = {t1, t2, t3}
    SignalSet = {"NETWORK_READ_SIGNAL", "NETWORK_WRITE_SIGNAL"}
    Descriptors = {0, 5}

SPECIFICATION Spec

INVARIANT DrawRgbInBuffer
