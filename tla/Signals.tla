------------------------------ MODULE Signals ------------------------------
(***************************************************************************)
(* The vocabulary the decoder, the dispatcher and the abstract router      *)
(* share: the midpSignalType values of midp_slavemode_javacall.c, the      *)
(* statuses the router writes itself, the wait key of a blocked thread,    *)
(* the player descriptor packing, and the lookup tables of the push        *)
(* subsystem.                                                              *)
(***************************************************************************)
EXTENDS Registry, FiniteSets

CONSTANTS
    PushFds,       \* descriptors findPushBlockedHandle answers non-zero for
    PushAlarms,    \* alarm handles findPushTimerBlockedHandle answers non-zero for
    MediaMarker,   \* JAVACALL_EVENT_MEDIA_JAVA_EVENTS_MARKER
    VolumeChanged, \* JAVACALL_EVENT_MEDIA_VOLUME_CHANGED
    SIGNAL_RESET,  \* the JSR 177 card-device descriptors (carddevice.h,
    SIGNAL_XFER,   \* outside this repository): distinct integers
    SIGNAL_LOCK

ASSUME 0 < VolumeChanged /\ VolumeChanged < MediaMarker
ASSUME Cardinality({SIGNAL_RESET, SIGNAL_XFER, SIGNAL_LOCK}) = 3

\* midpSignalType values used by the router.
AMS_SIGNAL               == "AMS_SIGNAL"
UI_SIGNAL                == "UI_SIGNAL"
NETWORK_READ_SIGNAL      == "NETWORK_READ_SIGNAL"
NETWORK_WRITE_SIGNAL     == "NETWORK_WRITE_SIGNAL"
NETWORK_EXCEPTION_SIGNAL == "NETWORK_EXCEPTION_SIGNAL"
HOST_NAME_LOOKUP_SIGNAL  == "HOST_NAME_LOOKUP_SIGNAL"
NETWORK_INIT_SIGNAL      == "NETWORK_INIT_SIGNAL"
PUSH_SIGNAL              == "PUSH_SIGNAL"
PUSH_ALARM_SIGNAL        == "PUSH_ALARM_SIGNAL"
MEDIA_EVENT_SIGNAL       == "MEDIA_EVENT_SIGNAL"
JSR256_SIGNAL            == "JSR256_SIGNAL"
JSR179_LOCATION_SIGNAL   == "JSR179_LOCATION_SIGNAL"
JSR179_ORIENTATION_SIGNAL == "JSR179_ORIENTATION_SIGNAL"
JSR179_PROXIMITY_SIGNAL  == "JSR179_PROXIMITY_SIGNAL"
JSR211_PLATFORM_FINISH_SIGNAL == "JSR211_PLATFORM_FINISH_SIGNAL"
JSR211_JAVA_INVOKE_SIGNAL     == "JSR211_JAVA_INVOKE_SIGNAL"
CARD_READER_DATA_SIGNAL  == "CARD_READER_DATA_SIGNAL"
WMA_SMS_READ_SIGNAL      == "WMA_SMS_READ_SIGNAL"
WMA_CBS_READ_SIGNAL      == "WMA_CBS_READ_SIGNAL"
WMA_MMS_READ_SIGNAL      == "WMA_MMS_READ_SIGNAL"
WMA_SMS_WRITE_SIGNAL     == "WMA_SMS_WRITE_SIGNAL"
WMA_MMS_WRITE_SIGNAL     == "WMA_MMS_WRITE_SIGNAL"

\* The signals jsr120_check_signal (the WMA subsystem) consumes.
WmaSignals == {WMA_SMS_READ_SIGNAL, WMA_CBS_READ_SIGNAL, WMA_MMS_READ_SIGNAL,
               WMA_SMS_WRITE_SIGNAL, WMA_MMS_WRITE_SIGNAL}

\* Status values the router writes itself.  PCSL_NET_SUCCESS and the literal
\* 0 passed for push are the same integer.
PCSL_NET_SUCCESS == "SUCCESS"
PCSL_NET_IOERROR == "IOERROR"
JAVACALL_OK      == "OK"
NO_STATUS        == "NO_STATUS"      \* a blocked thread's status before a wake

(***************************************************************************)
(* MIDP_JC_EVENT_CARDDEVICE: the descriptor and the status the decoder     *)
(* writes for each card event type; the status is named by its constant.   *)
(* An invalid type writes nothing.                                         *)
(***************************************************************************)
CardEventTypes == {"MIDP_CARDDEVICE_RESET", "MIDP_CARDDEVICE_XFER", "MIDP_CARDDEVICE_UNLOCK"}
CardSignal(type) ==
    CASE type = "MIDP_CARDDEVICE_RESET" -> [descriptor |-> SIGNAL_RESET, status |-> "SIGNAL_RESET"]
      [] type = "MIDP_CARDDEVICE_XFER"  -> [descriptor |-> SIGNAL_XFER,  status |-> "SIGNAL_XFER"]
      [] OTHER                          -> [descriptor |-> SIGNAL_LOCK,  status |-> "SIGNAL_LOCK"]

\* The classes NETWORK_INIT_SIGNAL/MIDP_NETWORK_DOWN signals, in code order.
NetworkDownSignals == <<NETWORK_INIT_SIGNAL, NETWORK_READ_SIGNAL, NETWORK_WRITE_SIGNAL,
                        NETWORK_EXCEPTION_SIGNAL, HOST_NAME_LOOKUP_SIGNAL>>

\* What a blocked thread waits for: the waitingFor and descriptor of its
\* MidpReentryData.
Key(waitingFor, descriptor) == [waitingFor |-> waitingFor, descriptor |-> descriptor]

\* MAKE_PLAYER_DESCRIPTOR with the appId mask written 0x1FF.
MAKE_PLAYER_DESCRIPTOR_AppMask9(appId, playerId, event) ==
    LET code == (event - MediaMarker) % 64
    IN  (IF code >= 32 THEN code - 64 ELSE code) * 2^26
        + (appId % 512) * 2^16
        + (playerId % 65536)

(***************************************************************************)
(* MAKE_PLAYER_DESCRIPTOR (KNICommon.h, quoted at the top of the file):    *)
(* event code in bits 26..31, appId in 16..25, playerId in 0..15, of a     *)
(* 32-bit int.  & with a low mask is a remainder, | of disjoint fields a   *)
(* sum; bit 31 is the sign, so a code field of 32 or more is negative.     *)
(***************************************************************************)
MAKE_PLAYER_DESCRIPTOR(appId, playerId, event) ==
    LET code == (event - MediaMarker) % 64
    IN  (IF code >= 32 THEN code - 64 ELSE code) * 2^26
        + (appId % 1024) * 2^16
        + (playerId % 65536)

\* A multimedia event the decoder forwards as an MMAPI_EVENT rather than
\* turning it into a player signal.
IsMmapiEvent(ev) == 0 < ev.mediaType /\ ev.mediaType < MediaMarker
=============================================================================
