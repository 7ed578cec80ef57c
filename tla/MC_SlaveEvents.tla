--------------------------- MODULE MC_SlaveEvents ---------------------------
(***************************************************************************)
(* Instantiates SlaveEvents for TLC: two VM threads, one socket descriptor *)
(* (5) threads wait on, which push is also registered for (PushFds = {5}, *)
(* so a reader and the push thread compete for one read event), one       *)
(* descriptor nobody waits on or registered (7), one registered alarm (9) *)
(* and one unregistered (8), one player and one sensor, and a              *)
(* raw event of every kind each build decodes.                            *)
(***************************************************************************)
EXTENDS SlaveEvents, TLC

Fd         == 5
OtherFd    == 7
Sensor     == 3
App        == 1
Player     == 2
PlayerEvent == MediaMarker + 1          \* a player event (>= marker)
JavaEvent   == 3                        \* an MMAPI event (0 < type < marker)

PlayerDesc == MAKE_PLAYER_DESCRIPTOR(App, Player, PlayerEvent)

SocketStatuses == {"OK", "FAIL"}

SocketEvents ==
    [kind : {"SOCKET"},
     waitingFor : {NETWORK_READ_SIGNAL, NETWORK_WRITE_SIGNAL,
                   NETWORK_EXCEPTION_SIGNAL, HOST_NAME_LOOKUP_SIGNAL},
     handle : {Fd}, status : SocketStatuses]
    \cup {[kind |-> "SOCKET", waitingFor |-> NETWORK_READ_SIGNAL,
           handle |-> OtherFd, status |-> "OK"]}

MediaEvents ==
    {[kind |-> "MULTIMEDIA", appId |-> App, playerId |-> Player, mediaType |-> m,
      status |-> "OK"] : m \in {JavaEvent, VolumeChanged}}
    \cup [kind : {"MULTIMEDIA"}, appId : {App}, playerId : {Player},
          mediaType : {PlayerEvent}, status : SocketStatuses]

CoreEvents ==
    SocketEvents \cup MediaEvents
    \cup [kind : {"NETWORK"},
          netType : {"MIDP_NETWORK_UP", "MIDP_NETWORK_DOWN", "MIDP_NETWORK_DOWN_REQUEST"}]
    \cup [kind : {"KEY", "PEN", "ROTATION", "END", "PAUSE", "RESUME", "SENSOR_AVAILABLE", "UNKNOWN"}]
    \cup [kind : {"PUSH"}, alarmHandle : {8, 9}]
    \cup [kind : {"SENSOR_OPEN_CLOSE"}, sensor : {Sensor}]

\* The JSR 234 build adds AMMS events.
AmmsEvents ==
    [kind : {"ADVANCED_MULTIMEDIA"}, appId : {App}, playerId : {Player},
     mediaType : {PlayerEvent}]

Keys ==
    {Key(w, Fd) : w \in {NETWORK_READ_SIGNAL, NETWORK_WRITE_SIGNAL, HOST_NAME_LOOKUP_SIGNAL}}
    \cup {Key(NETWORK_INIT_SIGNAL, 0), Key(PUSH_SIGNAL, 0),
          Key(MEDIA_EVENT_SIGNAL, PlayerDesc), Key(JSR256_SIGNAL, Sensor)}

CoreAndAmmsEvents == CoreEvents \cup AmmsEvents

\* The events of JSR 75, 120/205, 177, 179, 211, multiple isolates and
\* on-device debugging; provider, stub, handle and invocation id reuse Fd.
OptionalEvents ==
    [kind : {"LOCATION"}, event : {JSR179_LOCATION_SIGNAL, JSR179_ORIENTATION_SIGNAL},
     provider : {Fd}, status : {"OK"}]
    \cup [kind : {"PROXIMITY"}, provider : {Fd}, status : {"FAIL"}]
    \cup [kind : {"JSR211_PLATFORM_FINISH", "JSR211_JAVA_INVOKE"}, invocId : {Fd}]
    \cup [kind : {"CARDDEVICE"}, cardEvent : CardEventTypes \cup {"INVALID"}]
    \cup [kind : {"SWITCH_FOREGROUND", "SELECT_APP", "ENABLE_ODD", "ROOTCHANGED"}]
    \cup [kind : {"WMA_INCOMING"}, signal : {WMA_SMS_READ_SIGNAL, WMA_CBS_READ_SIGNAL,
                                            WMA_MMS_READ_SIGNAL}, stub : {Fd}]
    \cup [kind : {"WMA_SENDING_RESULT"}, signal : {WMA_SMS_WRITE_SIGNAL, WMA_MMS_WRITE_SIGNAL},
          handle : {Fd}, result : {"OK"}]

FullEvents == CoreEvents \cup OptionalEvents

\* The full build adds a location waiter and a card-reader waiter; it drops
\* the host-lookup waiter (the write branch serves both) and the sensor one.
FullKeys ==
    (Keys \ {Key(HOST_NAME_LOOKUP_SIGNAL, Fd), Key(JSR256_SIGNAL, Sensor)})
    \cup {Key(JSR179_LOCATION_SIGNAL, Fd), Key(CARD_READER_DATA_SIGNAL, SIGNAL_XFER)}

Symmetry == Permutations(Threads)
=============================================================================
