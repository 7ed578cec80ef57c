----------------------------- MODULE SlaveEvents -----------------------------
(***************************************************************************)
(* The slave-mode event router of midp_slavemode_javacall.c.               *)
(*                                                                         *)
(* The host calls javanotify_inform_event, which takes the VM's snapshot   *)
(* of blocked threads and runs midp_slave_handle_events with timeout 0:    *)
(* checkForSystemSignal receives one raw event and decodes it into the     *)
(* static newSignal and a MidpEvent, then the switch on                    *)
(* newSignal.waitingFor unblocks threads or forwards the MidpEvent to a    *)
(* sink.  Around it, the environment: the platform posts raw events, VM    *)
(* threads block (midp_thread_wait) and resume, network init code sets    *)
(* the connected flag.                                                     *)
(***************************************************************************)
EXTENDS Signals, FiniteSets

CONSTANTS
    Threads,       \* VM (Java) threads
    Events,        \* raw events the platform may post (midp_jc_event_union)
    ThreadKeys,    \* [waitingFor, descriptor] a thread may block on
    MaxQueue,      \* bound on raw events waiting in the platform queue
    JSR120         \* built with ENABLE_JSR_120 || ENABLE_JSR_205 (WMA)

ASSUME MaxQueue \in Nat \ {0}
ASSUME JSR120 \in BOOLEAN

-----------------------------------------------------------------------------
VARIABLES
    tstate,      \* thread -> "running" | "blocked" | "ready" (unblocked, not yet run)
    reentry,     \* thread -> MidpReentryData or NULL
    evq,         \* raw events the platform has posted, oldest first
    newSignal,   \* the static newSignal: descriptor and status survive calls
    netConnected,\* isMidpNetworkConnected()
    sinks        \* MidpEvents the last step forwarded to AMS, foreground or VM thread

vars == <<tstate, reentry, evq, newSignal, netConnected, sinks>>

\* MidpEvent after MIDP_EVENT_INITIALIZE, and with a type set.
NoMidpEvent == [type |-> "NONE", isolate |-> 0]
MidpEventOf(type, isolate) == [type |-> type, isolate |-> isolate]

Notification(sink, mev) == [sink |-> sink, type |-> mev.type, isolate |-> mev.isolate]

\* Mutant: status copied from the event's signal field instead of its status.
SocketFieldsWrongStatus(sock) ==
    [waitingFor |-> sock.waitingFor, descriptor |-> sock.handle, status |-> sock.waitingFor]

\* The socket fields the SOCKET case copies from the event.
SocketFields(sock) ==
    [waitingFor |-> sock.waitingFor, descriptor |-> sock.handle, status |-> sock.status]

\* A decoded event: the signal (waitingFor, descriptor, status) and the MidpEvent.
Decoded(sig, mev) == [signal |-> sig, mev |-> mev]

(***************************************************************************)
(* checkForSystemSignal, second half of the switch on event->eventType:   *)
(* media, AMMS, JSR 179 location, JSR 211 content handlers, JSR 177 card  *)
(* device, multiple-isolate foreground switches and JSR 256 sensors, then *)
(* "Unknown event.".  Each case exists only in the build that defines its *)
(* event type; a build posts only the events it defines.                   *)
(***************************************************************************)
CheckForOptionalSignal(ev, sig) ==
    CASE ev.kind = "MULTIMEDIA" /\ IsMmapiEvent(ev) ->
            Decoded([sig EXCEPT !.waitingFor = MEDIA_EVENT_SIGNAL],
                    MidpEventOf("MMAPI_EVENT",
                                IF ev.mediaType = VolumeChanged THEN -1 ELSE ev.appId))
      [] ev.kind = "MULTIMEDIA" ->
            Decoded([waitingFor |-> MEDIA_EVENT_SIGNAL,
                     descriptor |-> MAKE_PLAYER_DESCRIPTOR(ev.appId, ev.playerId, ev.mediaType),
                     status     |-> ev.status], NoMidpEvent)
      [] ev.kind = "ADVANCED_MULTIMEDIA" ->
            Decoded([sig EXCEPT !.waitingFor = MEDIA_EVENT_SIGNAL, !.status = JAVACALL_OK],
                    MidpEventOf("AMMS_EVENT", ev.appId))
      [] ev.kind = "LOCATION" ->                   \* waitingFor is the event's own field
            Decoded([waitingFor |-> ev.event, descriptor |-> ev.provider, status |-> ev.status],
                    NoMidpEvent)
      [] ev.kind = "PROXIMITY" ->
            Decoded([waitingFor |-> JSR179_PROXIMITY_SIGNAL, descriptor |-> ev.provider,
                     status |-> ev.status], NoMidpEvent)
      [] ev.kind \in {"JSR211_PLATFORM_FINISH", "JSR211_JAVA_INVOKE"} ->
            Decoded([sig EXCEPT !.waitingFor = IF ev.kind = "JSR211_PLATFORM_FINISH"
                                              THEN JSR211_PLATFORM_FINISH_SIGNAL
                                              ELSE JSR211_JAVA_INVOKE_SIGNAL,
                                !.descriptor = ev.invocId],
                    MidpEventOf("CHAPI_EVENT", 0))
      [] ev.kind = "CARDDEVICE" /\ ev.cardEvent \in CardEventTypes ->
            Decoded([waitingFor |-> CARD_READER_DATA_SIGNAL,
                     descriptor |-> CardSignal(ev.cardEvent).descriptor,
                     status     |-> CardSignal(ev.cardEvent).status], NoMidpEvent)
      [] ev.kind \in {"SWITCH_FOREGROUND", "SELECT_APP"} ->
            Decoded([sig EXCEPT !.waitingFor = AMS_SIGNAL],
                    MidpEventOf("SELECT_FOREGROUND_EVENT", 0))
      [] ev.kind = "SENSOR_AVAILABLE" ->
            Decoded([sig EXCEPT !.waitingFor = JSR256_SIGNAL], MidpEventOf("SENSOR_EVENT", 0))
      [] ev.kind = "SENSOR_OPEN_CLOSE" ->
            Decoded([sig EXCEPT !.waitingFor = JSR256_SIGNAL, !.descriptor = ev.sensor],
                    NoMidpEvent)
      [] OTHER ->                  \* "Unknown event.", and an invalid card event type
            Decoded(sig, NoMidpEvent)

(***************************************************************************)
(* checkForSystemSignal: the switch on event->eventType.  sig is the       *)
(* static newSignal, with waitingFor reset to 0 by the caller; a case      *)
(* that does not write descriptor or status leaves the previous event's.   *)
(* JSR 75 root changes call notifyDisksChanged and leave waitingFor 0.     *)
(* WMA incoming messages set no status.                                    *)
(***************************************************************************)
CheckForSystemSignal(ev, sig) ==
    CASE ev.kind = "KEY" ->
            Decoded([sig EXCEPT !.waitingFor = UI_SIGNAL], MidpEventOf("MIDP_KEY_EVENT", 0))
      [] ev.kind = "PEN" ->
            Decoded([sig EXCEPT !.waitingFor = UI_SIGNAL], MidpEventOf("MIDP_PEN_EVENT", 0))
      [] ev.kind = "SOCKET" ->
            Decoded(SocketFields(ev), NoMidpEvent)
      [] ev.kind = "NETWORK" ->
            Decoded([sig EXCEPT !.waitingFor = NETWORK_INIT_SIGNAL, !.status = ev.netType],
                    NoMidpEvent)
      [] ev.kind \in {"END", "PAUSE", "RESUME", "ENABLE_ODD"} ->
            Decoded([sig EXCEPT !.waitingFor = AMS_SIGNAL],
                    MidpEventOf(CASE ev.kind = "END"   -> "SHUTDOWN_EVENT"
                                  [] ev.kind = "PAUSE" -> "PAUSE_ALL_EVENT"
                                  [] ev.kind = "RESUME" -> "ACTIVATE_ALL_EVENT"
                                  [] OTHER             -> "MIDP_ENABLE_ODD_EVENT", 0))
      [] ev.kind = "PUSH" ->
            Decoded([sig EXCEPT !.waitingFor = PUSH_ALARM_SIGNAL,
                                !.descriptor = ev.alarmHandle], NoMidpEvent)
      [] ev.kind = "ROTATION" ->
            Decoded([sig EXCEPT !.waitingFor = UI_SIGNAL], MidpEventOf("ROTATION_EVENT", 0))
      [] ev.kind = "WMA_INCOMING" ->
            Decoded([sig EXCEPT !.waitingFor = ev.signal, !.descriptor = ev.stub], NoMidpEvent)
      [] ev.kind = "WMA_SENDING_RESULT" ->
            Decoded([waitingFor |-> ev.signal, descriptor |-> ev.handle, status |-> ev.result],
                    NoMidpEvent)
      [] OTHER ->
            CheckForOptionalSignal(ev, sig)

-----------------------------------------------------------------------------
\* What one pass of the dispatch switch did.
Outcome(scan, notified, connected) ==
    [reentry |-> scan.reentry, woken |-> scan.woken, sinks |-> notified,
     connected |-> connected]

(***************************************************************************)
(* midp_slave_handle_events, the cases after MEDIA_EVENT_SIGNAL: JSR 179   *)
(* and JSR 177 broadcast to the waiters of the key; JSR 211 hands the      *)
(* invocation to its own subsystem and signals AMS; WMA signals go to      *)
(* jsr120_check_signal, whose state lies outside this model; JSR 256       *)
(* forwards availability to the VM thread and broadcasts open/close.       *)
(***************************************************************************)
HandleOptionalSignal(sig, mev, snap, re, connected) ==
    LET none == ScanResult(re, {})
        SignalList == MidpThreadSignalList(snap, re, sig.waitingFor, sig.descriptor, sig.status)
    IN
    CASE sig.waitingFor \in {JSR179_LOCATION_SIGNAL, JSR179_ORIENTATION_SIGNAL,
                             JSR179_PROXIMITY_SIGNAL, CARD_READER_DATA_SIGNAL} ->
            Outcome(SignalList, {}, connected)
      [] sig.waitingFor \in {JSR211_PLATFORM_FINISH_SIGNAL, JSR211_JAVA_INVOKE_SIGNAL} ->
            Outcome(none, {Notification("AMS", mev)}, connected)
      [] sig.waitingFor = JSR256_SIGNAL /\ mev.type = "SENSOR_EVENT" ->
            Outcome(none, {Notification("VM_THREAD", [mev EXCEPT !.isolate = -1])}, connected)
      [] sig.waitingFor = JSR256_SIGNAL ->
            Outcome(SignalList, {}, connected)
      [] OTHER ->                                  \* WMA signals, and default
            Outcome(none, {}, connected)

(***************************************************************************)
(* midp_slave_handle_events: the switch on newSignal.waitingFor, given the *)
(* decoded signal and MidpEvent, the snapshot, what midpCheckSocketInUse() *)
(* answers (socketsInUse) and what jsr120_check_signal answers when WMA is *)
(* built (wmaClaims).  The read case asks the registry first and WMA last; *)
(* the write and host-lookup cases ask WMA first.                          *)
(***************************************************************************)
MidpSlaveHandleEvents(sig, mev, snap, re, connected, socketsInUse, wmaClaims) ==
    LET none == ScanResult(re, {})
        wf == sig.waitingFor
        d  == sig.descriptor
        s  == sig.status
        SignalList(w, dd, st) == MidpThreadSignalList(snap, re, w, dd, st)
    IN
    CASE wf = AMS_SIGNAL ->
            Outcome(none, {Notification("AMS", mev)}, connected)
      [] wf = UI_SIGNAL ->
            Outcome(none, {Notification("FOREGROUND", mev)}, connected)
      [] wf = NETWORK_READ_SIGNAL ->
            LET r == EventUnblockJavaThread(snap, re, wf, d, s)
            IN  Outcome(IF r.woken # {} THEN r
                        ELSE IF d \in PushFds THEN SignalList(PUSH_SIGNAL, 0, PCSL_NET_SUCCESS)
                        ELSE none, {}, connected)
      [] wf \in {HOST_NAME_LOOKUP_SIGNAL, NETWORK_WRITE_SIGNAL} ->
            Outcome(IF JSR120 /\ wmaClaims THEN none ELSE SignalList(wf, d, s), {}, connected)
      [] wf = NETWORK_EXCEPTION_SIGNAL ->
            LET r1 == EventUnblockJavaThread(snap, re, NETWORK_READ_SIGNAL, d, s)
            IN  Outcome(ThenScan(r1, EventUnblockJavaThread(snap, r1.reentry,
                                                            NETWORK_WRITE_SIGNAL, d, s)),
                        {}, connected)
      [] wf = NETWORK_INIT_SIGNAL /\ s = "MIDP_NETWORK_UP" ->
            Outcome(SignalList(NETWORK_INIT_SIGNAL, 0, PCSL_NET_SUCCESS), {}, connected)
      [] wf = NETWORK_INIT_SIGNAL /\ s = "MIDP_NETWORK_DOWN" ->
            Outcome(FoldLeft(LAMBDA acc, w :
                                 ThenScan(acc, MidpThreadSignalList(snap, acc.reentry, w, 0,
                                                                    PCSL_NET_IOERROR)),
                             none, NetworkDownSignals),
                    {}, FALSE)
      [] wf = NETWORK_INIT_SIGNAL /\ s = "MIDP_NETWORK_DOWN_REQUEST" ->
            Outcome(none, {}, connected /\ socketsInUse)
      [] wf = PUSH_ALARM_SIGNAL ->
            Outcome(IF d \in PushAlarms THEN SignalList(PUSH_SIGNAL, 0, PCSL_NET_SUCCESS)
                                        ELSE none, {}, connected)
      [] wf = MEDIA_EVENT_SIGNAL ->
            IF mev.type = "MMAPI_EVENT"
            THEN Outcome(none, {Notification("VM_THREAD", mev)}, connected)
            ELSE Outcome(MediaEventUnblock(snap, re, wf, d, s), {}, connected)
      [] OTHER ->
            HandleOptionalSignal(sig, mev, snap, re, connected)

-----------------------------------------------------------------------------
Init ==
    /\ tstate = [t \in Threads |-> "running"]
    /\ reentry = [t \in Threads |-> NULL]
    /\ evq = <<>>
    /\ newSignal = [descriptor |-> 0, status |-> PCSL_NET_SUCCESS]   \* static, zeroed
    /\ netConnected = FALSE
    /\ sinks = {}

(***************************************************************************)
(* javanotify_inform_event with an event waiting: the VM's snapshot of the *)
(* blocked threads, in an order the VM chooses; javacall_event_receive     *)
(* hands over the oldest raw event; decode, then dispatch.  Unblocked      *)
(* threads become runnable.  midpCheckSocketInUse and jsr120_check_signal  *)
(* are asked only about network and socket events, so only those choose    *)
(* their answers.                                                          *)
(***************************************************************************)
JavanotifyInformEvent ==
    /\ evq # <<>>
    /\ \E snap \in SetToSeqs({t \in Threads : tstate[t] = "blocked"}),
          socketsInUse \in IF Head(evq).kind = "NETWORK" THEN BOOLEAN ELSE {FALSE},
          wmaClaims \in IF JSR120 /\ Head(evq).kind = "SOCKET" THEN BOOLEAN ELSE {FALSE} :
        LET dec == CheckForSystemSignal(Head(evq),
                       [waitingFor |-> NO_SIGNAL,
                        descriptor |-> newSignal.descriptor,
                        status     |-> newSignal.status])
            out == MidpSlaveHandleEvents(dec.signal, dec.mev, snap, reentry,
                                         netConnected, socketsInUse, wmaClaims)
        IN  /\ evq' = Tail(evq)
            /\ newSignal' = [descriptor |-> dec.signal.descriptor,
                             status |-> dec.signal.status]
            /\ reentry' = out.reentry
            /\ tstate' = [t \in Threads |-> IF t \in out.woken THEN "ready" ELSE tstate[t]]
            /\ netConnected' = out.connected
            /\ sinks' = out.sinks

\* javanotify_inform_event with nothing to receive: javacall_event_receive
\* fails and checkForSystemSignal returns before the switch.
InformEventNoEvent ==
    /\ evq = <<>>
    /\ sinks' = {}
    /\ UNCHANGED <<tstate, reentry, evq, newSignal, netConnected>>

-----------------------------------------------------------------------------
(***************************************************************************)
(* The environment, outside this repository.                               *)
(***************************************************************************)

\* midp_thread_wait: a running thread records what it waits for and blocks.
MidpThreadWait(t, key) ==
    /\ tstate[t] = "running"
    /\ tstate' = [tstate EXCEPT ![t] = "blocked"]
    /\ reentry' = [reentry EXCEPT ![t] = [waitingFor |-> key.waitingFor,
                                          descriptor |-> key.descriptor,
                                          status     |-> NO_STATUS]]
    /\ sinks' = {}
    /\ UNCHANGED <<evq, newSignal, netConnected>>

\* A thread blocked by the VM for its own reasons (sleep, monitor): no reentry data.
VmBlock(t) ==
    /\ tstate[t] = "running"
    /\ tstate' = [tstate EXCEPT ![t] = "blocked"]
    /\ reentry' = [reentry EXCEPT ![t] = NULL]
    /\ sinks' = {}
    /\ UNCHANGED <<evq, newSignal, netConnected>>

\* ... and resumed by the VM itself.
VmResume(t) ==
    /\ tstate[t] = "blocked"
    /\ reentry[t] = NULL
    /\ tstate' = [tstate EXCEPT ![t] = "running"]
    /\ sinks' = {}
    /\ UNCHANGED <<reentry, evq, newSignal, netConnected>>

\* An unblocked thread is scheduled, reads its status and leaves the wait.
ThreadRuns(t) ==
    /\ tstate[t] = "ready"
    /\ tstate' = [tstate EXCEPT ![t] = "running"]
    /\ reentry' = [reentry EXCEPT ![t] = NULL]
    /\ sinks' = {}
    /\ UNCHANGED <<evq, newSignal, netConnected>>

\* The platform queues a raw event for javacall_event_receive.
PlatformPost(e) ==
    /\ Len(evq) < MaxQueue
    /\ evq' = Append(evq, e)
    /\ sinks' = {}
    /\ UNCHANGED <<tstate, reentry, newSignal, netConnected>>

\* setMidpNetworkConnected, called by the network initialisation code.
SetMidpNetworkConnected ==
    /\ ~netConnected
    /\ netConnected' = TRUE
    /\ sinks' = {}
    /\ UNCHANGED <<tstate, reentry, evq, newSignal>>

Next ==
    \/ JavanotifyInformEvent
    \/ InformEventNoEvent
    \/ \E t \in Threads, key \in ThreadKeys : MidpThreadWait(t, key)
    \/ \E t \in Threads : VmBlock(t) \/ VmResume(t) \/ ThreadRuns(t)
    \/ \E e \in Events : PlatformPost(e)
    \/ SetMidpNetworkConnected

Spec == Init /\ [][Next]_vars

-----------------------------------------------------------------------------
(***************************************************************************)
(* Properties.                                                             *)
(***************************************************************************)

\* A step in which javanotify_inform_event consumed the oldest raw event.
Consumed == evq # <<>> /\ evq' = Tail(evq)

\* Threads a step unblocked.
Woken == {t \in Threads : tstate[t] = "blocked" /\ tstate'[t] = "ready"}

StatusValues ==
    {NO_STATUS, PCSL_NET_SUCCESS, PCSL_NET_IOERROR, JAVACALL_OK}
    \cup {e.status : e \in {x \in Events : "status" \in DOMAIN x}}
    \cup {e.result : e \in {x \in Events : "result" \in DOMAIN x}}
    \cup {CardSignal(c).status : c \in CardEventTypes}
    \cup {e.netType : e \in {x \in Events : x.kind = "NETWORK"}}

TypeOK ==
    /\ tstate \in [Threads -> {"running", "blocked", "ready"}]
    /\ \A t \in Threads :
          \/ reentry[t] = NULL
          \/ /\ reentry[t].descriptor \in Int
             /\ reentry[t].status \in StatusValues
             /\ reentry[t].waitingFor \in {k.waitingFor : k \in ThreadKeys} \cup {WAIT_INVALID}
    /\ \A t \in Threads : tstate[t] = "ready" => reentry[t] # NULL
    /\ evq \in Seq(Events) /\ Len(evq) <= MaxQueue
    /\ newSignal.descriptor \in Int /\ newSignal.status \in StatusValues
    /\ netConnected \in BOOLEAN

(***************************************************************************)
(* The refinement mapping: a blocked thread waits on the key of its        *)
(* reentry data (none when the VM blocked it itself); a thread unblocked   *)
(* and not yet run holds the status the router wrote; the platform queue   *)
(* is the abstract one.  The static newSignal, the snapshot order and the  *)
(* sinks have no abstract counterpart.                                     *)
(***************************************************************************)
WaitOnOf ==
    [t \in Threads |-> IF tstate[t] = "blocked" /\ reentry[t] # NULL
                       THEN Key(reentry[t].waitingFor, reentry[t].descriptor)
                       ELSE NULL]

StatusOf == [t \in Threads |-> IF tstate[t] = "ready" THEN reentry[t].status ELSE NULL]

R == INSTANCE Router WITH phase <- tstate, waitOn <- WaitOnOf, status <- StatusOf,
                          pending <- evq, connected <- netConnected,
                          Statuses <- StatusValues

(***************************************************************************)
(* javanotify_inform_event implements the abstract router: every call     *)
(* handles the oldest posted event and unblocks exactly the waiters the    *)
(* dispatch policy names for it (one per unblockOne key, all of a          *)
(* broadcast key, the push thread only when nobody reads), each with the   *)
(* policy's status, and changes nothing else about blocked threads.        *)
(* Guards the static newSignal (descriptor and status outlive a call),     *)
(* the first-match scans, the fallbacks of NETWORK_READ and the two scans  *)
(* of NETWORK_EXCEPTION.                                                   *)
(***************************************************************************)
RouterRefinement == R!Spec

(***************************************************************************)
(* Spec 4.3: a socket-ready event for read, write or host lookup unblocks  *)
(* one thread (unblockOne).  The write and host-lookup cases call          *)
(* midp_thread_signal_list, which unblocks every match.                    *)
(***************************************************************************)
SocketEventWakesAtMostOne ==
    [][Consumed /\ Head(evq).kind = "SOCKET"
        /\ Head(evq).waitingFor \in {NETWORK_READ_SIGNAL, NETWORK_WRITE_SIGNAL,
                                     HOST_NAME_LOOKUP_SIGNAL}
        => Cardinality(Woken) <= 1]_vars

(***************************************************************************)
(* Spec 4.3/8: network down unblocks every thread waiting on the five      *)
(* network classes, whatever its descriptor.  The code signals each class  *)
(* with descriptor 0.                                                      *)
(***************************************************************************)
NetworkDownReleasesAllWaiters ==
    [][Consumed /\ Head(evq).kind = "NETWORK" /\ Head(evq).netType = "MIDP_NETWORK_DOWN" =>
         \A t \in Threads :
            ~(tstate'[t] = "blocked" /\ reentry'[t] # NULL
              /\ reentry'[t].waitingFor \in ToSet(NetworkDownSignals))]_vars
=============================================================================
