------------------------------ MODULE Router ------------------------------
(***************************************************************************)
(* What the slave-mode event router promises, without the VM snapshot,     *)
(* the scans, the static newSignal or the notification sinks.              *)
(*                                                                         *)
(* Threads block on a wait key (or for the VM's own reasons), and the      *)
(* platform posts raw events.  Events are handled one at a time, oldest    *)
(* first.  Handling an event unblocks, among the threads blocked at that   *)
(* moment, exactly the waiters that the event's dispatch policy names,     *)
(* each with a status the policy allows.  Nothing else about a blocked     *)
(* thread changes.  The policy is the one midp_slave_handle_events         *)
(* implements:                                                             *)
(*   - unblockOne keys: one waiter of each key, if there is one;           *)
(*   - broadcast keys: every waiter.                                       *)
(***************************************************************************)
EXTENDS Signals, FiniteSets

CONSTANTS
    Threads,     \* VM threads
    Events,      \* raw events the platform may post
    ThreadKeys,  \* keys a thread may block on
    Statuses,    \* statuses a woken thread may be handed
    MaxQueue,    \* bound on posted, unhandled events
    JSR120       \* the WMA subsystem is built and may claim socket events

VARIABLES
    phase,       \* thread -> "running" | "blocked" | "ready"
    waitOn,      \* thread -> the key a blocked thread waits on, or NULL
    status,      \* thread -> the status an unblocked thread was handed, or NULL
    pending,     \* posted events not yet handled, oldest first
    connected    \* the network-connected flag

vars == <<phase, waitOn, status, pending, connected>>

(***************************************************************************)
(* The dispatch policy.  waited is the set of keys some thread is blocked  *)
(* on; a read-ready event on a push descriptor falls back to the push      *)
(* thread only when nobody waits to read.  wmaClaims: the WMA subsystem    *)
(* took a write-ready or host-lookup event for itself.  WMA messages wake  *)
(* nobody at this level: the WMA subsystem keeps its own waiters.          *)
(***************************************************************************)
WakeOne(ev) ==
    CASE ev.kind = "SOCKET" /\ ev.waitingFor = NETWORK_READ_SIGNAL ->
            {Key(NETWORK_READ_SIGNAL, ev.handle)}
      [] ev.kind = "SOCKET" /\ ev.waitingFor = NETWORK_EXCEPTION_SIGNAL ->
            {Key(NETWORK_READ_SIGNAL, ev.handle), Key(NETWORK_WRITE_SIGNAL, ev.handle)}
      [] ev.kind = "MULTIMEDIA" /\ ~IsMmapiEvent(ev) ->
            {Key(MEDIA_EVENT_SIGNAL, MAKE_PLAYER_DESCRIPTOR(ev.appId, ev.playerId, ev.mediaType))}
      [] OTHER -> {}

WakeAll(ev, waited, wmaClaims) ==
    CASE ev.kind = "SOCKET" /\ ev.waitingFor = NETWORK_READ_SIGNAL ->
            IF ev.handle \in PushFds /\ Key(NETWORK_READ_SIGNAL, ev.handle) \notin waited
            THEN {Key(PUSH_SIGNAL, 0)} ELSE {}
      [] ev.kind = "SOCKET" /\ ev.waitingFor \in {NETWORK_WRITE_SIGNAL, HOST_NAME_LOOKUP_SIGNAL} ->
            IF wmaClaims THEN {} ELSE {Key(ev.waitingFor, ev.handle)}
      [] ev.kind = "NETWORK" /\ ev.netType = "MIDP_NETWORK_UP" -> {Key(NETWORK_INIT_SIGNAL, 0)}
      [] ev.kind = "NETWORK" /\ ev.netType = "MIDP_NETWORK_DOWN" ->
            {Key(w, 0) : w \in ToSet(NetworkDownSignals)}
      [] ev.kind = "PUSH" /\ ev.alarmHandle \in PushAlarms -> {Key(PUSH_SIGNAL, 0)}
      [] ev.kind = "SENSOR_OPEN_CLOSE" -> {Key(JSR256_SIGNAL, ev.sensor)}
      [] ev.kind = "LOCATION" -> {Key(ev.event, ev.provider)}
      [] ev.kind = "PROXIMITY" -> {Key(JSR179_PROXIMITY_SIGNAL, ev.provider)}
      [] ev.kind = "CARDDEVICE" /\ ev.cardEvent \in CardEventTypes ->
            {Key(CARD_READER_DATA_SIGNAL, CardSignal(ev.cardEvent).descriptor)}
      [] OTHER -> {}

\* The status a waiter on key k may be handed for ev.  A sensor open/close
\* event carries no status of its own.
StatusAllowed(ev, k, s) ==
    CASE k.waitingFor = PUSH_SIGNAL      -> s = PCSL_NET_SUCCESS
      [] ev.kind \in {"SOCKET", "MULTIMEDIA", "LOCATION", "PROXIMITY"} -> s = ev.status
      [] ev.kind = "CARDDEVICE"          -> s = CardSignal(ev.cardEvent).status
      [] ev.kind = "NETWORK" /\ ev.netType = "MIDP_NETWORK_UP" -> s = PCSL_NET_SUCCESS
      [] ev.kind = "NETWORK"             -> s = PCSL_NET_IOERROR
      [] OTHER                           -> TRUE

\* The connected flag after ev: network down clears it; a down request
\* clears it unless sockets are in use, which this level does not see.
ConnectedAfter(ev, c) ==
    CASE ev.kind = "NETWORK" /\ ev.netType = "MIDP_NETWORK_DOWN" -> {FALSE}
      [] ev.kind = "NETWORK" /\ ev.netType = "MIDP_NETWORK_DOWN_REQUEST" -> {c, FALSE}
      [] OTHER -> {c}

Init ==
    /\ phase = [t \in Threads |-> "running"]
    /\ waitOn = [t \in Threads |-> NULL]
    /\ status = [t \in Threads |-> NULL]
    /\ pending = <<>>
    /\ connected = FALSE

BlockedOn(k) == {t \in Threads : phase[t] = "blocked" /\ waitOn[t] = k}

\* The oldest posted event is handled.
Deliver ==
    /\ pending # <<>>
    /\ pending' = Tail(pending)
    /\ LET ev     == Head(pending)
           waited == {waitOn[t] : t \in {u \in Threads : phase[u] = "blocked"}}
       IN  \E wmaClaims \in IF JSR120 THEN BOOLEAN ELSE {FALSE} :
           LET keys == WakeOne(ev) \cup WakeAll(ev, waited, wmaClaims) IN
           \E woken \in SUBSET UNION {BlockedOn(k) : k \in keys} :
              /\ \A k \in WakeOne(ev) :
                    BlockedOn(k) # {} => Cardinality(woken \cap BlockedOn(k)) = 1
              /\ \A k \in WakeAll(ev, waited, wmaClaims) : BlockedOn(k) \subseteq woken
              /\ phase' = [t \in Threads |-> IF t \in woken THEN "ready" ELSE phase[t]]
              /\ waitOn' = [t \in Threads |-> IF t \in woken THEN NULL ELSE waitOn[t]]
              /\ status' \in [Threads -> Statuses \cup {NULL}]
              /\ \A t \in Threads :
                    IF t \in woken THEN status'[t] # NULL /\ StatusAllowed(ev, waitOn[t], status'[t])
                                  ELSE status'[t] = status[t]
              /\ connected' \in ConnectedAfter(ev, connected)

\* A running thread blocks on key k.
Wait(t, k) ==
    /\ phase[t] = "running"
    /\ phase' = [phase EXCEPT ![t] = "blocked"]
    /\ waitOn' = [waitOn EXCEPT ![t] = k]
    /\ UNCHANGED <<status, pending, connected>>

\* The VM blocks and resumes a thread for its own reasons.
Block(t) ==
    /\ phase[t] = "running"
    /\ phase' = [phase EXCEPT ![t] = "blocked"]
    /\ UNCHANGED <<waitOn, status, pending, connected>>

Resume(t) ==
    /\ phase[t] = "blocked" /\ waitOn[t] = NULL
    /\ phase' = [phase EXCEPT ![t] = "running"]
    /\ UNCHANGED <<waitOn, status, pending, connected>>

\* An unblocked thread runs and takes its status.
Run(t) ==
    /\ phase[t] = "ready"
    /\ phase' = [phase EXCEPT ![t] = "running"]
    /\ status' = [status EXCEPT ![t] = NULL]
    /\ UNCHANGED <<waitOn, pending, connected>>

Post(e) ==
    /\ Len(pending) < MaxQueue
    /\ pending' = Append(pending, e)
    /\ UNCHANGED <<phase, waitOn, status, connected>>

Connect ==
    /\ ~connected
    /\ connected' = TRUE
    /\ UNCHANGED <<phase, waitOn, status, pending>>

Next ==
    \/ Deliver
    \/ \E t \in Threads, k \in ThreadKeys : Wait(t, k)
    \/ \E t \in Threads : Block(t) \/ Resume(t) \/ Run(t)
    \/ \E e \in Events : Post(e)
    \/ Connect

Spec == Init /\ [][Next]_vars
=============================================================================
