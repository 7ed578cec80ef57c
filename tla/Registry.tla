------------------------------ MODULE Registry ------------------------------
(***************************************************************************)
(* The scans the event router performs over the VM's snapshot of blocked   *)
(* threads (JVMSPI_BlockedThreadInfo[], midp_slavemode_javacall.c).         *)
(*                                                                         *)
(* A snapshot is a sequence of thread ids in the order the VM supplied     *)
(* them; re[t] is the thread's MidpReentryData, or NULL.  Every scan       *)
(* returns the reentry data after the scan and the set of threads it       *)
(* handed to midp_thread_unblock.                                          *)
(***************************************************************************)
EXTENDS Integers, Sequences, SequencesExt

CONSTANT NULL            \* reentry_data == NULL

\* midpSignalType values the scans compare against.
NO_SIGNAL    == "NO_SIGNAL"
\* waitingFor = -1: written by the forced unblock so the entry matches nothing.
WAIT_INVALID == "WAIT_INVALID"

ScanResult(re, woken) == [reentry |-> re, woken |-> woken]

WaitsFor(e, waitingFor, descriptor) ==
    /\ e # NULL
    /\ e.descriptor = descriptor
    /\ e.waitingFor = waitingFor

(***************************************************************************)
(* eventUnblockJavaThread: the loop over the snapshot.  NULL entries are   *)
(* skipped; the first exact match gets the status and is unblocked; when   *)
(* the caller asks for NO_SIGNAL, the first entry on the descriptor is     *)
(* unblocked and its waitingFor overwritten with -1.  Returns at the       *)
(* first entry it unblocks.                                                *)
(***************************************************************************)
\* Mutant: the loop goes on after an exact match instead of returning.
RECURSIVE EventUnblockLoopNoReturn(_, _, _, _, _, _)
EventUnblockLoopNoReturn(snap, i, re, waitingFor, descriptor, status) ==
    IF i > Len(snap) THEN ScanResult(re, {})
    ELSE LET t == snap[i] IN
         IF re[t] # NULL /\ WaitsFor(re[t], waitingFor, descriptor)
         THEN LET rest == EventUnblockLoopNoReturn(snap, i + 1, [re EXCEPT ![t].status = status],
                                                   waitingFor, descriptor, status)
              IN  ScanResult(rest.reentry, rest.woken \cup {t})
         ELSE EventUnblockLoopNoReturn(snap, i + 1, re, waitingFor, descriptor, status)

RECURSIVE EventUnblockLoop(_, _, _, _, _, _)
EventUnblockLoop(snap, i, re, waitingFor, descriptor, status) ==
    IF i > Len(snap) THEN ScanResult(re, {})
    ELSE LET t == snap[i] IN
         IF re[t] = NULL
         THEN EventUnblockLoop(snap, i + 1, re, waitingFor, descriptor, status)
         ELSE IF WaitsFor(re[t], waitingFor, descriptor)
         THEN ScanResult([re EXCEPT ![t].status = status], {t})
         ELSE IF waitingFor = NO_SIGNAL /\ re[t].descriptor = descriptor
         THEN ScanResult([re EXCEPT ![t].status = status,
                                    ![t].waitingFor = WAIT_INVALID], {t})
         ELSE EventUnblockLoop(snap, i + 1, re, waitingFor, descriptor, status)

EventUnblockJavaThread(snap, re, waitingFor, descriptor, status) ==
    EventUnblockLoop(snap, 1, re, waitingFor, descriptor, status)

(***************************************************************************)
(* The MEDIA_EVENT_SIGNAL branch of midp_slave_handle_events: its own      *)
(* loop, first exact match wins, no forced-unblock fallback.  (pResult,    *)
(* also written there, is data the model does not carry.)                  *)
(***************************************************************************)
MediaEventUnblock(snap, re, waitingFor, descriptor, status) ==
    LET i == SelectInSeq(snap, LAMBDA t : WaitsFor(re[t], waitingFor, descriptor))
    IN  IF i = 0 THEN ScanResult(re, {})
        ELSE ScanResult([re EXCEPT ![snap[i]].status = status], {snap[i]})

(***************************************************************************)
(* midp_thread_signal_list (midp_thread.c, outside this repository):       *)
(* scans the whole snapshot and unblocks every exact match.                *)
(***************************************************************************)
MidpThreadSignalList(snap, re, waitingFor, descriptor, status) ==
    LET woken == {t \in ToSet(snap) : WaitsFor(re[t], waitingFor, descriptor)}
    IN  ScanResult([t \in DOMAIN re |->
                        IF t \in woken THEN [re[t] EXCEPT !.status = status]
                                       ELSE re[t]],
                   woken)

\* Mutant: the second scan's effect is lost.
ThenScanFirstOnly(r1, r2) == r1

\* Two scans one after the other on the same snapshot: r2 is the second
\* scan run on r1.reentry; its reentry data stands and the unblocked sets
\* add up.
ThenScan(r1, r2) == ScanResult(r2.reentry, r1.woken \cup r2.woken)
=============================================================================
