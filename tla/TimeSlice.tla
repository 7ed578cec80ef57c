------------------------------ MODULE TimeSlice ------------------------------
(***************************************************************************)
(* javanotify_vm_timeslice / midpTimeSlice: the host asks how long it may  *)
(* wait before the next VM time slice.  The VM's answer is a jlong; -2     *)
(* means the VM has finished and triggers finalisation; otherwise the      *)
(* answer is converted to a javacall_time_milliseconds long for            *)
(* jcapp_refresh_pending, and the jlong itself is returned to the host.    *)
(***************************************************************************)
EXTENDS Integers

CONSTANTS
    MillisBits,  \* value bits of javacall_time_milliseconds: 31 (0x7FFFFFFF)
    VmSlices,    \* answers midp_slavemode_time_slice may give before it finishes
    NONE         \* no call has happened yet

ASSUME MillisBits \in Nat \ {0}
ASSUME VmSlices \subseteq Int

MaxMillis == 2^MillisBits - 1          \* 0x7FFFFFFF

VARIABLES
    vmFinished,  \* the VM has answered -2
    refreshed,   \* the last argument to jcapp_refresh_pending, or NONE
    returned,    \* the last value javanotify_vm_timeslice returned, or NONE
    finalized    \* how often the finalisation block has run

vars == <<vmFinished, refreshed, returned, finalized>>

\* "convert jlong to long": over the bound or negative is -1 (wait forever),
\* otherwise to & 0x7FFFFFFF, which on two's complement is a remainder.
ToMillisec(to) ==
    IF to > MaxMillis THEN -1
    ELSE IF to < 0 THEN -1
    ELSE to % 2^MillisBits

(***************************************************************************)
(* midpTimeSlice on the VM's answer to: finalisation (measureStack,        *)
(* pushcheckinall, midpFinalize, finalize_jsr205) on -2, else the          *)
(* conversion and jcapp_refresh_pending; to is returned either way.        *)
(***************************************************************************)
\* Mutant: the finalisation block stands outside the if (to == -2).
MidpTimeSliceFinalizeAlways(to) ==
    /\ finalized' = finalized + 1
    /\ IF to = -2
       THEN /\ vmFinished' = TRUE
            /\ UNCHANGED refreshed
       ELSE /\ refreshed' = ToMillisec(to)
            /\ UNCHANGED vmFinished
    /\ returned' = to

MidpTimeSlice(to) ==
    /\ IF to = -2
       THEN /\ finalized' = finalized + 1
            /\ vmFinished' = TRUE
            /\ UNCHANGED refreshed
       ELSE /\ refreshed' = ToMillisec(to)
            /\ UNCHANGED <<finalized, vmFinished>>
    /\ returned' = to

Init ==
    /\ vmFinished = FALSE
    /\ refreshed = NONE
    /\ returned = NONE
    /\ finalized = 0

(***************************************************************************)
(* The host calls javanotify_vm_timeslice (which returns midpTimeSlice())  *)
(* while the VM runs, and stops once it has been told -2.                  *)
(***************************************************************************)
JavanotifyVmTimeslice ==
    /\ ~vmFinished
    /\ \E to \in VmSlices \cup {-2} : MidpTimeSlice(to)

Next == JavanotifyVmTimeslice

Spec == Init /\ [][Next]_vars

TypeOK ==
    /\ vmFinished \in BOOLEAN
    /\ refreshed = NONE \/ refreshed \in -1..MaxMillis
    /\ returned = NONE \/ returned \in VmSlices \cup {-2}
    /\ finalized \in 0..1

(***************************************************************************)
(* The host is given the clamped time slice, the same value the pending-   *)
(* work notifier got: spec 4.4 says the duration is clamped (negative or   *)
(* over 31 bits to -1), passed to the notifier and then returned, and the  *)
(* testable properties of spec 8 say an input of -5 or 0x80000000 gives    *)
(* -1.  midpTimeSlice clamps toInMillisec for jcapp_refresh_pending and    *)
(* returns the jlong it got from the VM.                                   *)
(***************************************************************************)
HostGetsClampedSlice == returned \notin {NONE, -2} => returned = refreshed
=============================================================================
