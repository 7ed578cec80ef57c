---------------------------- MODULE MC_TimeSlice ----------------------------
(***************************************************************************)
(* TimeSlice with a 7-bit millisecond type (bound 127) so that every jlong *)
(* answer from well below zero to well past the bound, the bound itself    *)
(* and the bound plus one among them, is tried.                            *)
(***************************************************************************)
EXTENDS TimeSlice

Slices == -140..300
=============================================================================
