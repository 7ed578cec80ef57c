---------------------------- MODULE MC_ImageDecode ----------------------------
(***************************************************************************)
(* ImageDecode for TLC: images and caller buffers of 1 or 2 pixels a side  *)
(* (enough for a second row and a second column to exist, and for a size  *)
(* mismatch in either direction); repeated decodes, each from scratch.    *)
(***************************************************************************)
EXTENDS ImageDecode

Sizes == 1..2
=============================================================================
