----------------------------- MODULE MCSpercQueue -----------------------------
(***************************************************************************)
(* An instance of SpercQueue for TLC.                                      *)
(***************************************************************************)
EXTENDS SpercQueue

CONSTANTS l, s
=============================================================================
