----------------------------- MODULE MCSpercLimit -----------------------------
(***************************************************************************)
(* An instance of SpercLimit for TLC.                                      *)
(***************************************************************************)
EXTENDS SpercLimit, TLC

CONSTANTS far, near, first, second, third

\* Two flows to the same destination, one from a node on the path of the other.
Joining == (far :> <<first, second, third>> @@ near :> <<second, third>>)

Distances == (far :> 5 @@ near :> 4)
=============================================================================
