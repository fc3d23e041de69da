--------------------------- MODULE MCSpercControl ---------------------------
(***************************************************************************)
(* Instances of SpercControl for TLC.                                      *)
(***************************************************************************)
EXTENDS SpercControl, TLC

CONSTANTS long, left, l1, l2

\* A flow over two links, which shares the first with a flow of one link.
TwoOnOne == (long :> <<l1, l2>> @@ left :> <<l1>>)

\* Capacities for which the long flow is limited by its second link at least
\* while it is alone, and for which it always is.
Wide   == (l1 :> 6 @@ l2 :> 4)
Narrow == (l1 :> 6 @@ l2 :> 2)

Equal    == (long :> 1 @@ left :> 1)
Weighted == (long :> 2 @@ left :> 1)
=============================================================================
