------------------------------- MODULE Transfer -------------------------------
(***************************************************************************)
(* What a connection promises to the script that uses it (SPERC_pair of    *)
(* sperc-pair.tcl): transfers run one after another; a transfer that is     *)
(* not stopped is reported done after all its packets have arrived, and    *)
(* only once; every transfer is reported done in the end.                  *)
(***************************************************************************)
EXTENDS Integers

CONSTANTS
    Sizes,   \* the sizes of transfers, in packets
    Stops    \* how a stop may work: "never", it "asks" for the end, or "at once"

VARIABLES
    active,    \* the script has started a transfer and waits for its end
    current,   \* the number of the last transfer
    size,      \* its size
    arrived,   \* how many of its packets have arrived, for the first time
    stops,     \* how a stop of this transfer works
    stopping   \* the script has asked for its end

vars == <<active, current, size, arrived, stops, stopping>>

Init ==
    /\ active = FALSE
    /\ current = 0
    /\ size = 0
    /\ arrived = 0
    /\ stops = "never"
    /\ stopping = FALSE

Start ==
    /\ ~ active
    /\ active' = TRUE
    /\ current' = current + 1
    /\ size' \in Sizes
    /\ arrived' = 0
    /\ stops' \in Stops
    /\ UNCHANGED stopping

\* Packets of a stopped transfer may arrive after its end.
Arrive ==
    /\ arrived < size
    /\ arrived' = arrived + 1
    /\ UNCHANGED <<active, current, size, stops, stopping>>

End ==
    /\ active' = FALSE
    /\ stops' = "never"
    /\ stopping' = FALSE
    /\ UNCHANGED <<current, size, arrived>>

\* The script asks for the end, or ends the transfer at once.
Stop ==
    /\ active
    /\ ~ stopping
    /\ \/ stops = "asks" /\ stopping' = TRUE
          /\ UNCHANGED <<active, current, size, arrived, stops>>
       \/ stops = "at once" /\ End

\* The script is told that the transfer is done.
Done ==
    /\ active
    /\ stopping \/ arrived = size
    /\ End

Next == Start \/ Arrive \/ Stop \/ Done

Spec == Init /\ [][Next]_vars

\* The network delivers what an active transfer needs, and its end is reported.
Fairness ==
    /\ WF_vars(active /\ ~ stopping /\ Arrive)
    /\ WF_vars(Done)

FairSpec == Spec /\ Fairness
=============================================================================
