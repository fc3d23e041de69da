------------------------------- MODULE LinkBook -------------------------------
(***************************************************************************)
(* What the links of s-PERC promise: each knows its totals as if it had a  *)
(* book, with an entry for every flow that crosses it.  A flow is entered,  *)
(* rated anew any number of times and struck out when it ends; the links    *)
(* never promise satisfied flows all of their capacity; a flow that one     *)
(* link has struck out is entered by none until it has been struck out by   *)
(* all of its links and begins again.                                      *)
(*                                                                         *)
(* The links of the code (SPERCLinkState of sperc-control.cc) have the      *)
(* totals and no book.                                                     *)
(***************************************************************************)
EXTENDS Integers, FiniteSets, Totals

CONSTANTS
    Flow, Link,
    Route,     \* Route[f]: the links that f crosses
    Capacity,  \* Capacity[l]: what a link has for data
    Weight     \* Weight[f]: a flow of weight w counts as w flows

VARIABLES
    on,      \* the flows that have begun and not ended
    book,    \* book[l][f]: the entry of f
    numFlows, numSat, sumSat   \* of each link

totals == <<numFlows, numSat, sumSat>>
vars   == <<on, book, totals>>

\* An entry says what the link makes of the flow, and its rate if it is satisfied.
Entry(label, rate) == [label |-> label, rate |-> rate]

NewEntry == Entry("NEW_FLOW", 0)
Struck   == Entry("FINISHED", 0)
Ratings(l) == {Entry("UNSAT", 0)} \cup {Entry("SAT", r) : r \in 0 .. Capacity[l]}

Counted(e) == e.label \in {"SAT", "UNSAT"}

\* The totals of a page of the book: the weight of the flows, that of the satisfied
\* ones, and the bandwidth they have.
Flows(page)     == Total([f \in Flow |-> IF Counted(page[f]) THEN Weight[f] ELSE 0])
Satisfied(page) == Total([f \in Flow |-> IF page[f].label = "SAT" THEN Weight[f] ELSE 0])
Bandwidth(page) == Total([f \in Flow |-> page[f].rate * Weight[f]])

\* Link l makes e the entry of f, and its totals are right.
Write(f, l, e) ==
    /\ book' = [book EXCEPT ![l][f] = e]
    /\ numFlows' = [numFlows EXCEPT ![l] = Flows(book'[l])]
    /\ numSat' = [numSat EXCEPT ![l] = Satisfied(book'[l])]
    /\ sumSat' = [sumSat EXCEPT ![l] = Bandwidth(book'[l])]
-----------------------------------------------------------------------------
Init ==
    /\ on = {}
    /\ book = [l \in Link |-> [f \in Flow |-> NewEntry]]
    /\ numFlows = [l \in Link |-> 0]
    /\ numSat = [l \in Link |-> 0]
    /\ sumSat = [l \in Link |-> 0]

Begin(f) ==
    /\ f \notin on
    /\ on' = on \cup {f}
    /\ book' = [l \in Link |-> [book[l] EXCEPT ![f] = NewEntry]]
    /\ UNCHANGED totals

\* A link of the flow enters or rates it.
Rate(f, l) ==
    /\ f \in on
    /\ \A k \in Route[f] : book[k][f] # Struck
    /\ \E e \in Ratings(l) : Write(f, l, e)
    /\ sumSat'[l] < Capacity[l]
    /\ UNCHANGED on

\* A link of the flow strikes it out.
Strike(f, l) ==
    /\ f \in on
    /\ book[l][f] # Struck
    /\ Write(f, l, Struck)
    /\ UNCHANGED on

\* The flow ends when all links have struck it out.
End(f) ==
    /\ f \in on
    /\ \A l \in Route[f] : book[l][f] = Struck
    /\ on' = on \ {f}
    /\ UNCHANGED <<book, totals>>

Next ==
    \E f \in Flow :
       \/ Begin(f) \/ End(f)
       \/ \E l \in Route[f] : Rate(f, l) \/ Strike(f, l)

Spec == Init /\ [][Next]_vars
=============================================================================
