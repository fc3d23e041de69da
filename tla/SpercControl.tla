---------------------------- MODULE SpercControl ----------------------------
(***************************************************************************)
(* The s-PERC rate computation of ns2-sperc: the per-link state of         *)
(* sperc-control.cc (SPERCLinkState), and the one control packet per flow  *)
(* that carries the flow's share of that state around its path             *)
(* (sperc-control-host.cc, sperc-routing-host.cc, the control part of      *)
(* sperc-host.cc, and the dispatch of classifier-hash.cc).                 *)
(*                                                                         *)
(* A link keeps three aggregates only: numFlows, numSat and sumSat.  What   *)
(* it believes of one flow (label, allocation) travels in that flow's      *)
(* control packet, in the slot of the link's hop.  The packet visits the   *)
(* links of the path in order, is echoed by the destination, returns to    *)
(* the source and is sent again.                                           *)
(*                                                                         *)
(* Rates are naturals in units of a grain.  The code divides floats; here  *)
(* the quotient is rounded up to the grain, so that a positive remaining   *)
(* capacity gives a positive rate, as in the code.                         *)
(*                                                                         *)
(* Data packets, the rate limiting of control packets and the point at     *)
(* which a flow is over are other components; here a flow may decide to    *)
(* end at any time (Finish).                                               *)
(***************************************************************************)
EXTENDS Integers, Sequences, FiniteSets, Totals

CONSTANTS
    Flow,        \* the source/destination pairs of agents
    Link,        \* the directed links, one SPERCLinkState each
    Path,        \* Path[f]: the links a control packet of f crosses, in order
    Capacity,    \* Capacity[l]: get_link_capacity_for_data()
    Weight,      \* Weight[f]: weight_ of the source, 1 unless classes are used
    Demand,      \* the requests of the host slot; {}: MATCH_DEMAND_TO_FLOW_SIZE 0
    LineRate,    \* SPERC_LINE_RATE_
    Tolerance,   \* rates closer than this are equal (0.0001 Gb/s)
    MAX_HOPS,    \* slots of a control packet
    UpdateInRev, \* SPERC_UPDATE_IN_REV_
    CoveringTimeout \* TRUE: maxSat timers are longer than every round trip

Slot     == 0 .. MAX_HOPS - 1
HostSlot == MAX_HOPS - 1
Label    == {"NEW_FLOW", "SAT", "UNSAT", "FINISHED"}

ASSUME FlowAssumption == IsFiniteSet(Flow)

ASSUME PathAssumption ==
    /\ MAX_HOPS \in Nat
    /\ Path \in [Flow -> Seq(Link)]
    /\ \A f \in Flow :
          /\ Len(Path[f]) > 0
          \* sperc-control-host.cc:32 exits on a path that needs the last slot
          /\ Len(Path[f]) + 2 < MAX_HOPS - 1
          \* routes are shortest paths: no link twice
          /\ \A i, j \in 1 .. Len(Path[f]) : Path[f][i] = Path[f][j] => i = j

ASSUME RateAssumption ==
    /\ Capacity \in [Link -> Nat \ {0}]
    /\ Weight \in [Flow -> Nat \ {0}]
    /\ Demand \subseteq Nat \ {0}
    /\ LineRate \in Nat \ {0}
    /\ Tolerance \in Nat \ {0}

ASSUME SwitchAssumption == UpdateInRev \in BOOLEAN /\ CoveringTimeout \in BOOLEAN

VARIABLES
    \* the state of each link
    sumSat, numSat, numFlows, maxSat, nextMaxSat,
    seen,      \* history: the flows a link has handled since maxSat was reset
    \* the control packet of each flow
    where,     \* "none", "fwd" or "rev" in the network, "held" as nextctrlpacket_
    node,      \* the node whose classifier it reaches next (0: the source)
    fwdHop, revHop,                 \* hop counters of its header
    label, alloc, rate, ignoreBit,  \* its slots
    isExit,
    \* the agents of each flow
    sendCtrlFin, ctrlFinSent, ctrlFinRcvd, hostRate

linkVars   == <<sumSat, numSat, numFlows, maxSat, nextMaxSat, seen>>
routeVars  == <<where, node, fwdHop, revHop>>
slotVars   == <<label, alloc, rate, ignoreBit>>
agentVars  == <<isExit, sendCtrlFin, ctrlFinSent, ctrlFinRcvd, hostRate>>
vars == <<linkVars, routeVars, slotVars, agentVars>>

Hops(f) == Len(Path[f])

\* The link out of node n on the path of f, whose state that node keeps.
LinkAt(f, n) == Path[f][n + 1]
-----------------------------------------------------------------------------
(* Rates *)

rate_equal(r1, r2) == r1 - r2 < Tolerance /\ r2 - r1 < Tolerance

rate_greater_than(r1, r2) == ~ rate_equal(r1, r2) /\ r1 > r2

\* The rates the other hops of f's packet propagate.
PropagatedRates(f, hop) ==
    { rate[f][i] : i \in { j \in Slot \ {hop} : ~ ignoreBit[f][j] } }

\* The least of them, or -1 when every other hop is ignored.
limit_rate(f, hop) ==
    IF PropagatedRates(f, hop) = {}
    THEN -1
    ELSE CHOOSE r \in PropagatedRates(f, hop) :
            \A s \in PropagatedRates(f, hop) : r <= s
-----------------------------------------------------------------------------
(* link_action: what a link does with a control packet of f, in slot hop *)

\* Mutant: the bandwidth f holds itself is not given back.
CopySumSatKept(f, l, hop) == sumSat[l]

\* The link's state with f taken as an unsatisfied flow.
CopySumSat(f, l, hop) ==
    sumSat[l] - (IF label[f][hop] = "SAT" THEN alloc[f][hop] * Weight[f] ELSE 0)
CopyNumSatKept(f, l, hop) == numSat[l]   \* mutant: f itself stays satisfied
CopyNumSat(f, l, hop) ==
    numSat[l] - (IF label[f][hop] = "SAT" THEN Weight[f] ELSE 0)
CopyNumFlows(f, l, hop) ==
    numFlows[l] + (IF label[f][hop] = "NEW_FLOW" THEN Weight[f] ELSE 0)

RemCap(f, l, hop)   == Capacity[l] - CopySumSat(f, l, hop)
NumUnsat(f, l, hop) == CopyNumFlows(f, l, hop) - CopyNumSat(f, l, hop)

BottleneckRate(f, l, hop) == CeilDiv(RemCap(f, l, hop), NumUnsat(f, l, hop))

\* Mutants: the case that no hop propagates a rate is forgotten; a limit equal
\* to the bottleneck rate satisfies.
LimitedByNothing(f, l, hop) ==
    rate_greater_than(BottleneckRate(f, l, hop), limit_rate(f, hop))
LimitedWhenEqual(f, l, hop) ==
    /\ limit_rate(f, hop) # -1
    /\ ~ rate_greater_than(limit_rate(f, hop), BottleneckRate(f, l, hop))

\* Is f limited below what this link could give it?
LimitedElsewhere(f, l, hop) ==
    /\ limit_rate(f, hop) # -1
    /\ rate_greater_than(BottleneckRate(f, l, hop), limit_rate(f, hop))

NewLabel(f, l, hop) == IF LimitedElsewhere(f, l, hop) THEN "SAT" ELSE "UNSAT"

\* The allocation moves only when it differs by a tolerance.
NewAlloc(f, l, hop) ==
    LET target == IF LimitedElsewhere(f, l, hop)
                  THEN limit_rate(f, hop)
                  ELSE BottleneckRate(f, l, hop)
    IN  IF rate_equal(alloc[f][hop], target) THEN alloc[f][hop] ELSE target

update_max_sat(l, newAlloc) ==
    /\ maxSat' = [maxSat EXCEPT ![l] =
                     IF rate_greater_than(newAlloc, @) THEN newAlloc ELSE @]
    /\ nextMaxSat' = [nextMaxSat EXCEPT ![l] =
                     IF rate_greater_than(newAlloc, @) THEN newAlloc ELSE @]

update_local_state(l, w, oldLabel, oldAlloc, newLabel, newAlloc) ==
    LET joins    == oldLabel = "NEW_FLOW" /\ newLabel \in {"SAT", "UNSAT"}
        leaves   == oldLabel \in {"SAT", "UNSAT"} /\ newLabel = "FINISHED"
        fills    == oldLabel \in {"NEW_FLOW", "UNSAT"} /\ newLabel = "SAT"
        refills  == oldLabel = "SAT" /\ newLabel = "SAT"
        releases == oldLabel = "SAT" /\ newLabel \in {"UNSAT", "FINISHED"}
    IN  /\ numFlows' = [numFlows EXCEPT ![l] =
              @ + (IF joins THEN w ELSE 0) - (IF leaves THEN w ELSE 0)]
        /\ numSat' = [numSat EXCEPT ![l] =
              @ + (IF fills THEN w ELSE 0) - (IF releases THEN w ELSE 0)]
        /\ sumSat' = [sumSat EXCEPT ![l] =
              @ - (IF refills \/ releases THEN oldAlloc * w ELSE 0)
                + (IF fills \/ refills THEN newAlloc * w ELSE 0)]
        /\ IF newLabel = "SAT"
           THEN update_max_sat(l, newAlloc)
           ELSE UNCHANGED <<maxSat, nextMaxSat>>

\* The exit(1)s of link_action.
Aborts(f, l, hop) ==
    /\ label[f][hop] # "FINISHED"
    /\ ~ isExit[f]
    /\ \/ CopyNumFlows(f, l, hop) <= 0
       \/ NumUnsat(f, l, hop) <= 0
       \/ /\ ~ rate_greater_than(maxSat[l], BottleneckRate(f, l, hop))
          /\ BottleneckRate(f, l, hop) <= 0

\* A reverse exit packet: the link has forgotten the flow already.
IgnoreFinished(f, l, hop) ==
    /\ label[f][hop] = "FINISHED"
    /\ UNCHANGED <<linkVars, slotVars>>

\* Mutant: the label is overwritten before the share of the old one is removed.
RemoveFinished(f, l, hop) ==
    /\ label[f][hop] # "FINISHED"
    /\ isExit[f]
    /\ label' = [label EXCEPT ![f][hop] = "FINISHED"]
    /\ alloc' = [alloc EXCEPT ![f][hop] = 0]
    /\ update_local_state(l, Weight[f], "FINISHED", alloc[f][hop], "FINISHED", 0)
    /\ seen' = [seen EXCEPT ![l] = @ \ {f}]
    /\ UNCHANGED <<rate, ignoreBit>>

\* Mutant: the packet does not take the new label along.
RemoveUnmarked(f, l, hop) ==
    /\ label[f][hop] # "FINISHED"
    /\ isExit[f]
    /\ alloc' = [alloc EXCEPT ![f][hop] = 0]
    /\ update_local_state(l, Weight[f], label[f][hop], alloc[f][hop],
                          "FINISHED", 0)
    /\ seen' = [seen EXCEPT ![l] = @ \ {f}]
    /\ UNCHANGED <<label, rate, ignoreBit>>

\* The flow leaves: its share of the link's state goes with it.
RemoveFlow(f, l, hop) ==
    /\ label[f][hop] # "FINISHED"
    /\ isExit[f]
    /\ label' = [label EXCEPT ![f][hop] = "FINISHED"]
    /\ alloc' = [alloc EXCEPT ![f][hop] = 0]
    /\ update_local_state(l, Weight[f], label[f][hop], alloc[f][hop],
                          "FINISHED", 0)
    /\ seen' = [seen EXCEPT ![l] = @ \ {f}]
    /\ UNCHANGED <<rate, ignoreBit>>

\* The flow is labelled and allocated anew, and the hop propagates its rate
\* unless a satisfied flow has recently been allocated more.
Allocate(f, l, hop) ==
    /\ label[f][hop] # "FINISHED"
    /\ ~ isExit[f]
    /\ ~ Aborts(f, l, hop)
    /\ label' = [label EXCEPT ![f][hop] = NewLabel(f, l, hop)]
    /\ alloc' = [alloc EXCEPT ![f][hop] = NewAlloc(f, l, hop)]
    /\ update_local_state(l, Weight[f], label[f][hop], alloc[f][hop],
                          NewLabel(f, l, hop), NewAlloc(f, l, hop))
    /\ rate' = [rate EXCEPT ![f][hop] = BottleneckRate(f, l, hop)]
    /\ ignoreBit' = [ignoreBit EXCEPT ![f][hop] =
                        rate_greater_than(maxSat[l], BottleneckRate(f, l, hop))]
    /\ seen' = [seen EXCEPT ![l] = @ \cup {f}]

link_action(f, l, hop) ==
    \/ IgnoreFinished(f, l, hop)
    \/ RemoveFlow(f, l, hop)
    \/ Allocate(f, l, hop)
-----------------------------------------------------------------------------
(* The source agent *)

\* Mutant: no slot of a new packet has its ignore bit set.
FreshSlotsHeeded(f) ==
    /\ label' = [label EXCEPT ![f] = [i \in Slot |-> "NEW_FLOW"]]
    /\ \E d \in Demand :
          /\ alloc' = [alloc EXCEPT ![f] =
                          [i \in Slot |-> IF i = HostSlot THEN d ELSE 0]]
          /\ rate' = [rate EXCEPT ![f] =
                          [i \in Slot |-> IF i = HostSlot THEN d ELSE 0]]
    /\ ignoreBit' = [ignoreBit EXCEPT ![f] = [i \in Slot |-> FALSE]]

\* The slots of a flow's first packet: everything new and ignored, except
\* the request of the host slot when demands are matched to flow sizes.
FreshSlots(f) ==
    /\ label' = [label EXCEPT ![f] = [i \in Slot |-> "NEW_FLOW"]]
    /\ \E d \in (IF Demand = {} THEN {0} ELSE Demand) :
          /\ alloc' = [alloc EXCEPT ![f] =
                          [i \in Slot |-> IF i = HostSlot THEN d ELSE 0]]
          /\ rate' = [rate EXCEPT ![f] =
                          [i \in Slot |-> IF i = HostSlot THEN d ELSE 0]]
    /\ ignoreBit' = [ignoreBit EXCEPT ![f] =
                        [i \in Slot |-> i # HostSlot \/ Demand = {}]]

\* send_first_packet: the agents have been reset, a new transfer begins.  The
\* first packet is an exit packet already if the flow was stopped while the
\* jitter timer ran.
Start(f) ==
    /\ where[f] = "none"
    /\ FreshSlots(f)
    /\ where' = [where EXCEPT ![f] = "fwd"]
    /\ node' = [node EXCEPT ![f] = 0]
    /\ fwdHop' = [fwdHop EXCEPT ![f] = 1]
    /\ revHop' = [revHop EXCEPT ![f] = 0]
    /\ \E stopped \in BOOLEAN :
          /\ isExit' = [isExit EXCEPT ![f] = stopped]
          /\ sendCtrlFin' = [sendCtrlFin EXCEPT ![f] = stopped]
          /\ ctrlFinSent' = [ctrlFinSent EXCEPT ![f] = stopped]
    /\ ctrlFinRcvd' = [ctrlFinRcvd EXCEPT ![f] = FALSE]
    /\ hostRate' = [hostRate EXCEPT ![f] = 0]
    /\ UNCHANGED linkVars

\* All data is acknowledged, or the flow is stopped: recv_data, "stop".
Finish(f) ==
    /\ where[f] # "none"
    /\ ~ sendCtrlFin[f]
    /\ sendCtrlFin' = [sendCtrlFin EXCEPT ![f] = TRUE]
    /\ UNCHANGED <<linkVars, routeVars, slotVars,
                   isExit, ctrlFinSent, ctrlFinRcvd, hostRate>>

\* ctrl_timeout: the held packet goes out, with a fresh request.
SendCtrl(f) ==
    /\ where[f] = "held"
    /\ where' = [where EXCEPT ![f] = "fwd"]
    /\ IF Demand = {}
       THEN UNCHANGED <<rate, ignoreBit>>
       ELSE /\ \E d \in Demand : rate' = [rate EXCEPT ![f][HostSlot] = d]
            /\ ignoreBit' = [ignoreBit EXCEPT ![f][HostSlot] = FALSE]
    /\ UNCHANGED <<linkVars, node, fwdHop, revHop, label, alloc, agentVars>>

\* get_rate_from_SPERC_ctrl: the least allocation over the links of the path,
\* the line rate when the host is the bottleneck, a trickle (0) at the end.
\* (The code's minimum takes the first of two that are within the tolerance.)
RateFromCtrl(f, allocs) ==
    LET links == 0 .. (fwdHop[f] - 2) - 1
        least == CHOOSE r \in { allocs[i] : i \in links } :
                    \A i \in links : r <= allocs[i]
    IN  IF isExit[f] THEN 0
        ELSE IF Demand # {} /\ least = rate[f][HostSlot] /\ ~ ignoreBit[f][HostSlot]
             THEN LineRate
             ELSE least

NeverExit(f) == isExit[f]   \* mutant: the end of the flow is not passed on

\* The packet after this one is an exit packet if this one is, or if the flow
\* has ended since the last one was prepared.
NextExit(f) == isExit[f] \/ (sendCtrlFin[f] /\ ~ ctrlFinSent[f])

ExitSent(f) == ctrlFinSent'[f]   \* mutant: it need not have come back

\* The exit packet was sent and has come back.
ExitDone(f) == ctrlFinSent'[f] /\ ctrlFinRcvd'[f]

\* recv_ctrl and populate_SPERC_ctrl at the source: read the rate, then stop
\* after an exit packet or prepare the next packet.
ReceiveAtSource(f) ==
    /\ hostRate' = [hostRate EXCEPT ![f] = RateFromCtrl(f, alloc'[f])]
    /\ isExit' = [isExit EXCEPT ![f] = NextExit(f)]
    /\ ctrlFinSent' = [ctrlFinSent EXCEPT ![f] = @ \/ sendCtrlFin[f] \/ isExit[f]]
    /\ ctrlFinRcvd' = [ctrlFinRcvd EXCEPT ![f] = @ \/ isExit[f]]
    /\ where' = [where EXCEPT ![f] =
                    IF ExitDone(f) THEN "none" ELSE "held"]
    /\ node' = [node EXCEPT ![f] = 0]
    /\ fwdHop' = [fwdHop EXCEPT ![f] = 1]
    /\ revHop' = [revHop EXCEPT ![f] = 0]
    /\ UNCHANGED sendCtrlFin
-----------------------------------------------------------------------------
(* The network: classifiers call the links, queues count the hops *)

\* A forward packet at a node before the destination: process_egress, then
\* the queue of the link to the next node.
ForwardHop(f) ==
    /\ where[f] = "fwd"
    /\ node[f] < Hops(f)
    /\ link_action(f, LinkAt(f, node[f]), fwdHop[f] - 1)
    /\ node' = [node EXCEPT ![f] = @ + 1]
    /\ fwdHop' = [fwdHop EXCEPT ![f] = @ + 1]
    /\ UNCHANGED <<where, revHop, agentVars>>

\* Mutant: the echo does not count the queue of its own node.
EchoUncounted(f) ==
    /\ where[f] = "fwd"
    /\ node[f] = Hops(f)
    /\ where' = [where EXCEPT ![f] = "rev"]
    /\ node' = [node EXCEPT ![f] = @ - 1]
    /\ fwdHop' = [fwdHop EXCEPT ![f] = @ + 1]
    /\ revHop' = [revHop EXCEPT ![f] = 1]
    /\ UNCHANGED <<linkVars, slotVars, agentVars>>

\* The destination counts itself as a hop and echoes the packet at once; the
\* echo passes its own node without processing and crosses the last link back.
Echo(f) ==
    /\ where[f] = "fwd"
    /\ node[f] = Hops(f)
    /\ where' = [where EXCEPT ![f] = "rev"]
    /\ node' = [node EXCEPT ![f] = @ - 1]
    /\ fwdHop' = [fwdHop EXCEPT ![f] = @ + 1]
    /\ revHop' = [revHop EXCEPT ![f] = 2]
    /\ UNCHANGED <<linkVars, slotVars, agentVars>>

\* process_ingress at node n: the state of the link out of n, in the slot
\* that the two hop counters give.
process_ingress(f) ==
    IF UpdateInRev
    THEN link_action(f, LinkAt(f, node[f]), fwdHop[f] - revHop[f] - 1)
    ELSE UNCHANGED <<linkVars, slotVars>>

ReverseHop(f) ==
    /\ where[f] = "rev"
    /\ node[f] > 0
    /\ process_ingress(f)
    /\ node' = [node EXCEPT ![f] = @ - 1]
    /\ revHop' = [revHop EXCEPT ![f] = @ + 1]
    /\ UNCHANGED <<where, fwdHop, agentVars>>

\* At the source's node the agent receives the packet in the same event.
Return(f) ==
    /\ where[f] = "rev"
    /\ node[f] = 0
    /\ process_ingress(f)
    /\ ReceiveAtSource(f)
-----------------------------------------------------------------------------
(* Timers *)

\* The flows a link counts now.
Counted(l) ==
    { f \in Flow : \E n \in 0 .. Hops(f) - 1 :
         LinkAt(f, n) = l /\ label[f][n] \in {"SAT", "UNSAT"} }

\* Mutant: maxSat forgets the flows seen since the last reset, too.
ResetMaxSatToZero(l) ==
    /\ CoveringTimeout => Counted(l) \subseteq seen[l]
    /\ maxSat' = [maxSat EXCEPT ![l] = 0]
    /\ nextMaxSat' = [nextMaxSat EXCEPT ![l] = 0]
    /\ seen' = [seen EXCEPT ![l] = {}]
    /\ UNCHANGED <<sumSat, numSat, numFlows, routeVars, slotVars, agentVars>>

\* reset_maxsat_timeout.  With CoveringTimeout the timer, which
\* adjust_maxsat_timeout keeps longer than the longest round trip, has let
\* every flow be seen once since the last reset.
ResetMaxSat(l) ==
    /\ CoveringTimeout => Counted(l) \subseteq seen[l]
    /\ maxSat' = [maxSat EXCEPT ![l] = nextMaxSat[l]]
    /\ nextMaxSat' = [nextMaxSat EXCEPT ![l] = 0]
    /\ seen' = [seen EXCEPT ![l] = {}]
    /\ UNCHANGED <<sumSat, numSat, numFlows, routeVars, slotVars, agentVars>>
-----------------------------------------------------------------------------
Init ==
    /\ sumSat = [l \in Link |-> 0]
    /\ numSat = [l \in Link |-> 0]
    /\ numFlows = [l \in Link |-> 0]
    /\ maxSat = [l \in Link |-> 0]
    /\ nextMaxSat = [l \in Link |-> 0]
    /\ seen = [l \in Link |-> {}]
    /\ where = [f \in Flow |-> "none"]
    /\ node = [f \in Flow |-> 0]
    /\ fwdHop = [f \in Flow |-> 1]
    /\ revHop = [f \in Flow |-> 0]
    /\ label = [f \in Flow |-> [i \in Slot |-> "NEW_FLOW"]]
    /\ alloc = [f \in Flow |-> [i \in Slot |-> 0]]
    /\ rate = [f \in Flow |-> [i \in Slot |-> 0]]
    /\ ignoreBit = [f \in Flow |-> [i \in Slot |-> TRUE]]
    /\ isExit = [f \in Flow |-> FALSE]
    /\ sendCtrlFin = [f \in Flow |-> FALSE]
    /\ ctrlFinSent = [f \in Flow |-> FALSE]
    /\ ctrlFinRcvd = [f \in Flow |-> FALSE]
    /\ hostRate = [f \in Flow |-> 0]

PacketStep(f) ==
    ForwardHop(f) \/ Echo(f) \/ ReverseHop(f) \/ Return(f) \/ SendCtrl(f)

Next ==
    \/ \E f \in Flow : Start(f) \/ Finish(f) \/ PacketStep(f)
    \/ \E l \in Link : ResetMaxSat(l)

Spec == Init /\ [][Next]_vars

\* A control packet in the network is delivered (a queue that drops one ends
\* the simulation, sperc.cc), a held one is sent by the control timer, and the
\* maxSat timer of a link fires again and again.  Nothing obliges a flow to
\* start or to end.
Fairness ==
    /\ \A f \in Flow : WF_vars(PacketStep(f))
    /\ \A l \in Link : WF_vars(ResetMaxSat(l))

FairSpec == Spec /\ Fairness
-----------------------------------------------------------------------------
(* Properties *)

\* Every variable has its type.
TypeOK ==
    /\ sumSat \in [Link -> Nat]
    /\ numSat \in [Link -> Nat]
    /\ numFlows \in [Link -> Nat]
    /\ maxSat \in [Link -> Nat]
    /\ nextMaxSat \in [Link -> Nat]
    /\ seen \in [Link -> SUBSET Flow]
    /\ where \in [Flow -> {"none", "fwd", "rev", "held"}]
    /\ node \in [Flow -> Nat]
    /\ fwdHop \in [Flow -> Nat]
    /\ revHop \in [Flow -> Nat]
    /\ label \in [Flow -> [Slot -> Label]]
    /\ alloc \in [Flow -> [Slot -> Nat]]
    /\ rate \in [Flow -> [Slot -> Nat]]
    /\ ignoreBit \in [Flow -> [Slot -> BOOLEAN]]
    /\ isExit \in [Flow -> BOOLEAN]
    /\ sendCtrlFin \in [Flow -> BOOLEAN]
    /\ ctrlFinSent \in [Flow -> BOOLEAN]
    /\ ctrlFinRcvd \in [Flow -> BOOLEAN]
    /\ hostRate \in [Flow -> Nat]

\* What the packets say of a link: the flow's weight when it is counted, when
\* it is satisfied, and the bandwidth it then holds.
Crosses(f, l) == \E n \in 0 .. Hops(f) - 1 : LinkAt(f, n) = l
HopOf(f, l)   == CHOOSE n \in 0 .. Hops(f) - 1 : LinkAt(f, n) = l
LabelAt(f, l) == IF Crosses(f, l) THEN label[f][HopOf(f, l)] ELSE "NEW_FLOW"

FlowShare(l) == [f \in Flow |->
    IF LabelAt(f, l) \in {"SAT", "UNSAT"} THEN Weight[f] ELSE 0]
SatShare(l) == [f \in Flow |->
    IF LabelAt(f, l) = "SAT" THEN Weight[f] ELSE 0]
SatRate(l) == [f \in Flow |->
    IF LabelAt(f, l) = "SAT" THEN alloc[f][HopOf(f, l)] * Weight[f] ELSE 0]

\* The aggregates of a link are the totals of what the control packets in
\* flight say of it, through every interleaving of visits, restarts and exits:
\* nothing leaks when a flow is relabelled or leaves (update_local_state).
AggregatesMatch ==
    \A l \in Link :
       /\ numFlows[l] = Total(FlowShare(l))
       /\ numSat[l] = Total(SatShare(l))
       /\ sumSat[l] = Total(SatRate(l))

\* The satisfied flows of a link leave capacity over, so the next flow's
\* remaining capacity is positive (the warning of sperc-control.cc:644).
SumSatBelowCapacity == \A l \in Link : sumSat[l] < Capacity[l]

\* The slot that the hop counters of the header select (fwd_hop - 1 on the way
\* out, fwd_hop - rev_hop - 1 on the way back) is the slot of the link whose
\* state the classifier updates, and the echo has counted the path exactly.
HopSelectsLink ==
    \A f \in Flow :
       /\ where[f] = "fwd" => fwdHop[f] - 1 = node[f]
       /\ where[f] = "rev" =>
             /\ fwdHop[f] - revHop[f] - 1 = node[f]
             /\ fwdHop[f] - 2 = Hops(f)

\* No control packet makes a link exit: the flow's own share keeps numUnsat
\* positive and the rate propagated without the ignore bit is positive.
NeverAborts ==
    \A f \in Flow :
       /\ where[f] = "fwd" /\ node[f] < Hops(f) =>
             ~ Aborts(f, LinkAt(f, node[f]), fwdHop[f] - 1)
       /\ UpdateInRev /\ where[f] = "rev" =>
             ~ Aborts(f, LinkAt(f, node[f]), fwdHop[f] - revHop[f] - 1)

\* The assertion in limit_rate (sperc-hdrs.h:124): a rate that is not ignored
\* is positive, in every slot of every packet.
PropagatedRatePositive ==
    \A f \in Flow : \A i \in Slot : ~ ignoreBit[f][i] => rate[f][i] > 0

\* The assertion in link_action (sperc-control.cc:613), which builds compile out:
\* a link takes a flow out on the way to the destination only.  When the exit packet
\* comes back, past the same links, each of them has seen it.
ExitSeenForward ==
    \A f \in Flow : isExit[f] /\ where[f] = "rev" =>
       \A n \in 0 .. Hops(f) - 1 : label[f][n] = "FINISHED"

\* While the maxSat timer lets every flow be seen between two resets, maxSat
\* is no less than any satisfied flow's allocation: no hop propagates a rate
\* that a satisfied flow of its link already exceeds.
MaxSatCovers ==
    \A f \in Flow : \A n \in 0 .. Hops(f) - 1 :
       label[f][n] = "SAT" => ~ rate_greater_than(alloc[f][n], maxSat[LinkAt(f, n)])

\* A flow that has decided to end is forgotten by every link of its path.
Leaves ==
    \A f \in Flow : sendCtrlFin[f] /\ where[f] # "none"
                       ~> \A n \in 0 .. Hops(f) - 1 : label[f][n] = "FINISHED"

\* The weighted max-min fair rates of the active flows, by definition: no link
\* is overloaded and every flow crosses a full link on which no rate is higher.
Active == { f \in Flow : where[f] # "none" /\ ~ sendCtrlFin[f] }
Load(l) == Total([f \in Flow |->
              IF f \in Active /\ Crosses(f, l) THEN hostRate[f] * Weight[f] ELSE 0])
MaxMinFair ==
    /\ \A l \in Link : Load(l) <= Capacity[l]
    /\ \A f \in Active : \E l \in Link :
          /\ Crosses(f, l)
          /\ Load(l) = Capacity[l]
          /\ \A g \in Active : Crosses(g, l) => hostRate[g] <= hostRate[f]

\* Once flows stop coming and going, the sources' rates settle at the max-min
\* fair rates for good: the point of the whole computation.
Converges ==
    <>[][~ \E f \in Flow : Start(f) \/ Finish(f)]_vars => <>[]MaxMinFair
-----------------------------------------------------------------------------
(* The book that a link does without *)

\* What the packet of f says for the book of l.
EntryAt(f, l) ==
    [label |-> LabelAt(f, l),
     rate  |-> IF LabelAt(f, l) = "SAT" THEN alloc[f][HopOf(f, l)] ELSE 0]

BookOfPackets == [l \in Link |-> [f \in Flow |-> EntryAt(f, l)]]

Begun == {f \in Flow : where[f] # "none"}

Book == INSTANCE LinkBook WITH
    Route <- [f \in Flow |-> {l \in Link : Crosses(f, l)}],
    on    <- Begun,
    book  <- BookOfPackets

\* Links that know nothing of a single flow keep the totals that a book of their
\* flows would give them, promise less than their capacity, and no flow begins
\* again or is counted anew before each of its links has forgotten it.
ImplementsBook == Book!Spec
=============================================================================
