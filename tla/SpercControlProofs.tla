------------------------- MODULE SpercControlProofs -------------------------
(***************************************************************************)
(* The safety of the s-PERC rate computation, for any number of flows and  *)
(* links, any paths, capacities, weights, requests and tolerance, and any  *)
(* behaviour of the maxSat timers.                                         *)
(*                                                                         *)
(* The argument.  There is one control packet per flow, so what the links  *)
(* believe of the flow is written in one place, the packet's slots, and    *)
(* each link's aggregates are the totals of those slots (AggregatesMatch). *)
(* That needs the hop counters to select the right slot (RouteOK) and a    *)
(* flow that ends to be forgotten by every link before its packet is       *)
(* (ExitForgotten).  A link that treats the flow as unsatisfied then       *)
(* always counts it, so numUnsat is at least the flow's weight, and a      *)
(* satisfied flow gets strictly less than its part of the remaining        *)
(* capacity: sumSat stays below the capacity and the rate a link           *)
(* propagates stays positive.                                              *)
(***************************************************************************)
EXTENDS SpercControl, TotalsProofs

\* The hop counters follow the packet.
RouteOK ==
    \A f \in Flow :
       /\ where[f] \in {"none", "held"} => node[f] = 0 /\ fwdHop[f] = 1
       /\ where[f] = "fwd" => /\ node[f] \in 0 .. Hops(f)
                              /\ fwdHop[f] - 1 = node[f]
       /\ where[f] = "rev" => /\ node[f] \in 0 .. Hops(f) - 1
                              /\ fwdHop[f] - 2 = Hops(f)
                              /\ fwdHop[f] - revHop[f] - 1 = node[f]

\* A link an exit packet has passed has forgotten the flow, and so has every
\* link of a flow without a packet.
Forgotten(f, n) == label[f][n] \notin {"SAT", "UNSAT"}

ExitForgotten ==
    \A f \in Flow :
       /\ where[f] = "none" => \A n \in 0 .. Hops(f) - 1 : Forgotten(f, n)
       /\ isExit[f] /\ where[f] = "fwd" =>
             \A n \in 0 .. Hops(f) - 1 : n < node[f] => Forgotten(f, n)
       /\ isExit[f] /\ where[f] = "rev" =>
             \A n \in 0 .. Hops(f) - 1 : Forgotten(f, n)
       /\ ctrlFinRcvd[f] => where[f] = "none"
-----------------------------------------------------------------------------
(* Operators *)

\* The limit is -1 or a rate.
LEMMA LimitRateType ==
    ASSUME rate \in [Flow -> [Slot -> Nat]], NEW f \in Flow, NEW hop \in Slot
    PROVE  limit_rate(f, hop) \in Nat \cup {-1}
<1>1. PropagatedRates(f, hop) \in SUBSET Nat
  BY DEF PropagatedRates
<1>2. CASE PropagatedRates(f, hop) = {}
  BY <1>2 DEF limit_rate
<1>3. CASE PropagatedRates(f, hop) # {}
  <2>1. \E r \in PropagatedRates(f, hop) :
           \A s \in PropagatedRates(f, hop) : r <= s
    BY <1>1, <1>3, LeastExists
  <2> QED
    BY <1>1, <1>3, <2>1 DEF limit_rate
<1> QED
  BY <1>2, <1>3

\* The hop of a link on a path is the position it stands at.
LEMMA HopUnique ==
    ASSUME NEW f \in Flow, NEW n \in 0 .. Hops(f) - 1
    PROVE  /\ LinkAt(f, n) \in Link
           /\ Crosses(f, LinkAt(f, n))
           /\ HopOf(f, LinkAt(f, n)) = n
           /\ n \in Slot
           /\ n # HostSlot
<1>1. Path[f] \in Seq(Link) /\ Len(Path[f]) \in Nat /\ MAX_HOPS \in Nat
  BY PathAssumption
<1>2. n + 1 \in 1 .. Len(Path[f])
  BY <1>1 DEF Hops
<1>3. \A m \in 0 .. Hops(f) - 1 : LinkAt(f, m) = LinkAt(f, n) => m = n
  <2> SUFFICES ASSUME NEW m \in 0 .. Hops(f) - 1, LinkAt(f, m) = LinkAt(f, n)
               PROVE  m = n
    OBVIOUS
  <2>1. m + 1 \in 1 .. Len(Path[f])
    BY <1>1 DEF Hops
  <2>2. m + 1 = n + 1
    BY <1>2, <2>1, PathAssumption DEF LinkAt
  <2> QED
    BY <1>1, <2>2
<1>4. Len(Path[f]) + 2 < MAX_HOPS - 1
  BY PathAssumption
<1>5. LinkAt(f, n) \in Link
  BY <1>1, <1>2 DEF LinkAt
<1>6. n \in Slot /\ n # HostSlot
  BY <1>1, <1>4 DEF Slot, HostSlot, Hops
<1> QED
  BY <1>3, <1>5, <1>6 DEF Crosses, HopOf

\* A link on a path stands at its hop.
LEMMA HopOfLink ==
    ASSUME NEW f \in Flow, NEW l \in Link, Crosses(f, l)
    PROVE  /\ HopOf(f, l) \in 0 .. Hops(f) - 1
           /\ HopOf(f, l) \in Slot
           /\ LinkAt(f, HopOf(f, l)) = l
<1>1. HopOf(f, l) \in 0 .. Hops(f) - 1 /\ LinkAt(f, HopOf(f, l)) = l
  BY DEF HopOf, Crosses
<1> QED
  BY <1>1, HopUnique
-----------------------------------------------------------------------------
(* The aggregates *)

LinkTypeOK ==
    /\ sumSat \in [Link -> Nat]
    /\ numSat \in [Link -> Nat]
    /\ numFlows \in [Link -> Nat]
    /\ maxSat \in [Link -> Nat]
    /\ nextMaxSat \in [Link -> Nat]
    /\ seen \in [Link -> SUBSET Flow]

SlotTypeOK ==
    /\ label \in [Flow -> [Slot -> Label]]
    /\ alloc \in [Flow -> [Slot -> Nat]]
    /\ rate \in [Flow -> [Slot -> Nat]]
    /\ ignoreBit \in [Flow -> [Slot -> BOOLEAN]]

\* The shares of a link are functions into the naturals, and a satisfied flow
\* is a counted one.
LEMMA ShareTypes ==
    ASSUME SlotTypeOK, NEW l \in Link
    PROVE  /\ FlowShare(l) \in [Flow -> Nat]
           /\ SatShare(l) \in [Flow -> Nat]
           /\ SatRate(l) \in [Flow -> Nat]
           /\ \A f \in Flow : SatShare(l)[f] <= FlowShare(l)[f]
<1>1. \A f \in Flow : Weight[f] \in Nat
  BY RateAssumption
<1>2. FlowShare(l) \in [Flow -> Nat] /\ SatShare(l) \in [Flow -> Nat]
  BY <1>1 DEF FlowShare, SatShare
<1>3. ASSUME NEW f \in Flow, LabelAt(f, l) = "SAT"
      PROVE  alloc[f][HopOf(f, l)] * Weight[f] \in Nat
  <2>1. Crosses(f, l)
    BY <1>3 DEF LabelAt
  <2>2. HopOf(f, l) \in Slot
    BY <2>1, HopOfLink
  <2>3. alloc[f][HopOf(f, l)] \in Nat
    BY <2>2 DEF SlotTypeOK
  <2> QED
    BY <1>1, <2>3
<1>4. SatRate(l) \in [Flow -> Nat]
  BY <1>3 DEF SatRate
<1>5. \A f \in Flow : SatShare(l)[f] <= FlowShare(l)[f]
  BY <1>1 DEF SatShare, FlowShare
<1> QED
  BY <1>2, <1>4, <1>5

\* What a flow's slot says at one of its links.
LEMMA SharesAt ==
    ASSUME NEW f \in Flow, NEW n \in 0 .. Hops(f) - 1
    PROVE  LET l == LinkAt(f, n) IN
           /\ FlowShare(l)[f] = IF label[f][n] \in {"SAT", "UNSAT"} THEN Weight[f] ELSE 0
           /\ SatShare(l)[f] = IF label[f][n] = "SAT" THEN Weight[f] ELSE 0
           /\ SatRate(l)[f] = IF label[f][n] = "SAT" THEN alloc[f][n] * Weight[f] ELSE 0
  BY HopUnique DEF FlowShare, SatShare, SatRate, LabelAt

-----------------------------------------------------------------------------
(* link_action *)

LinkInv ==
    /\ LinkTypeOK
    /\ SlotTypeOK
    /\ AggregatesMatch
    /\ SumSatBelowCapacity
    /\ PropagatedRatePositive

\* The link counts at least the flow itself as unsatisfied.
LEMMA NumUnsatCoversFlow ==
    ASSUME LinkInv, NEW f \in Flow, NEW n \in 0 .. Hops(f) - 1,
           label[f][n] # "FINISHED"
    PROVE  LET l == LinkAt(f, n) IN
           /\ NumUnsat(f, l, n) \in Nat
           /\ Weight[f] <= NumUnsat(f, l, n)
           /\ CopyNumFlows(f, l, n) \in Nat
           /\ Weight[f] <= CopyNumFlows(f, l, n)
<1> DEFINE l == LinkAt(f, n)
<1>1. l \in Link /\ n \in Slot
  BY HopUnique
<1>2. label[f][n] \in {"NEW_FLOW", "SAT", "UNSAT"}
  BY <1>1 DEF LinkInv, SlotTypeOK, Label
<1>3. /\ FlowShare(l) \in [Flow -> Nat]
      /\ SatShare(l) \in [Flow -> Nat]
      /\ \A g \in Flow : SatShare(l)[g] <= FlowShare(l)[g]
  BY <1>1, ShareTypes DEF LinkInv
<1>4. /\ FlowShare(l)[f] - SatShare(l)[f] <= Total(FlowShare(l)) - Total(SatShare(l))
      /\ Total(SatShare(l)) \in Nat
      /\ Total(FlowShare(l)) \in Nat
  BY <1>3, FlowAssumption, TotalGap, TotalType
<1>5. numFlows[l] = Total(FlowShare(l)) /\ numSat[l] = Total(SatShare(l))
  BY <1>1 DEF LinkInv, AggregatesMatch
<1>6. Total(FlowShare(l)) >= FlowShare(l)[f]
  <2>1. [g \in Flow |-> 0] \in [Flow -> Nat]
    OBVIOUS
  <2>2. FlowShare(l)[f] - [g \in Flow |-> 0][f]
           <= Total(FlowShare(l)) - Total([g \in Flow |-> 0])
    BY <1>3, <2>1, FlowAssumption, TotalGap
  <2>3. Total([g \in Flow |-> 0]) = 0
    BY <2>1, TotalZero
  <2> QED
    BY <1>3, <1>4, <2>2, <2>3
<1>7. /\ FlowShare(l)[f] = IF label[f][n] \in {"SAT", "UNSAT"} THEN Weight[f] ELSE 0
      /\ SatShare(l)[f] = IF label[f][n] = "SAT" THEN Weight[f] ELSE 0
  BY SharesAt
<1>8. Weight[f] \in Nat
  BY RateAssumption
<1> HIDE DEF l
<1>9. /\ NumUnsat(f, l, n) \in Nat
      /\ Weight[f] <= NumUnsat(f, l, n)
      /\ CopyNumFlows(f, l, n) \in Nat
      /\ Weight[f] <= CopyNumFlows(f, l, n)
  BY <1>2, <1>4, <1>5, <1>6, <1>7, <1>8 DEF NumUnsat, CopyNumFlows, CopyNumSat
<1> QED
  BY <1>9 DEF l

\* The capacity left to the unsatisfied flows is positive.
LEMMA RemCapPositive ==
    ASSUME LinkInv, NEW f \in Flow, NEW n \in 0 .. Hops(f) - 1
    PROVE  LET l == LinkAt(f, n) IN
           /\ CopySumSat(f, l, n) \in Int
           /\ RemCap(f, l, n) \in Nat \ {0}
<1> DEFINE l == LinkAt(f, n)
<1>1. l \in Link /\ n \in Slot
  BY HopUnique
<1>2. alloc[f][n] \in Nat /\ Weight[f] \in Nat
  BY <1>1, RateAssumption DEF LinkInv, SlotTypeOK
<1>3. alloc[f][n] * Weight[f] \in Nat
  BY <1>2
<1>4. sumSat[l] \in Nat /\ Capacity[l] \in Nat /\ sumSat[l] < Capacity[l]
  BY <1>1, RateAssumption DEF LinkInv, LinkTypeOK, SumSatBelowCapacity
<1> DEFINE a == alloc[f][n] * Weight[f]
<1> HIDE DEF l
<1>5. CopySumSat(f, l, n) = sumSat[l] - (IF label[f][n] = "SAT" THEN a ELSE 0)
  BY DEF CopySumSat
<1> HIDE DEF a
<1>6. CopySumSat(f, l, n) \in Int /\ CopySumSat(f, l, n) < Capacity[l]
  BY <1>3, <1>4, <1>5 DEF a
<1> QED
  BY <1>4, <1>6 DEF RemCap, l

\* The bottleneck rate is positive, and a rate below it for each unsatisfied
\* flow fits strictly into the remaining capacity.
LEMMA BottleneckRateBounds ==
    ASSUME LinkInv, NEW f \in Flow, NEW n \in 0 .. Hops(f) - 1,
           label[f][n] # "FINISHED"
    PROVE  LET l == LinkAt(f, n) IN
           /\ BottleneckRate(f, l, n) \in Nat \ {0}
           /\ (BottleneckRate(f, l, n) - 1) * NumUnsat(f, l, n) < RemCap(f, l, n)
<1> DEFINE l == LinkAt(f, n)
           r == RemCap(f, l, n)
           u == NumUnsat(f, l, n)
           b == CeilDiv(r, u)
<1>1. u \in Nat \ {0}
  <2>1. Weight[f] \in Nat \ {0}
    BY RateAssumption
  <2> QED
    BY <2>1, NumUnsatCoversFlow
<1>2. r \in Nat \ {0}
  BY RemCapPositive
<1> HIDE DEF r, u
<1>3. b \in Int /\ r <= u * b /\ u * (b - 1) < r
  BY <1>1, <1>2, CeilDivBounds
<1> HIDE DEF b
<1>4. b > 0
  <2> SUFFICES ASSUME b <= 0 PROVE FALSE
    BY <1>3
  <2>1. PICK c \in Nat : b = -c
    <3>1. -b \in Nat /\ b = -(-b)
      BY <1>3
    <3> QED
      BY <3>1
  <2>2. u * b = -(u * c) /\ u * c \in Nat
    BY <1>1, <2>1
  <2> QED
    BY <1>2, <1>3, <2>2
<1>5. (b - 1) * u = u * (b - 1)
  BY <1>1, <1>3
<1> QED
  BY <1>3, <1>4, <1>5 DEF b, r, u, l, BottleneckRate

\* The new allocation is a rate, and that of a satisfied flow is below the
\* bottleneck rate even when the old allocation is kept within tolerance.
LEMMA NewAllocBounds ==
    ASSUME LinkInv, NEW f \in Flow, NEW n \in 0 .. Hops(f) - 1,
           label[f][n] # "FINISHED"
    PROVE  LET l == LinkAt(f, n) IN
           /\ NewAlloc(f, l, n) \in Nat
           /\ LimitedElsewhere(f, l, n) =>
                 NewAlloc(f, l, n) <= BottleneckRate(f, l, n) - 1
<1> DEFINE l == LinkAt(f, n)
<1>1. BottleneckRate(f, l, n) \in Nat \ {0}
  BY BottleneckRateBounds
<1>2. n \in Slot /\ rate \in [Flow -> [Slot -> Nat]] /\ alloc[f][n] \in Nat
  BY HopUnique DEF LinkInv, SlotTypeOK
<1>3. limit_rate(f, n) \in Nat \cup {-1}
  BY <1>2, LimitRateType
<1>4. Tolerance \in Nat \ {0}
  BY RateAssumption
<1> HIDE DEF l
<1>5. CASE LimitedElsewhere(f, l, n)
  <2>1. limit_rate(f, n) \in Nat
    BY <1>3, <1>5 DEF LimitedElsewhere
  <2>2. Tolerance <= BottleneckRate(f, l, n) - limit_rate(f, n)
    BY <1>1, <1>4, <1>5, <2>1 DEF LimitedElsewhere, rate_greater_than, rate_equal
  <2> QED
    BY <1>1, <1>2, <1>4, <1>5, <2>1, <2>2 DEF NewAlloc, rate_equal, l
<1>6. CASE ~ LimitedElsewhere(f, l, n)
  BY <1>1, <1>2, <1>6 DEF NewAlloc, l
<1> QED
  BY <1>5, <1>6

\* No visit of a link aborts the simulation.
LEMMA VisitDoesNotAbort ==
    ASSUME LinkInv, NEW f \in Flow, NEW n \in 0 .. Hops(f) - 1
    PROVE  ~ Aborts(f, LinkAt(f, n), n)
<1> SUFFICES ASSUME label[f][n] # "FINISHED"
             PROVE  ~ Aborts(f, LinkAt(f, n), n)
  BY DEF Aborts
<1>1. Weight[f] \in Nat \ {0}
  BY RateAssumption
<1> QED
  BY <1>1, NumUnsatCoversFlow, BottleneckRateBounds DEF Aborts
\* Relabelling a flow in its packet and in the link together keeps every
\* aggregate the total of the packets.
LEMMA UpdateKeepsAggregates ==
    ASSUME LinkTypeOK, SlotTypeOK, AggregatesMatch,
           NEW f \in Flow, NEW n \in 0 .. Hops(f) - 1,
           NEW newLabel \in {"SAT", "UNSAT", "FINISHED"}, NEW newAlloc \in Nat,
           label[f][n] # "FINISHED",
           label' = [label EXCEPT ![f][n] = newLabel],
           alloc' = [alloc EXCEPT ![f][n] = newAlloc],
           update_local_state(LinkAt(f, n), Weight[f], label[f][n], alloc[f][n],
                              newLabel, newAlloc)
    PROVE  /\ AggregatesMatch'
           /\ numFlows' \in [Link -> Nat]
           /\ numSat' \in [Link -> Nat]
           /\ sumSat' \in [Link -> Nat]
           /\ maxSat' \in [Link -> Nat]
           /\ nextMaxSat' \in [Link -> Nat]
<1> DEFINE k == LinkAt(f, n)
           w == Weight[f]
           oldShare == alloc[f][n] * w
           newShare == newAlloc * w
<1>1. k \in Link /\ n \in Slot /\ newLabel \in Label
  BY HopUnique DEF Label
<1>2. label[f][n] \in {"NEW_FLOW", "SAT", "UNSAT"} /\ alloc[f][n] \in Nat
  BY <1>1 DEF SlotTypeOK, Label
<1>3. w \in Nat /\ oldShare \in Nat /\ newShare \in Nat
  BY <1>2, RateAssumption
<1>4. /\ numFlows' = [numFlows EXCEPT ![k] = @
            + (IF label[f][n] = "NEW_FLOW" /\ newLabel \in {"SAT", "UNSAT"} THEN w ELSE 0)
            - (IF label[f][n] \in {"SAT", "UNSAT"} /\ newLabel = "FINISHED" THEN w ELSE 0)]
      /\ numSat' = [numSat EXCEPT ![k] = @
            + (IF label[f][n] \in {"NEW_FLOW", "UNSAT"} /\ newLabel = "SAT" THEN w ELSE 0)
            - (IF label[f][n] = "SAT" /\ newLabel \in {"UNSAT", "FINISHED"} THEN w ELSE 0)]
      /\ sumSat' = [sumSat EXCEPT ![k] = @
            - (IF label[f][n] = "SAT" THEN oldShare ELSE 0)
            + (IF newLabel = "SAT" THEN newShare ELSE 0)]
  BY <1>2 DEF update_local_state
<1>5. ASSUME NEW l \in Link
      PROVE  /\ numFlows'[l] = Total(FlowShare(l)') /\ numFlows'[l] \in Nat
             /\ numSat'[l] = Total(SatShare(l)') /\ numSat'[l] \in Nat
             /\ sumSat'[l] = Total(SatRate(l)') /\ sumSat'[l] \in Nat
  <2>1. /\ FlowShare(l) \in [Flow -> Nat]
        /\ SatShare(l) \in [Flow -> Nat]
        /\ SatRate(l) \in [Flow -> Nat]
    BY ShareTypes
  <2>2. /\ numFlows[l] = Total(FlowShare(l)) /\ numFlows[l] \in Nat
        /\ numSat[l] = Total(SatShare(l)) /\ numSat[l] \in Nat
        /\ sumSat[l] = Total(SatRate(l)) /\ sumSat[l] \in Nat
    BY DEF AggregatesMatch, LinkTypeOK
  <2>5. /\ l = LinkAt(f, n) =>
              /\ FlowShare(l)' = [FlowShare(l) EXCEPT ![f] =
                    IF newLabel \in {"SAT", "UNSAT"} THEN Weight[f] ELSE 0]
              /\ SatShare(l)' = [SatShare(l) EXCEPT ![f] =
                    IF newLabel = "SAT" THEN Weight[f] ELSE 0]
              /\ SatRate(l)' = [SatRate(l) EXCEPT ![f] =
                    IF newLabel = "SAT" THEN newAlloc * Weight[f] ELSE 0]
        /\ l # LinkAt(f, n) =>
              /\ FlowShare(l)' = FlowShare(l)
              /\ SatShare(l)' = SatShare(l)
              /\ SatRate(l)' = SatRate(l)
    <3> HIDE DEF k, oldShare, newShare, w
    <3>1. ASSUME NEW g \in Flow, g # f \/ l # LinkAt(f, n)
          PROVE  /\ LabelAt(g, l)' = LabelAt(g, l)
                 /\ LabelAt(g, l) = "SAT" =>
                       alloc'[g][HopOf(g, l)] = alloc[g][HopOf(g, l)]
      <4>1. CASE g # f
        BY <4>1 DEF SlotTypeOK, LabelAt, Crosses, HopOf, Hops, LinkAt
      <4>2. CASE g = f /\ l # LinkAt(f, n)
        <5>1. Crosses(f, l) => HopOf(f, l) \in Slot /\ HopOf(f, l) # n
          BY <4>2, HopOfLink
        <5> QED
          BY <4>2, <5>1, HopUnique DEF SlotTypeOK, LabelAt, Crosses, HopOf, Hops, LinkAt
      <4> QED
        BY <3>1, <4>1, <4>2
    <3>2. ASSUME l = LinkAt(f, n)
          PROVE  /\ LabelAt(f, l)' = newLabel
                 /\ HopOf(f, l) = n
                 /\ alloc'[f][n] = newAlloc
      BY <3>2, HopUnique DEF SlotTypeOK, LabelAt, Crosses, HopOf, Hops, LinkAt
    <3>3. /\ FlowShare(l)' = [g \in Flow |->
                IF LabelAt(g, l)' \in {"SAT", "UNSAT"} THEN Weight[g] ELSE 0]
          /\ SatShare(l)' = [g \in Flow |->
                IF LabelAt(g, l)' = "SAT" THEN Weight[g] ELSE 0]
          /\ SatRate(l)' = [g \in Flow |->
                IF LabelAt(g, l)' = "SAT" THEN alloc'[g][HopOf(g, l)] * Weight[g] ELSE 0]
      BY DEF FlowShare, SatShare, SatRate, HopOf, LinkAt, Hops
    <3>4. CASE l = LinkAt(f, n)
      <4>1. FlowShare(l)' = [FlowShare(l) EXCEPT ![f] =
                          IF newLabel \in {"SAT", "UNSAT"} THEN Weight[f] ELSE 0]
        BY <3>1, <3>2, <3>3, <3>4 DEF FlowShare
      <4>2. SatShare(l)' = [SatShare(l) EXCEPT ![f] =
                          IF newLabel = "SAT" THEN Weight[f] ELSE 0]
        BY <3>1, <3>2, <3>3, <3>4 DEF SatShare
      <4>3. SatRate(l)' = [SatRate(l) EXCEPT ![f] =
                          IF newLabel = "SAT" THEN newAlloc * Weight[f] ELSE 0]
        <5> DEFINE upd == [SatRate(l) EXCEPT ![f] =
                          IF newLabel = "SAT" THEN newAlloc * Weight[f] ELSE 0]
        <5>1. SatRate(l)'[f] = upd[f]
          BY <3>2, <3>3, <3>4 DEF SatRate
        <5>2. ASSUME NEW g \in Flow, g # f PROVE SatRate(l)'[g] = upd[g]
          BY <3>1, <3>3, <5>2 DEF SatRate
        <5>3. SatRate(l)' = [g \in Flow |-> SatRate(l)'[g]]
          BY <3>3
        <5>4. upd = [g \in Flow |-> upd[g]]
          BY DEF SatRate
        <5> HIDE DEF upd
        <5>5. \A g \in Flow : SatRate(l)'[g] = upd[g]
          BY <5>1, <5>2
        <5>6. SatRate(l)' = upd
          BY <5>3, <5>4, <5>5, Zenon
        <5> QED
          BY <5>6 DEF upd
      <4> QED
        BY <3>4, <4>1, <4>2, <4>3
    <3>5. CASE l # LinkAt(f, n)
      BY <3>1, <3>3, <3>5 DEF FlowShare, SatShare, SatRate
    <3> QED
      BY <3>4, <3>5
  <2>3. CASE l # k
    <3>1. /\ FlowShare(l)' = FlowShare(l)
          /\ SatShare(l)' = SatShare(l)
          /\ SatRate(l)' = SatRate(l)
      BY <2>3, <2>5
    <3>2. numFlows'[l] = numFlows[l] /\ numSat'[l] = numSat[l] /\ sumSat'[l] = sumSat[l]
      <4> HIDE DEF k, oldShare, newShare, w
      <4> QED
        BY <1>1, <1>4, <2>3 DEF LinkTypeOK
    <3> QED
      BY <2>2, <3>1, <3>2
  <2>4. CASE l = k
    <3>1. /\ FlowShare(l)[f] = IF label[f][n] \in {"SAT", "UNSAT"} THEN w ELSE 0
          /\ SatShare(l)[f] = IF label[f][n] = "SAT" THEN w ELSE 0
          /\ SatRate(l)[f] = IF label[f][n] = "SAT" THEN oldShare ELSE 0
      BY <2>4, SharesAt
    <3>2. /\ FlowShare(l)' = [FlowShare(l) EXCEPT ![f] =
                                IF newLabel \in {"SAT", "UNSAT"} THEN w ELSE 0]
          /\ SatShare(l)' = [SatShare(l) EXCEPT ![f] =
                                IF newLabel = "SAT" THEN w ELSE 0]
          /\ SatRate(l)' = [SatRate(l) EXCEPT ![f] =
                                IF newLabel = "SAT" THEN newShare ELSE 0]
      BY <2>4, <2>5
    <3> HIDE DEF k, oldShare, newShare, w
    <3>3. /\ Total(FlowShare(l)') = Total(FlowShare(l)) - FlowShare(l)[f]
                + (IF newLabel \in {"SAT", "UNSAT"} THEN w ELSE 0)
          /\ Total(SatShare(l)') = Total(SatShare(l)) - SatShare(l)[f]
                + (IF newLabel = "SAT" THEN w ELSE 0)
          /\ Total(SatRate(l)') = Total(SatRate(l)) - SatRate(l)[f]
                + (IF newLabel = "SAT" THEN newShare ELSE 0)
      <4> DEFINE x == IF newLabel \in {"SAT", "UNSAT"} THEN w ELSE 0
                 y == IF newLabel = "SAT" THEN w ELSE 0
                 z == IF newLabel = "SAT" THEN newShare ELSE 0
      <4>1. x \in Nat /\ y \in Nat /\ z \in Nat
        BY <1>3
      <4>2. /\ FlowShare(l)' = [FlowShare(l) EXCEPT ![f] = x]
            /\ SatShare(l)' = [SatShare(l) EXCEPT ![f] = y]
            /\ SatRate(l)' = [SatRate(l) EXCEPT ![f] = z]
        BY <3>2
      <4> HIDE DEF x, y, z
      <4>3. /\ Total([FlowShare(l) EXCEPT ![f] = x]) = Total(FlowShare(l)) - FlowShare(l)[f] + x
            /\ Total([SatShare(l) EXCEPT ![f] = y]) = Total(SatShare(l)) - SatShare(l)[f] + y
            /\ Total([SatRate(l) EXCEPT ![f] = z]) = Total(SatRate(l)) - SatRate(l)[f] + z
        BY <2>1, <4>1, FlowAssumption, TotalUpdate
      <4> QED
        BY <4>2, <4>3 DEF x, y, z
    <3>4. /\ FlowShare(l)' \in [Flow -> Nat]
          /\ SatShare(l)' \in [Flow -> Nat]
          /\ SatRate(l)' \in [Flow -> Nat]
      BY <1>3, <2>1, <3>2
    <3>5. /\ Total(FlowShare(l)') \in Nat
          /\ Total(SatShare(l)') \in Nat
          /\ Total(SatRate(l)') \in Nat
      BY <3>4, FlowAssumption, TotalType
    <3>6. numFlows'[l] = Total(FlowShare(l)')
      BY <1>2, <1>3, <1>4, <2>2, <2>4, <3>1, <3>3 DEF LinkTypeOK
    <3>7. numSat'[l] = Total(SatShare(l)')
      BY <1>2, <1>3, <1>4, <2>2, <2>4, <3>1, <3>3 DEF LinkTypeOK
    <3>8. sumSat'[l] = Total(SatRate(l)')
      BY <1>2, <1>3, <1>4, <2>2, <2>4, <3>1, <3>3 DEF LinkTypeOK
    <3> QED
      BY <3>5, <3>6, <3>7, <3>8
  <2> QED
    BY <2>3, <2>4
<1>6. AggregatesMatch'
  BY <1>5 DEF AggregatesMatch
<1>7. /\ numFlows' \in [Link -> Nat]
      /\ numSat' \in [Link -> Nat]
      /\ sumSat' \in [Link -> Nat]
  <2> HIDE DEF k, oldShare, newShare, w
  <2>1. /\ numFlows' = [l \in Link |-> numFlows'[l]]
        /\ numSat' = [l \in Link |-> numSat'[l]]
        /\ sumSat' = [l \in Link |-> sumSat'[l]]
    BY <1>4 DEF LinkTypeOK
  <2> QED
    BY <1>5, <2>1
<1>8. maxSat' \in [Link -> Nat] /\ nextMaxSat' \in [Link -> Nat]
  BY DEF LinkTypeOK, update_local_state, update_max_sat
<1> QED
  BY <1>6, <1>7, <1>8
\* A visit rewrites one slot; an exit packet leaves FINISHED in it.
LEMMA VisitRewritesOneSlot ==
    ASSUME SlotTypeOK, NEW f \in Flow, NEW n \in 0 .. Hops(f) - 1,
           link_action(f, LinkAt(f, n), n)
    PROVE  /\ isExit[f] => label'[f][n] = "FINISHED"
           /\ \A g \in Flow : \A m \in Slot :
                 g # f \/ m # n => label'[g][m] = label[g][m] /\ alloc'[g][m] = alloc[g][m]
<1>1. n \in Slot
  BY HopUnique
<1>2. CASE IgnoreFinished(f, LinkAt(f, n), n)
  BY <1>2 DEF IgnoreFinished, slotVars
<1>3. CASE RemoveFlow(f, LinkAt(f, n), n)
  BY <1>1, <1>3 DEF RemoveFlow, SlotTypeOK
<1>4. CASE Allocate(f, LinkAt(f, n), n)
  BY <1>1, <1>4 DEF Allocate, SlotTypeOK
<1> QED
  BY <1>2, <1>3, <1>4 DEF link_action

\* A step that touches neither the aggregates nor the labels and allocations
\* keeps them matched.
LEMMA UnchangedAggregates ==
    ASSUME AggregatesMatch, UNCHANGED <<sumSat, numSat, numFlows, label, alloc>>
    PROVE  AggregatesMatch'
<1>1. ASSUME NEW l \in Link
      PROVE  /\ FlowShare(l)' = FlowShare(l)
             /\ SatShare(l)' = SatShare(l)
             /\ SatRate(l)' = SatRate(l)
  BY DEF FlowShare, SatShare, SatRate, LabelAt, HopOf, Crosses, Hops, LinkAt
<1> QED
  BY <1>1 DEF AggregatesMatch

\* Any visit of a link keeps the links' invariant.
LEMMA LinkActionKeepsInv ==
    ASSUME LinkInv, NEW f \in Flow, NEW n \in 0 .. Hops(f) - 1,
           link_action(f, LinkAt(f, n), n)
    PROVE  LinkInv'
<1> DEFINE k == LinkAt(f, n)
<1>1. k \in Link /\ n \in Slot
  BY HopUnique
<1>2. alloc[f][n] \in Nat /\ Weight[f] \in Nat \ {0}
  BY <1>1, RateAssumption DEF LinkInv, SlotTypeOK
<1>3. CASE IgnoreFinished(f, k, n)
  <2>1. UNCHANGED <<linkVars, slotVars>>
    BY <1>3 DEF IgnoreFinished
  <2> QED
    BY <2>1, UnchangedAggregates DEF LinkInv, LinkTypeOK, SlotTypeOK, linkVars, slotVars,
           SumSatBelowCapacity, PropagatedRatePositive
<1>4. CASE RemoveFlow(f, k, n)
  <2>1. /\ label[f][n] # "FINISHED"
        /\ label' = [label EXCEPT ![f][n] = "FINISHED"]
        /\ alloc' = [alloc EXCEPT ![f][n] = 0]
        /\ update_local_state(k, Weight[f], label[f][n], alloc[f][n], "FINISHED", 0)
        /\ seen' = [seen EXCEPT ![k] = @ \ {f}]
        /\ UNCHANGED <<rate, ignoreBit>>
    BY <1>4 DEF RemoveFlow
  <2>2. /\ AggregatesMatch'
        /\ numFlows' \in [Link -> Nat]
        /\ numSat' \in [Link -> Nat]
        /\ sumSat' \in [Link -> Nat]
        /\ maxSat' \in [Link -> Nat]
        /\ nextMaxSat' \in [Link -> Nat]
    <3>1. "FINISHED" \in {"SAT", "UNSAT", "FINISHED"} /\ 0 \in Nat
      OBVIOUS
    <3> QED
      BY <2>1, <3>1, UpdateKeepsAggregates DEF LinkInv
  <2>3. SlotTypeOK'
    BY <2>1 DEF LinkInv, SlotTypeOK, Label
  <2>4. seen' \in [Link -> SUBSET Flow]
    BY <2>1 DEF LinkInv, LinkTypeOK
  <2>5. SumSatBelowCapacity'
    <3> DEFINE a == alloc[f][n] * Weight[f]
    <3>1. a \in Nat
      BY <1>2
    <3>2. sumSat' = [sumSat EXCEPT ![k] =
                        @ - (IF label[f][n] = "SAT" THEN a ELSE 0) + 0]
      BY <2>1 DEF update_local_state
    <3> HIDE DEF a, k
    <3>3. \A l \in Link : sumSat'[l] <= sumSat[l]
      BY <3>1, <3>2 DEF LinkInv, LinkTypeOK
    <3>4. \A l \in Link : Capacity[l] \in Nat /\ sumSat'[l] \in Nat /\ sumSat[l] \in Nat
      BY <2>2, RateAssumption DEF LinkInv, LinkTypeOK
    <3> QED
      BY <3>3, <3>4 DEF LinkInv, SumSatBelowCapacity
  <2>6. PropagatedRatePositive'
    BY <2>1 DEF LinkInv, PropagatedRatePositive
  <2> QED
    BY <2>2, <2>3, <2>4, <2>5, <2>6 DEF LinkInv, LinkTypeOK
<1>5. CASE Allocate(f, k, n)
  <2> DEFINE newLabel == NewLabel(f, k, n)
             newAlloc == NewAlloc(f, k, n)
             b == BottleneckRate(f, k, n)
  <2>1. /\ label[f][n] # "FINISHED"
        /\ label' = [label EXCEPT ![f][n] = newLabel]
        /\ alloc' = [alloc EXCEPT ![f][n] = newAlloc]
        /\ update_local_state(k, Weight[f], label[f][n], alloc[f][n], newLabel, newAlloc)
        /\ rate' = [rate EXCEPT ![f][n] = b]
        /\ ignoreBit' = [ignoreBit EXCEPT ![f][n] = rate_greater_than(maxSat[k], b)]
        /\ seen' = [seen EXCEPT ![k] = @ \cup {f}]
    BY <1>5 DEF Allocate
  <2>2. /\ newLabel \in {"SAT", "UNSAT", "FINISHED"}
        /\ newLabel \in {"SAT", "UNSAT"}
        /\ newLabel = "SAT" <=> LimitedElsewhere(f, k, n)
    BY DEF NewLabel
  <2>3. /\ newAlloc \in Nat
        /\ LimitedElsewhere(f, k, n) => newAlloc <= b - 1
    BY <2>1, NewAllocBounds
  <2>4. b \in Nat \ {0} /\ (b - 1) * NumUnsat(f, k, n) < RemCap(f, k, n)
    BY <2>1, BottleneckRateBounds
  <2>5. NumUnsat(f, k, n) \in Nat /\ Weight[f] <= NumUnsat(f, k, n)
    BY <2>1, NumUnsatCoversFlow
  <2>6. CopySumSat(f, k, n) \in Int /\ RemCap(f, k, n) \in Nat \ {0}
    BY RemCapPositive
  <2> HIDE DEF newLabel, newAlloc, b
  <2>7. /\ AggregatesMatch'
        /\ numFlows' \in [Link -> Nat]
        /\ numSat' \in [Link -> Nat]
        /\ sumSat' \in [Link -> Nat]
        /\ maxSat' \in [Link -> Nat]
        /\ nextMaxSat' \in [Link -> Nat]
    BY <2>1, <2>2, <2>3, UpdateKeepsAggregates DEF LinkInv
  <2>8. SlotTypeOK'
    <3>1. rate_greater_than(maxSat[k], b) \in BOOLEAN
      BY DEF rate_greater_than
    <3>2. /\ label' \in [Flow -> [Slot -> Label]]
          /\ alloc' \in [Flow -> [Slot -> Nat]]
          /\ rate' \in [Flow -> [Slot -> Nat]]
      BY <2>1, <2>2, <2>3, <2>4 DEF LinkInv, SlotTypeOK, Label
    <3>3. ignoreBit' \in [Flow -> [Slot -> BOOLEAN]]
      BY <2>1, <3>1 DEF LinkInv, SlotTypeOK
    <3> QED
      BY <3>2, <3>3 DEF SlotTypeOK
  <2>9. seen' \in [Link -> SUBSET Flow]
    BY <2>1 DEF LinkInv, LinkTypeOK
  <2>10. SumSatBelowCapacity'
    <3> DEFINE a == alloc[f][n] * Weight[f]
               c == newAlloc * Weight[f]
    <3>1. a \in Nat /\ c \in Nat
      BY <1>2, <2>3
    <3>2. sumSat' = [sumSat EXCEPT ![k] = @
                        - (IF label[f][n] = "SAT" THEN a ELSE 0)
                        + (IF newLabel = "SAT" THEN c ELSE 0)]
      <4>1. label[f][n] \in Label
        BY <1>1 DEF LinkInv, SlotTypeOK
      <4> QED
        BY <2>1, <2>2, <4>1 DEF update_local_state, Label
    <3>3. CopySumSat(f, k, n) = sumSat[k] - (IF label[f][n] = "SAT" THEN a ELSE 0)
      BY DEF CopySumSat
    <3>4. newLabel = "SAT" => c < RemCap(f, k, n)
      <4> SUFFICES ASSUME newLabel = "SAT" PROVE c < RemCap(f, k, n)
        OBVIOUS
      <4>1. b - 1 \in Nat /\ newAlloc <= b - 1
        BY <2>2, <2>3, <2>4
      <4>2. c <= (b - 1) * NumUnsat(f, k, n)
        BY <1>2, <2>3, <2>5, <4>1, ProductMonotone
      <4>3. (b - 1) * NumUnsat(f, k, n) \in Nat
        BY <2>5, <4>1
      <4> QED
        BY <2>4, <2>6, <3>1, <4>2, <4>3
    <3>5. RemCap(f, k, n) = Capacity[k] - CopySumSat(f, k, n)
      BY DEF RemCap
    <3>6. ASSUME NEW l \in Link PROVE sumSat'[l] < Capacity[l]
      <4> HIDE DEF a, c, k
      <4>1. sumSat[l] \in Nat /\ Capacity[l] \in Nat /\ sumSat[l] < Capacity[l]
        BY RateAssumption DEF LinkInv, LinkTypeOK, SumSatBelowCapacity
      <4>2. CASE l # k
        BY <3>2, <4>1, <4>2 DEF LinkInv, LinkTypeOK
      <4>3. CASE l = k
        <5>1. sumSat'[l] = CopySumSat(f, k, n) + (IF newLabel = "SAT" THEN c ELSE 0)
          BY <3>1, <3>2, <3>3, <4>1, <4>3 DEF LinkInv, LinkTypeOK
        <5> QED
          BY <2>6, <3>1, <3>4, <3>5, <4>1, <4>3, <5>1
      <4> QED
        BY <4>2, <4>3
    <3> QED
      BY <3>6 DEF SumSatBelowCapacity
  <2>11. PropagatedRatePositive'
    <3> SUFFICES ASSUME NEW g \in Flow, NEW i \in Slot, ~ ignoreBit'[g][i]
                 PROVE  rate'[g][i] > 0
      BY DEF PropagatedRatePositive
    <3>1. CASE g = f /\ i = n
      BY <1>1, <2>1, <2>4, <3>1 DEF LinkInv, SlotTypeOK
    <3>2. CASE g # f \/ i # n
      BY <2>1, <3>2 DEF LinkInv, SlotTypeOK, PropagatedRatePositive
    <3> QED
      BY <3>1, <3>2
  <2> QED
    BY <2>7, <2>8, <2>9, <2>10, <2>11 DEF LinkInv, LinkTypeOK
<1> QED
  BY <1>3, <1>4, <1>5 DEF link_action
-----------------------------------------------------------------------------
(* The inductive invariant *)

AgentTypeOK ==
    /\ where \in [Flow -> {"none", "fwd", "rev", "held"}]
    /\ node \in [Flow -> Nat]
    /\ fwdHop \in [Flow -> Nat]
    /\ revHop \in [Flow -> Nat]
    /\ isExit \in [Flow -> BOOLEAN]
    /\ sendCtrlFin \in [Flow -> BOOLEAN]
    /\ ctrlFinSent \in [Flow -> BOOLEAN]
    /\ ctrlFinRcvd \in [Flow -> BOOLEAN]
    /\ hostRate \in [Flow -> Nat]

IInv ==
    /\ LinkInv
    /\ AgentTypeOK
    /\ RouteOK
    /\ ExitForgotten

\* A path has a hop, and each hop has a slot.
LEMMA PathLength == ASSUME NEW f \in Flow
                    PROVE  Hops(f) \in Nat \ {0} /\ 0 .. Hops(f) - 1 \subseteq Slot
<1>1. Hops(f) \in Nat \ {0}
  BY PathAssumption DEF Hops
<1> QED
  BY <1>1, HopUnique

\* No flow is counted and no packet is on its way at first.
LEMMA InitEstablishesIInv == Init => IInv
<1> SUFFICES ASSUME Init PROVE IInv
  OBVIOUS
<1>1. LinkTypeOK /\ SlotTypeOK /\ AgentTypeOK
  BY DEF Init, LinkTypeOK, SlotTypeOK, AgentTypeOK, Label
<1>2. RouteOK
  BY DEF Init, RouteOK
<1>3. ExitForgotten
  BY PathLength DEF Init, ExitForgotten, Forgotten
<1>4. AggregatesMatch
  <2> SUFFICES ASSUME NEW l \in Link
               PROVE  /\ Total(FlowShare(l)) = 0
                      /\ Total(SatShare(l)) = 0
                      /\ Total(SatRate(l)) = 0
    BY DEF Init, AggregatesMatch
  <2>1. ASSUME NEW f \in Flow PROVE LabelAt(f, l) = "NEW_FLOW"
    BY HopOfLink DEF Init, LabelAt
  <2>2. \A f \in Flow : /\ FlowShare(l)[f] = 0
                        /\ SatShare(l)[f] = 0
                        /\ SatRate(l)[f] = 0
    BY <2>1 DEF FlowShare, SatShare, SatRate
  <2> QED
    BY <1>1, <2>2, ShareTypes, TotalZero
<1>5. SumSatBelowCapacity
  BY RateAssumption DEF Init, SumSatBelowCapacity
<1>6. PropagatedRatePositive
  BY DEF Init, PropagatedRatePositive
<1> QED
  BY <1>1, <1>2, <1>3, <1>4, <1>5, <1>6 DEF IInv, LinkInv

\* The flow that starts was forgotten, so its new slots change no total.
LEMMA StartKeepsIInv ==
    ASSUME IInv, NEW f \in Flow, Start(f)
    PROVE  IInv'
<1>1. HostSlot \in Slot
  BY PathAssumption, PathLength DEF HostSlot, Slot, Hops
<1>2. PICK d \in IF Demand = {} THEN {0} ELSE Demand :
         /\ alloc' = [alloc EXCEPT ![f] = [i \in Slot |-> IF i = HostSlot THEN d ELSE 0]]
         /\ rate' = [rate EXCEPT ![f] = [i \in Slot |-> IF i = HostSlot THEN d ELSE 0]]
  BY DEF Start, FreshSlots
<1>3. d \in Nat /\ (Demand # {} => d > 0)
  <2>1. CASE Demand = {}
    BY <1>2, <2>1
  <2>2. CASE Demand # {}
    <3>1. d \in Demand
      BY <1>2, <2>2
    <3> QED
      BY <3>1, RateAssumption
  <2> QED
    BY <2>1, <2>2
<1>4. /\ label' = [label EXCEPT ![f] = [i \in Slot |-> "NEW_FLOW"]]
      /\ ignoreBit' = [ignoreBit EXCEPT ![f] = [i \in Slot |-> i # HostSlot \/ Demand = {}]]
      /\ UNCHANGED linkVars
      /\ where[f] = "none"
  BY DEF Start, FreshSlots
<1>5. SlotTypeOK'
  BY <1>2, <1>3, <1>4 DEF IInv, LinkInv, SlotTypeOK, Label
<1>6. LinkTypeOK'
  BY <1>4 DEF IInv, LinkInv, LinkTypeOK, linkVars
<1>7. AggregatesMatch'
  <2>1. ASSUME NEW l \in Link, NEW g \in Flow
        PROVE  \/ /\ LabelAt(g, l)' = LabelAt(g, l)
                  /\ LabelAt(g, l) = "SAT" => alloc'[g][HopOf(g, l)] = alloc[g][HopOf(g, l)]
               \/ /\ LabelAt(g, l)' \notin {"SAT", "UNSAT"}
                  /\ LabelAt(g, l) \notin {"SAT", "UNSAT"}
    <3>1. CASE g # f
      BY <1>2, <1>4, <3>1 DEF IInv, LinkInv, SlotTypeOK, LabelAt, Crosses, HopOf, Hops, LinkAt
    <3>2. CASE g = f /\ Crosses(f, l)
      <4>1. HopOf(f, l) \in 0 .. Hops(f) - 1 /\ HopOf(f, l) \in Slot
        BY <3>2, HopOfLink
      <4>2. label[f][HopOf(f, l)] \notin {"SAT", "UNSAT"}
        BY <1>4, <4>1 DEF IInv, ExitForgotten, Forgotten
      <4>3. label'[f][HopOf(f, l)] = "NEW_FLOW"
        BY <1>4, <4>1 DEF IInv, LinkInv, SlotTypeOK
      <4> QED
        BY <3>2, <4>2, <4>3 DEF LabelAt, Crosses, HopOf, Hops, LinkAt
    <3>3. CASE g = f /\ ~ Crosses(f, l)
      BY <3>3 DEF LabelAt, Crosses, HopOf, Hops, LinkAt
    <3> QED
      BY <3>1, <3>2, <3>3
  <2>2. ASSUME NEW l \in Link
        PROVE  /\ FlowShare(l)' = FlowShare(l)
               /\ SatShare(l)' = SatShare(l)
               /\ SatRate(l)' = SatRate(l)
    <3>1. /\ FlowShare(l)' = [g \in Flow |->
                IF LabelAt(g, l)' \in {"SAT", "UNSAT"} THEN Weight[g] ELSE 0]
          /\ SatShare(l)' = [g \in Flow |->
                IF LabelAt(g, l)' = "SAT" THEN Weight[g] ELSE 0]
          /\ SatRate(l)' = [g \in Flow |->
                IF LabelAt(g, l)' = "SAT" THEN alloc'[g][HopOf(g, l)] * Weight[g] ELSE 0]
      BY DEF FlowShare, SatShare, SatRate, HopOf, LinkAt, Hops
    <3>2. FlowShare(l)' = FlowShare(l) /\ SatShare(l)' = SatShare(l)
      BY <2>1, <3>1 DEF FlowShare, SatShare
    <3>3. SatRate(l)' = SatRate(l)
      BY <2>1, <3>1 DEF SatRate
    <3> QED
      BY <3>2, <3>3
  <2> QED
    BY <1>4, <2>2 DEF IInv, LinkInv, AggregatesMatch, linkVars
<1>8. SumSatBelowCapacity'
  BY <1>4 DEF IInv, LinkInv, SumSatBelowCapacity, linkVars
<1>9. PropagatedRatePositive'
  BY <1>1, <1>2, <1>3, <1>4 DEF IInv, LinkInv, PropagatedRatePositive, SlotTypeOK
<1>10. AgentTypeOK'
  BY DEF IInv, Start, AgentTypeOK
<1>11. RouteOK'
  BY PathLength DEF IInv, Start, AgentTypeOK, RouteOK
<1>12. ExitForgotten'
  BY <1>4 DEF IInv, LinkInv, SlotTypeOK, Start, AgentTypeOK, ExitForgotten, Forgotten,
              Hops, LinkAt
<1> QED
  BY <1>5, <1>6, <1>7, <1>8, <1>9, <1>10, <1>11, <1>12 DEF IInv, LinkInv

\* Steps of the agents and timers that leave the packets' labels alone.
LEMMA IdleKeepsLinkInv ==
    ASSUME LinkInv, UNCHANGED <<linkVars, slotVars>>
    PROVE  LinkInv'
<1>1. AggregatesMatch'
  BY UnchangedAggregates DEF LinkInv, linkVars, slotVars
<1>2. LinkTypeOK' /\ SlotTypeOK'
  BY DEF LinkInv, LinkTypeOK, SlotTypeOK, linkVars, slotVars
<1>3. SumSatBelowCapacity' /\ PropagatedRatePositive'
  BY DEF LinkInv, SumSatBelowCapacity, PropagatedRatePositive, linkVars, slotVars
<1> QED
  BY <1>1, <1>2, <1>3 DEF LinkInv

\* The decision to end changes neither links nor packets.
LEMMA FinishKeepsIInv ==
    ASSUME IInv, NEW f \in Flow, Finish(f)
    PROVE  IInv'
<1>1. /\ UNCHANGED <<linkVars, routeVars, slotVars, isExit, ctrlFinSent, ctrlFinRcvd, hostRate>>
      /\ sendCtrlFin' = [sendCtrlFin EXCEPT ![f] = TRUE]
  BY DEF Finish
<1>2. LinkInv'
  BY <1>1, IdleKeepsLinkInv DEF IInv
<1>3. AgentTypeOK'
  BY <1>1 DEF IInv, AgentTypeOK, routeVars
<1>4. RouteOK'
  BY <1>1 DEF IInv, RouteOK, routeVars, Hops
<1>5. ExitForgotten'
  BY <1>1 DEF IInv, ExitForgotten, Forgotten, routeVars, slotVars, Hops
<1> QED
  BY <1>2, <1>3, <1>4, <1>5 DEF IInv

\* Only the host slot is renewed, which no link reads as its own.
LEMMA SendCtrlKeepsIInv ==
    ASSUME IInv, NEW f \in Flow, SendCtrl(f)
    PROVE  IInv'
<1>1. /\ where[f] = "held"
      /\ where' = [where EXCEPT ![f] = "fwd"]
      /\ UNCHANGED <<linkVars, node, fwdHop, revHop, label, alloc, agentVars>>
  BY DEF SendCtrl
<1>2. /\ rate' \in [Flow -> [Slot -> Nat]]
      /\ ignoreBit' \in [Flow -> [Slot -> BOOLEAN]]
      /\ PropagatedRatePositive'
  <2>1. CASE Demand = {}
    BY <2>1 DEF SendCtrl, IInv, LinkInv, SlotTypeOK, PropagatedRatePositive
  <2>2. CASE Demand # {}
    <3>1. PICK d \in Demand : rate' = [rate EXCEPT ![f][HostSlot] = d]
      BY <2>2 DEF SendCtrl
    <3>2. ignoreBit' = [ignoreBit EXCEPT ![f][HostSlot] = FALSE]
      BY <2>2 DEF SendCtrl
    <3>3. d \in Nat /\ d > 0
      BY <3>1, RateAssumption
    <3> QED
      BY <3>1, <3>2, <3>3 DEF IInv, LinkInv, SlotTypeOK, PropagatedRatePositive
  <2> QED
    BY <2>1, <2>2
<1>3. LinkInv'
  <2>1. LinkTypeOK' /\ SumSatBelowCapacity'
    BY <1>1 DEF IInv, LinkInv, LinkTypeOK, SumSatBelowCapacity, linkVars
  <2>2. AggregatesMatch'
    BY <1>1, UnchangedAggregates DEF IInv, LinkInv, linkVars
  <2>3. SlotTypeOK'
    BY <1>1, <1>2 DEF IInv, LinkInv, SlotTypeOK
  <2> QED
    BY <1>2, <2>1, <2>2, <2>3 DEF LinkInv
<1>4. AgentTypeOK'
  BY <1>1 DEF IInv, AgentTypeOK, agentVars
<1>5. RouteOK'
  BY <1>1, PathLength DEF IInv, RouteOK, AgentTypeOK, Hops
<1>6. ExitForgotten'
  <2>1. node[f] = 0 /\ where'[f] = "fwd" /\ ~ ctrlFinRcvd[f]
    BY <1>1 DEF IInv, RouteOK, AgentTypeOK, ExitForgotten
  <2>2. ASSUME NEW g \in Flow, g # f PROVE where'[g] = where[g]
    BY <1>1, <2>2 DEF IInv, AgentTypeOK
  <2>3. UNCHANGED <<label, node, isExit, ctrlFinRcvd>>
    BY <1>1 DEF agentVars
  <2> QED
    BY <2>1, <2>2, <2>3, PathLength DEF IInv, ExitForgotten, Forgotten, Hops
<1> QED
  BY <1>3, <1>4, <1>5, <1>6 DEF IInv

\* maxSat is no part of the invariant but for its type.
LEMMA ResetMaxSatKeepsIInv ==
    ASSUME IInv, NEW l \in Link, ResetMaxSat(l)
    PROVE  IInv'
<1>1. /\ maxSat' = [maxSat EXCEPT ![l] = nextMaxSat[l]]
      /\ nextMaxSat' = [nextMaxSat EXCEPT ![l] = 0]
      /\ seen' = [seen EXCEPT ![l] = {}]
      /\ UNCHANGED <<sumSat, numSat, numFlows, routeVars, slotVars, agentVars>>
  BY DEF ResetMaxSat
<1>2. LinkTypeOK' /\ SlotTypeOK'
  BY <1>1 DEF IInv, LinkInv, LinkTypeOK, SlotTypeOK, slotVars
<1>3. AggregatesMatch'
  BY <1>1, UnchangedAggregates DEF IInv, LinkInv, slotVars
<1>4. SumSatBelowCapacity' /\ PropagatedRatePositive'
  BY <1>1 DEF IInv, LinkInv, SumSatBelowCapacity, PropagatedRatePositive, slotVars
<1>5. AgentTypeOK' /\ RouteOK'
  BY <1>1 DEF IInv, AgentTypeOK, RouteOK, routeVars, agentVars, Hops
<1>6. ExitForgotten'
  BY <1>1 DEF IInv, ExitForgotten, Forgotten, routeVars, slotVars, agentVars, Hops
<1> QED
  BY <1>2, <1>3, <1>4, <1>5, <1>6 DEF IInv, LinkInv

\* The destination turns the packet round at its own hop.
LEMMA EchoKeepsIInv ==
    ASSUME IInv, NEW f \in Flow, Echo(f)
    PROVE  IInv'
<1>1. /\ where[f] = "fwd"
      /\ node[f] = Hops(f)
      /\ where' = [where EXCEPT ![f] = "rev"]
      /\ node' = [node EXCEPT ![f] = @ - 1]
      /\ fwdHop' = [fwdHop EXCEPT ![f] = @ + 1]
      /\ revHop' = [revHop EXCEPT ![f] = 2]
      /\ UNCHANGED <<linkVars, slotVars, agentVars>>
  BY DEF Echo
<1>2. LinkInv'
  BY <1>1, IdleKeepsLinkInv DEF IInv
<1>3. AgentTypeOK'
  <2>1. node[f] \in Nat /\ node[f] - 1 \in Nat
    BY <1>1, PathLength
  <2>2. node' \in [Flow -> Nat] /\ fwdHop' \in [Flow -> Nat]
    BY <1>1, <2>1 DEF IInv, AgentTypeOK
  <2> QED
    BY <1>1, <2>2 DEF IInv, AgentTypeOK, agentVars
<1>4. RouteOK'
  BY <1>1, PathLength DEF IInv, RouteOK, AgentTypeOK, Hops
<1>5. ExitForgotten'
  BY <1>1, PathLength DEF IInv, RouteOK, AgentTypeOK, ExitForgotten, Forgotten,
                          slotVars, agentVars, Hops
<1> QED
  BY <1>2, <1>3, <1>4, <1>5 DEF IInv

\* A visit on the way out: an exit packet is forgotten one link further.
LEMMA ForwardHopKeepsIInv ==
    ASSUME IInv, NEW f \in Flow, ForwardHop(f)
    PROVE  IInv'
<1>1. /\ where[f] = "fwd"
      /\ node[f] < Hops(f)
      /\ link_action(f, LinkAt(f, node[f]), fwdHop[f] - 1)
      /\ node' = [node EXCEPT ![f] = @ + 1]
      /\ fwdHop' = [fwdHop EXCEPT ![f] = @ + 1]
      /\ UNCHANGED <<where, revHop, agentVars>>
  BY DEF ForwardHop
<1>2. node[f] \in 0 .. Hops(f) - 1 /\ fwdHop[f] - 1 = node[f]
  BY <1>1, PathLength DEF IInv, AgentTypeOK, RouteOK
<1>3. LinkInv'
  BY <1>1, <1>2, LinkActionKeepsInv DEF IInv
<1>4. AgentTypeOK'
  BY <1>1 DEF IInv, AgentTypeOK, agentVars
<1>5. RouteOK'
  BY <1>1, <1>2, PathLength DEF IInv, RouteOK, AgentTypeOK, Hops
<1>6. ExitForgotten'
  <2>1. /\ isExit[f] => label'[f][node[f]] = "FINISHED"
        /\ \A g \in Flow : \A m \in Slot :
              g # f \/ m # node[f] => label'[g][m] = label[g][m]
    BY <1>1, <1>2, VisitRewritesOneSlot DEF IInv, LinkInv
  <2>2. ASSUME NEW g \in Flow, NEW m \in 0 .. Hops(g) - 1, Forgotten(g, m), g # f \/ m # node[f]
        PROVE  label'[g][m] \notin {"SAT", "UNSAT"}
    BY <2>1, <2>2, PathLength DEF Forgotten
  <2>3. ASSUME NEW g \in Flow, where[g] = "none"
        PROVE  \A m \in 0 .. Hops(g) - 1 : label'[g][m] \notin {"SAT", "UNSAT"}
    BY <1>1, <2>2, <2>3 DEF IInv, ExitForgotten
  <2>4. ASSUME NEW g \in Flow, isExit[g], where[g] = "rev"
        PROVE  \A m \in 0 .. Hops(g) - 1 : label'[g][m] \notin {"SAT", "UNSAT"}
    BY <1>1, <2>2, <2>4 DEF IInv, ExitForgotten
  <2>5. ASSUME NEW g \in Flow, isExit[g], where[g] = "fwd", NEW m \in 0 .. Hops(g) - 1,
               m < node'[g]
        PROVE  label'[g][m] \notin {"SAT", "UNSAT"}
    <3>1. CASE g = f /\ m = node[f]
      BY <2>1, <2>5, <3>1
    <3>2. CASE g # f \/ m # node[f]
      <4>1. m < node[g]
        BY <1>1, <1>2, <2>5, <3>2 DEF IInv, AgentTypeOK
      <4> QED
        BY <2>2, <2>5, <3>2, <4>1 DEF IInv, ExitForgotten
    <3> QED
      BY <3>1, <3>2
  <2> QED
    BY <1>1, <2>3, <2>4, <2>5 DEF IInv, ExitForgotten, Forgotten, agentVars, Hops
<1> QED
  BY <1>3, <1>4, <1>5, <1>6 DEF IInv

\* Processing on the way back: the slot is that of the node's link, and a link
\* an exit packet has left stays left.
LEMMA IngressKeepsLinkInv ==
    ASSUME IInv, NEW f \in Flow, where[f] = "rev", process_ingress(f)
    PROVE  /\ LinkInv'
           /\ \A g \in Flow : \A m \in 0 .. Hops(g) - 1 :
                 Forgotten(g, m) /\ (g = f => isExit[f]) => label'[g][m] \notin {"SAT", "UNSAT"}
<1>1. node[f] \in 0 .. Hops(f) - 1 /\ fwdHop[f] - revHop[f] - 1 = node[f]
  BY DEF IInv, RouteOK
<1>2. CASE ~ UpdateInRev
  <2>1. UNCHANGED <<linkVars, slotVars>>
    BY <1>2 DEF process_ingress
  <2> QED
    BY <2>1, IdleKeepsLinkInv DEF IInv, Forgotten, slotVars
<1>3. CASE UpdateInRev
  <2>1. link_action(f, LinkAt(f, node[f]), node[f])
    BY <1>1, <1>3 DEF process_ingress
  <2>2. LinkInv'
    BY <1>1, <2>1, LinkActionKeepsInv DEF IInv
  <2>3. /\ isExit[f] => label'[f][node[f]] = "FINISHED"
        /\ \A g \in Flow : \A m \in Slot :
              g # f \/ m # node[f] => label'[g][m] = label[g][m]
    BY <1>1, <2>1, VisitRewritesOneSlot DEF IInv, LinkInv
  <2> QED
    BY <2>2, <2>3, PathLength DEF Forgotten
<1> QED
  BY <1>2, <1>3

\* A visit on the way back: a link that has forgotten the flow does so still.
LEMMA ReverseHopKeepsIInv ==
    ASSUME IInv, NEW f \in Flow, ReverseHop(f)
    PROVE  IInv'
<1>1. /\ where[f] = "rev"
      /\ node[f] > 0
      /\ process_ingress(f)
      /\ node' = [node EXCEPT ![f] = @ - 1]
      /\ revHop' = [revHop EXCEPT ![f] = @ + 1]
      /\ UNCHANGED <<where, fwdHop, agentVars>>
  BY DEF ReverseHop
<1>2. LinkInv'
  BY <1>1, IngressKeepsLinkInv
<1>3. AgentTypeOK'
  BY <1>1 DEF IInv, AgentTypeOK, agentVars
<1>4. RouteOK'
  <2>1. /\ node'[f] = node[f] - 1
        /\ revHop'[f] = revHop[f] + 1
        /\ fwdHop'[f] = fwdHop[f]
        /\ where'[f] = "rev"
    BY <1>1 DEF IInv, AgentTypeOK
  <2>2. /\ node'[f] \in 0 .. Hops(f) - 1
        /\ fwdHop'[f] - 2 = Hops(f)
        /\ fwdHop'[f] - revHop'[f] - 1 = node'[f]
    BY <1>1, <2>1, PathLength DEF IInv, RouteOK, AgentTypeOK
  <2>3. ASSUME NEW g \in Flow, g # f
        PROVE  /\ node'[g] = node[g]
               /\ revHop'[g] = revHop[g]
               /\ fwdHop'[g] = fwdHop[g]
               /\ where'[g] = where[g]
    BY <1>1, <2>3 DEF IInv, AgentTypeOK
  <2> QED
    BY <2>1, <2>2, <2>3 DEF IInv, RouteOK, Hops
<1>5. ExitForgotten'
  <2>1. ASSUME NEW g \in Flow, NEW m \in 0 .. Hops(g) - 1, Forgotten(g, m),
               g = f => isExit[f]
        PROVE  label'[g][m] \notin {"SAT", "UNSAT"}
    BY <1>1, <2>1, IngressKeepsLinkInv
  <2>2. ASSUME NEW g \in Flow, g # f PROVE node'[g] = node[g]
    BY <1>1, <2>2 DEF IInv, AgentTypeOK
  <2>3. ASSUME NEW g \in Flow, where[g] = "none"
        PROVE  \A m \in 0 .. Hops(g) - 1 : label'[g][m] \notin {"SAT", "UNSAT"}
    BY <1>1, <2>1, <2>3 DEF IInv, ExitForgotten
  <2>4. ASSUME NEW g \in Flow, isExit[g], where[g] = "rev"
        PROVE  \A m \in 0 .. Hops(g) - 1 : label'[g][m] \notin {"SAT", "UNSAT"}
    BY <2>1, <2>4 DEF IInv, ExitForgotten
  <2>5. ASSUME NEW g \in Flow, isExit[g], where[g] = "fwd", NEW m \in 0 .. Hops(g) - 1,
               m < node'[g]
        PROVE  label'[g][m] \notin {"SAT", "UNSAT"}
    BY <1>1, <2>1, <2>2, <2>5 DEF IInv, ExitForgotten
  <2> QED
    BY <1>1, <2>3, <2>4, <2>5 DEF IInv, ExitForgotten, Forgotten, agentVars, Hops
<1> QED
  BY <1>2, <1>3, <1>4, <1>5 DEF IInv

\* The rate the source reads from a packet is a rate.
LEMMA RateFromCtrlType ==
    ASSUME NEW f \in Flow, fwdHop[f] - 2 = Hops(f), NEW a \in [Slot -> Nat]
    PROVE  RateFromCtrl(f, a) \in Nat
<1> DEFINE S == { a[i] : i \in 0 .. (fwdHop[f] - 2) - 1 }
           least == CHOOSE r \in S : \A i \in 0 .. (fwdHop[f] - 2) - 1 : r <= a[i]
<1>1. 0 .. (fwdHop[f] - 2) - 1 \subseteq Slot /\ 0 \in 0 .. (fwdHop[f] - 2) - 1
  BY PathLength
<1>2. S \in SUBSET Nat /\ S # {}
  BY <1>1
<1>3. \E r \in S : \A s \in S : r <= s
  <2> HIDE DEF S
  <2> QED
    BY <1>2, LeastExists
<1>4. least \in S
  BY <1>3
<1>5. LineRate \in Nat
  BY RateAssumption
<1>6. RateFromCtrl(f, a) \in {0, LineRate, least}
  BY DEF RateFromCtrl
<1> HIDE DEF S, least
<1> QED
  BY <1>2, <1>4, <1>5, <1>6

\* The packet ends at the source exactly when it was an exit packet, which
\* every link has forgotten.
LEMMA ReturnKeepsIInv ==
    ASSUME IInv, NEW f \in Flow, Return(f)
    PROVE  IInv'
<1>1. where[f] = "rev" /\ node[f] = 0 /\ process_ingress(f) /\ ReceiveAtSource(f)
  BY DEF Return
<1>2. /\ isExit' = [isExit EXCEPT ![f] = @ \/ (sendCtrlFin[f] /\ ~ ctrlFinSent[f])]
      /\ ctrlFinSent' = [ctrlFinSent EXCEPT ![f] = @ \/ sendCtrlFin[f] \/ isExit[f]]
      /\ ctrlFinRcvd' = [ctrlFinRcvd EXCEPT ![f] = @ \/ isExit[f]]
      /\ where' = [where EXCEPT ![f] =
                      IF ctrlFinSent'[f] /\ ctrlFinRcvd'[f] THEN "none" ELSE "held"]
      /\ node' = [node EXCEPT ![f] = 0]
      /\ fwdHop' = [fwdHop EXCEPT ![f] = 1]
      /\ revHop' = [revHop EXCEPT ![f] = 0]
      /\ sendCtrlFin' = sendCtrlFin
      /\ hostRate' = [hostRate EXCEPT ![f] = RateFromCtrl(f, alloc'[f])]
  BY <1>1 DEF ReceiveAtSource, NextExit, ExitDone
<1>3. LinkInv'
  BY <1>1, IngressKeepsLinkInv
<1>4. AgentTypeOK'
  <2>1. RateFromCtrl(f, alloc'[f]) \in Nat
    <3>1. fwdHop[f] - 2 = Hops(f) /\ alloc'[f] \in [Slot -> Nat]
      BY <1>1, <1>3 DEF IInv, RouteOK, LinkInv, SlotTypeOK
    <3> QED
      BY <3>1, RateFromCtrlType
  <2>2. hostRate' \in [Flow -> Nat]
    BY <1>2, <2>1 DEF IInv, AgentTypeOK
  <2>3. /\ isExit' \in [Flow -> BOOLEAN]
        /\ sendCtrlFin' \in [Flow -> BOOLEAN]
        /\ ctrlFinSent' \in [Flow -> BOOLEAN]
        /\ ctrlFinRcvd' \in [Flow -> BOOLEAN]
    BY <1>2 DEF IInv, AgentTypeOK
  <2>4. /\ where' \in [Flow -> {"none", "fwd", "rev", "held"}]
        /\ node' \in [Flow -> Nat]
        /\ fwdHop' \in [Flow -> Nat]
        /\ revHop' \in [Flow -> Nat]
    BY <1>2 DEF IInv, AgentTypeOK
  <2> QED
    BY <2>2, <2>3, <2>4 DEF AgentTypeOK
<1>5. where'[f] \in {"none", "held"} /\ \A g \in Flow : g # f => where'[g] = where[g]
  BY <1>2 DEF IInv, AgentTypeOK
<1>6. RouteOK'
  BY <1>2, <1>5, PathLength DEF IInv, RouteOK, AgentTypeOK, Hops
<1>7. ExitForgotten'
  <2>1. ASSUME NEW g \in Flow, NEW m \in 0 .. Hops(g) - 1, Forgotten(g, m),
               g = f => isExit[f]
        PROVE  label'[g][m] \notin {"SAT", "UNSAT"}
    BY <1>1, <2>1, IngressKeepsLinkInv
  <2>2. ~ ctrlFinRcvd[f]
    BY <1>1 DEF IInv, ExitForgotten
  <2>3. where'[f] = "none" <=> isExit[f]
    BY <1>2, <2>2 DEF IInv, AgentTypeOK
  <2>4. ctrlFinRcvd'[f] => where'[f] = "none"
    BY <1>2, <2>2, <2>3 DEF IInv, AgentTypeOK
  <2>5. isExit[f] => \A m \in 0 .. Hops(f) - 1 : label'[f][m] \notin {"SAT", "UNSAT"}
    BY <1>1, <2>1 DEF IInv, ExitForgotten
  <2>6. ASSUME NEW g \in Flow, g # f
        PROVE  /\ isExit'[g] = isExit[g]
               /\ ctrlFinRcvd'[g] = ctrlFinRcvd[g]
               /\ node'[g] = node[g]
               /\ where'[g] = where[g]
    BY <1>2, <1>5, <2>6 DEF IInv, AgentTypeOK
  <2>7. ASSUME NEW g \in Flow
        PROVE  /\ where'[g] = "none" =>
                     \A m \in 0 .. Hops(g) - 1 : label'[g][m] \notin {"SAT", "UNSAT"}
               /\ isExit'[g] /\ where'[g] = "fwd" =>
                     \A m \in 0 .. Hops(g) - 1 :
                        m < node'[g] => label'[g][m] \notin {"SAT", "UNSAT"}
               /\ isExit'[g] /\ where'[g] = "rev" =>
                     \A m \in 0 .. Hops(g) - 1 : label'[g][m] \notin {"SAT", "UNSAT"}
               /\ ctrlFinRcvd'[g] => where'[g] = "none"
    <3>1. CASE g = f
      BY <1>5, <2>3, <2>4, <2>5, <3>1
    <3>2. CASE g # f
      BY <2>1, <2>6, <3>2 DEF IInv, ExitForgotten
    <3> QED
      BY <3>1, <3>2
  <2> QED
    BY <2>7 DEF ExitForgotten, Forgotten, Hops
<1> QED
  BY <1>3, <1>4, <1>6, <1>7 DEF IInv

\* A stuttering step.
LEMMA StutterKeepsIInv ==
    ASSUME IInv, UNCHANGED vars
    PROVE  IInv'
<1>1. LinkInv'
  BY IdleKeepsLinkInv DEF IInv, vars
<1>2. AgentTypeOK' /\ RouteOK'
  BY DEF IInv, vars, AgentTypeOK, RouteOK, routeVars, agentVars, Hops
<1>3. ExitForgotten'
  BY DEF IInv, vars, ExitForgotten, Forgotten, routeVars, slotVars, agentVars, Hops
<1> QED
  BY <1>1, <1>2, <1>3 DEF IInv

\* Every step of the specification keeps the invariant.
LEMMA NextKeepsIInv == IInv /\ [Next]_vars => IInv'
<1> SUFFICES ASSUME IInv, [Next]_vars PROVE IInv'
  OBVIOUS
<1>1. ASSUME NEW f \in Flow, Start(f) PROVE IInv'
  BY <1>1, StartKeepsIInv
<1>2. ASSUME NEW f \in Flow, Finish(f) PROVE IInv'
  BY <1>2, FinishKeepsIInv
<1>3. ASSUME NEW f \in Flow, ForwardHop(f) PROVE IInv'
  BY <1>3, ForwardHopKeepsIInv
<1>4. ASSUME NEW f \in Flow, Echo(f) PROVE IInv'
  BY <1>4, EchoKeepsIInv
<1>5. ASSUME NEW f \in Flow, ReverseHop(f) PROVE IInv'
  BY <1>5, ReverseHopKeepsIInv
<1>6. ASSUME NEW f \in Flow, Return(f) PROVE IInv'
  BY <1>6, ReturnKeepsIInv
<1>7. ASSUME NEW f \in Flow, SendCtrl(f) PROVE IInv'
  BY <1>7, SendCtrlKeepsIInv
<1>8. ASSUME NEW l \in Link, ResetMaxSat(l) PROVE IInv'
  BY <1>8, ResetMaxSatKeepsIInv
<1>9. CASE UNCHANGED vars
  BY <1>9, StutterKeepsIInv
<1> QED
  BY <1>1, <1>2, <1>3, <1>4, <1>5, <1>6, <1>7, <1>8, <1>9 DEF Next, PacketStep

\* The invariant holds in every behaviour.
LEMMA IInvAlways == Spec => []IInv
<1>1. Init => IInv
  BY InitEstablishesIInv
<1>2. IInv /\ [Next]_vars => IInv'
  BY NextKeepsIInv
<1> QED
  BY <1>1, <1>2, PTL DEF Spec
-----------------------------------------------------------------------------
(* The theorems *)

\* Every variable keeps its type; in particular no aggregate of a link is ever
\* negative (update_local_state only ever subtracts what was added).
THEOREM TypeCorrect == Spec => []TypeOK
<1>1. IInv => TypeOK
  BY DEF IInv, LinkInv, LinkTypeOK, SlotTypeOK, AgentTypeOK, TypeOK
<1> QED
  BY <1>1, IInvAlways, PTL

\* The aggregates of every link are the totals of what the control packets say
\* of it: update_local_state never leaks a flow, a label or a rate.
THEOREM AggregatesAlwaysMatch == Spec => []AggregatesMatch
<1>1. IInv => AggregatesMatch
  BY DEF IInv, LinkInv
<1> QED
  BY <1>1, IInvAlways, PTL

\* Satisfied flows never fill a link.
THEOREM SumSatAlwaysBelowCapacity == Spec => []SumSatBelowCapacity
<1>1. IInv => SumSatBelowCapacity
  BY DEF IInv, LinkInv
<1> QED
  BY <1>1, IInvAlways, PTL

\* The slot a classifier computes from the hop counters of the header is the
\* slot of its own link, on the way out and on the way back.
THEOREM HopAlwaysSelectsLink == Spec => []HopSelectsLink
<1>1. IInv => HopSelectsLink
  BY DEF IInv, RouteOK, HopSelectsLink
<1> QED
  BY <1>1, IInvAlways, PTL

\* No control packet ever makes link_action end the simulation.
THEOREM LinksNeverAbort == Spec => []NeverAborts
<1>1. IInv => NeverAborts
  <2> SUFFICES ASSUME IInv PROVE NeverAborts
    OBVIOUS
  <2> SUFFICES ASSUME NEW f \in Flow
               PROVE  /\ where[f] = "fwd" /\ node[f] < Hops(f) =>
                            ~ Aborts(f, LinkAt(f, node[f]), fwdHop[f] - 1)
                      /\ UpdateInRev /\ where[f] = "rev" =>
                            ~ Aborts(f, LinkAt(f, node[f]), fwdHop[f] - revHop[f] - 1)
    BY DEF NeverAborts
  <2>1. ASSUME where[f] = "fwd", node[f] < Hops(f)
        PROVE  ~ Aborts(f, LinkAt(f, node[f]), fwdHop[f] - 1)
    <3>1. node[f] \in 0 .. Hops(f) - 1 /\ fwdHop[f] - 1 = node[f]
      BY <2>1, PathLength DEF IInv, AgentTypeOK, RouteOK
    <3> QED
      BY <3>1, VisitDoesNotAbort DEF IInv
  <2>2. ASSUME where[f] = "rev"
        PROVE  ~ Aborts(f, LinkAt(f, node[f]), fwdHop[f] - revHop[f] - 1)
    <3>1. node[f] \in 0 .. Hops(f) - 1 /\ fwdHop[f] - revHop[f] - 1 = node[f]
      BY <2>2 DEF IInv, RouteOK
    <3> QED
      BY <3>1, VisitDoesNotAbort DEF IInv
  <2> QED
    BY <2>1, <2>2
<1> QED
  BY <1>1, IInvAlways, PTL

\* A rate that a packet propagates is positive (the assertion of limit_rate).
THEOREM PropagatedRatesArePositive == Spec => []PropagatedRatePositive
<1>1. IInv => PropagatedRatePositive
  BY DEF IInv, LinkInv
<1> QED
  BY <1>1, IInvAlways, PTL
-----------------------------------------------------------------------------
(* The book that a link does without *)

\* The labels of a flow say whether its exit packet has passed: while the flow goes on
\* no link has seen one, and once it ends each link behind the packet has.
Marked(f) ==
    /\ where[f] # "none" /\ ~ isExit[f] =>
          \A n \in 0 .. Hops(f) - 1 : label[f][n] # "FINISHED"
    /\ where[f] = "fwd" /\ isExit[f] =>
          \A n \in 0 .. Hops(f) - 1 : n < node[f] => label[f][n] = "FINISHED"
    /\ where[f] = "rev" /\ isExit[f] =>
          \A n \in 0 .. Hops(f) - 1 : label[f][n] = "FINISHED"

ExitMarked == \A f \in Flow : Marked(f)

\* The entry for a hop with the given label and allocation.
EntryOf(l, a) == Book!Entry(l, IF l = "SAT" THEN a ELSE 0)

\* Only slot n of f changes.
OnlySlot(f, n) ==
    \A g \in Flow : \A m \in Slot :
       g # f \/ m # n => label'[g][m] = label[g][m] /\ alloc'[g][m] = alloc[g][m]

\* The book has in it what the packets have in their slots.
LEMMA EntryAtHop ==
    ASSUME NEW f \in Flow, NEW n \in 0 .. Hops(f) - 1
    PROVE  /\ EntryAt(f, LinkAt(f, n)) = EntryOf(label[f][n], alloc[f][n])
           /\ EntryAt(f, LinkAt(f, n))' = EntryOf(label'[f][n], alloc'[f][n])
BY HopUnique
   DEF EntryAt, EntryOf, Book!Entry, LabelAt, Crosses, HopOf, Hops, LinkAt

\* An entry stays if the slot does.
LEMMA EntryKept ==
    ASSUME NEW f \in Flow, NEW l \in Link,
           Crosses(f, l) => /\ label'[f][HopOf(f, l)] = label[f][HopOf(f, l)]
                            /\ alloc'[f][HopOf(f, l)] = alloc[f][HopOf(f, l)]
    PROVE  EntryAt(f, l)' = EntryAt(f, l)
BY DEF EntryAt, LabelAt, Crosses, HopOf, Hops, LinkAt

\* A visit writes one entry.
LEMMA BookAfterVisit ==
    ASSUME NEW f \in Flow, NEW n \in 0 .. Hops(f) - 1, OnlySlot(f, n)
    PROVE  BookOfPackets' =
             [BookOfPackets EXCEPT ![LinkAt(f, n)][f] = EntryOf(label'[f][n], alloc'[f][n])]
<1> DEFINE k == LinkAt(f, n)
           e == EntryOf(label'[f][n], alloc'[f][n])
<1>1. k \in Link /\ n \in Slot /\ EntryAt(f, k)' = e
  BY HopUnique, EntryAtHop
<1>2. ASSUME NEW l \in Link, NEW g \in Flow, g # f \/ l # k
      PROVE  EntryAt(g, l)' = EntryAt(g, l)
  <2>1. Crosses(g, l) => HopOf(g, l) \in Slot /\ LinkAt(g, HopOf(g, l)) = l
    BY HopOfLink
  <2>2. Crosses(g, l) => g # f \/ HopOf(g, l) # n
    BY <1>2, <2>1
  <2> QED
    BY <2>1, <2>2, EntryKept DEF OnlySlot
<1> HIDE DEF k, e
<1>3. \A l \in Link : \A g \in Flow :
         EntryAt(g, l)' = IF l = k /\ g = f THEN e ELSE EntryAt(g, l)
  BY <1>1, <1>2
<1>4. BookOfPackets' = [l \in Link |-> [g \in Flow |-> EntryAt(g, l)']]
  BY DEF BookOfPackets
<1>5. [BookOfPackets EXCEPT ![k][f] = e] =
         [l \in Link |-> [g \in Flow |-> IF l = k /\ g = f THEN e ELSE EntryAt(g, l)]]
  BY <1>1 DEF BookOfPackets
<1> QED
  BY <1>3, <1>4, <1>5 DEF k, e

\* The totals of the abstract module are those of this one.
LEMMA BookTotal == \A v : Book!Total(v) = Total(v)
BY DEF Book!Total, Book!Units, Total, Units, Book!Cardinality, Cardinality

\* A flow counts in the book as it does in its packet,
LEMMA BookShares ==
    ASSUME NEW l \in Link, NEW f \in Flow, Weight[f] \in Nat
    PROVE  LET e == EntryAt(f, l) IN
           /\ FlowShare(l)[f] = IF Book!Counted(e) THEN Weight[f] ELSE 0
           /\ SatShare(l)[f] = IF e.label = "SAT" THEN Weight[f] ELSE 0
           /\ SatRate(l)[f] = e.rate * Weight[f]
BY DEF EntryAt, FlowShare, SatShare, SatRate, Book!Counted

\* A flow that a step passes over stays marked.
LEMMA MarkedKept ==
    ASSUME NEW f \in Flow, Marked(f),
           where'[f] = where[f], node'[f] = node[f], isExit'[f] = isExit[f],
           \A n \in 0 .. Hops(f) - 1 : label'[f][n] = label[f][n]
    PROVE  Marked(f)'
BY DEF Marked, Hops

\* A visit strikes no flow that goes on, and others not at all.
LEMMA VisitMarks ==
    ASSUME IInv, NEW f \in Flow, NEW n \in 0 .. Hops(f) - 1,
           link_action(f, LinkAt(f, n), n)
    PROVE  /\ isExit[f] => label'[f][n] = "FINISHED"
           /\ ~ isExit[f] /\ label[f][n] # "FINISHED" => label'[f][n] # "FINISHED"
           /\ \A g \in Flow : \A m \in 0 .. Hops(g) - 1 :
                 g # f \/ m # n => label'[g][m] = label[g][m]
<1>1. n \in Slot /\ SlotTypeOK
  BY HopUnique DEF IInv, LinkInv
<1>2. /\ isExit[f] => label'[f][n] = "FINISHED"
      /\ \A g \in Flow : \A m \in Slot :
            g # f \/ m # n => label'[g][m] = label[g][m]
  BY <1>1, VisitRewritesOneSlot
<1>3. ASSUME ~ isExit[f], label[f][n] # "FINISHED"
      PROVE  label'[f][n] # "FINISHED"
  <2>1. label' = [label EXCEPT ![f][n] = NewLabel(f, LinkAt(f, n), n)]
    BY <1>3 DEF link_action, IgnoreFinished, RemoveFlow, Allocate
  <2>2. NewLabel(f, LinkAt(f, n), n) # "FINISHED"
    BY DEF NewLabel
  <2> QED
    BY <1>1, <2>1, <2>2 DEF SlotTypeOK
<1> QED
  BY <1>2, <1>3, PathLength

\* The same of a packet on its way back, which may pass links by.
LEMMA IngressMarks ==
    ASSUME IInv, NEW f \in Flow, Marked(f), where[f] = "rev", process_ingress(f)
    PROVE  /\ \A m \in 0 .. Hops(f) - 1 :
                 IF isExit[f] THEN label'[f][m] = "FINISHED"
                              ELSE label'[f][m] # "FINISHED"
           /\ \A g \in Flow : \A m \in 0 .. Hops(g) - 1 :
                 g # f => label'[g][m] = label[g][m]
<1>1. node[f] \in 0 .. Hops(f) - 1 /\ fwdHop[f] - revHop[f] - 1 = node[f]
  BY DEF IInv, RouteOK
<1>2. \A m \in 0 .. Hops(f) - 1 :
         IF isExit[f] THEN label[f][m] = "FINISHED" ELSE label[f][m] # "FINISHED"
  BY DEF Marked
<1>3. CASE ~ UpdateInRev
  BY <1>2, <1>3 DEF process_ingress, slotVars
<1>4. CASE UpdateInRev
  <2>1. link_action(f, LinkAt(f, node[f]), node[f])
    BY <1>1, <1>4 DEF process_ingress
  <2> QED
    BY <1>1, <1>2, <2>1, VisitMarks
<1> QED
  BY <1>3, <1>4

\* No packet is on its way at first,
LEMMA InitExitMarked == Init => ExitMarked
BY DEF Init, ExitMarked, Marked

\* and every step keeps the labels marked.
LEMMA NextExitMarked == IInv /\ ExitMarked /\ [Next]_vars => ExitMarked'
<1> SUFFICES ASSUME IInv, ExitMarked, [Next]_vars
             PROVE  ExitMarked'
  OBVIOUS
<1> USE DEF ExitMarked
<1>0. AgentTypeOK /\ SlotTypeOK
  BY DEF IInv, LinkInv
<1>1. ASSUME NEW f \in Flow, Start(f) PROVE ExitMarked'
  <2>1. /\ label' = [label EXCEPT ![f] = [i \in Slot |-> "NEW_FLOW"]]
        /\ where' = [where EXCEPT ![f] = "fwd"]
        /\ node' = [node EXCEPT ![f] = 0]
        /\ \A g \in Flow : g # f => isExit'[g] = isExit[g]
    BY <1>0, <1>1 DEF Start, FreshSlots, AgentTypeOK
  <2>2. \A g \in Flow : g # f => Marked(g)'
    BY <1>0, <2>1, MarkedKept DEF AgentTypeOK, SlotTypeOK
  <2>3. Marked(f)'
    <3>1. /\ where'[f] = "fwd" /\ node'[f] = 0
          /\ \A n \in 0 .. Hops(f) - 1 : label'[f][n] = "NEW_FLOW"
      BY <1>0, <2>1, PathLength DEF AgentTypeOK, SlotTypeOK
    <3> QED
      BY <3>1, PathLength DEF Marked, Hops
  <2> QED
    BY <2>2, <2>3
<1>2. ASSUME NEW f \in Flow, Finish(f) PROVE ExitMarked'
  BY <1>2, MarkedKept DEF Finish, routeVars, slotVars
<1>3. ASSUME NEW f \in Flow, ForwardHop(f) PROVE ExitMarked'
  <2>1. /\ where[f] = "fwd"
        /\ node[f] \in 0 .. Hops(f) - 1
        /\ fwdHop[f] - 1 = node[f]
        /\ node' = [node EXCEPT ![f] = @ + 1]
        /\ UNCHANGED <<where, isExit>>
    BY <1>3, PathLength DEF ForwardHop, agentVars, IInv, AgentTypeOK, RouteOK
  <2>2. link_action(f, LinkAt(f, node[f]), node[f])
    BY <1>3, <2>1 DEF ForwardHop
  <2>3. \A g \in Flow : g # f => Marked(g)'
    BY <1>0, <2>1, <2>2, VisitMarks, MarkedKept DEF AgentTypeOK
  <2>4. Marked(f)'
    <3>1. node'[f] = node[f] + 1
      BY <1>0, <2>1 DEF AgentTypeOK
    <3>2. CASE isExit[f]
      <4>1. \A n \in 0 .. Hops(f) - 1 : n < node'[f] => label'[f][n] = "FINISHED"
        <5> SUFFICES ASSUME NEW n \in 0 .. Hops(f) - 1, n < node'[f]
                     PROVE  label'[f][n] = "FINISHED"
          OBVIOUS
        <5>1. CASE n = node[f]
          BY <2>1, <2>2, <3>2, <5>1, VisitMarks
        <5>2. CASE n # node[f]
          <6>1. n < node[f]
            BY <2>1, <3>1, <5>2
          <6>2. label[f][n] = "FINISHED"
            BY <2>1, <3>2, <6>1 DEF Marked
          <6> QED
            BY <2>1, <2>2, <5>2, <6>2, VisitMarks
        <5> QED
          BY <5>1, <5>2
      <4> QED
        BY <2>1, <3>2, <4>1 DEF Marked, Hops
    <3>3. CASE ~ isExit[f]
      <4>1. \A n \in 0 .. Hops(f) - 1 : label[f][n] # "FINISHED"
        BY <2>1, <3>3 DEF Marked
      <4>2. \A n \in 0 .. Hops(f) - 1 : label'[f][n] # "FINISHED"
        BY <2>1, <2>2, <3>3, <4>1, VisitMarks
      <4> QED
        BY <2>1, <3>3, <4>2 DEF Marked, Hops
    <3> QED
      BY <3>2, <3>3
  <2> QED
    BY <2>3, <2>4
<1>4. ASSUME NEW f \in Flow, Echo(f) PROVE ExitMarked'
  <2>1. /\ where[f] = "fwd"
        /\ node[f] = Hops(f)
        /\ where' = [where EXCEPT ![f] = "rev"]
        /\ node' = [node EXCEPT ![f] = @ - 1]
        /\ UNCHANGED <<label, isExit>>
    BY <1>4 DEF Echo, slotVars, agentVars
  <2>2. \A g \in Flow : g # f => Marked(g)'
    BY <1>0, <2>1, MarkedKept DEF AgentTypeOK
  <2>3. Marked(f)'
    <3>1. where'[f] = "rev"
      BY <1>0, <2>1 DEF AgentTypeOK
    <3>2. \A n \in 0 .. Hops(f) - 1 : n < node[f]
      BY <2>1, PathLength
    <3> QED
      BY <2>1, <3>1, <3>2 DEF Marked, Hops
  <2> QED
    BY <2>2, <2>3
<1>5. ASSUME NEW f \in Flow, ReverseHop(f) PROVE ExitMarked'
  <2>1. /\ where[f] = "rev" /\ process_ingress(f)
        /\ node' = [node EXCEPT ![f] = @ - 1]
        /\ UNCHANGED <<where, isExit>>
    BY <1>5 DEF ReverseHop, agentVars
  <2>2. \A g \in Flow : g # f => Marked(g)'
    BY <1>0, <2>1, IngressMarks, MarkedKept DEF AgentTypeOK
  <2>3. Marked(f)'
    BY <2>1, IngressMarks DEF Marked, Hops
  <2> QED
    BY <2>2, <2>3
<1>6. ASSUME NEW f \in Flow, Return(f) PROVE ExitMarked'
  <2>1. where[f] = "rev" /\ process_ingress(f) /\ ReceiveAtSource(f)
    BY <1>6 DEF Return
  <2>2. /\ isExit' = [isExit EXCEPT ![f] = NextExit(f)]
        /\ ctrlFinRcvd' = [ctrlFinRcvd EXCEPT ![f] = @ \/ isExit[f]]
        /\ ctrlFinSent' = [ctrlFinSent EXCEPT ![f] = @ \/ sendCtrlFin[f] \/ isExit[f]]
        /\ where' = [where EXCEPT ![f] = IF ExitDone(f) THEN "none" ELSE "held"]
        /\ node' = [node EXCEPT ![f] = 0]
    BY <2>1 DEF ReceiveAtSource
  <2>3. \A g \in Flow : g # f => Marked(g)'
    BY <1>0, <2>1, <2>2, IngressMarks, MarkedKept DEF AgentTypeOK
  <2>4. Marked(f)'
    <3>1. where'[f] \in {"none", "held"}
      BY <1>0, <2>2 DEF AgentTypeOK
    <3>2. CASE isExit[f]
      <4>1. ctrlFinSent'[f] /\ ctrlFinRcvd'[f]
        BY <1>0, <2>2, <3>2 DEF AgentTypeOK
      <4>2. where'[f] = "none"
        BY <1>0, <2>2, <4>1 DEF AgentTypeOK, ExitDone
      <4> QED
        BY <4>2 DEF Marked
    <3>3. CASE ~ isExit[f]
      BY <2>1, <3>1, <3>3, IngressMarks DEF Marked, Hops
    <3> QED
      BY <3>2, <3>3
  <2> QED
    BY <2>3, <2>4
<1>7. ASSUME NEW f \in Flow, SendCtrl(f) PROVE ExitMarked'
  <2>1. /\ where[f] = "held" /\ node[f] = 0
        /\ where' = [where EXCEPT ![f] = "fwd"]
        /\ UNCHANGED <<node, label, isExit>>
    BY <1>7 DEF SendCtrl, agentVars, IInv, RouteOK
  <2>2. \A g \in Flow : g # f => Marked(g)'
    BY <1>0, <2>1, MarkedKept DEF AgentTypeOK
  <2>3. Marked(f)'
    <3>1. where'[f] = "fwd"
      BY <1>0, <2>1 DEF AgentTypeOK
    <3>2. \A n \in 0 .. Hops(f) - 1 : ~ n < node[f]
      BY <2>1, PathLength
    <3> QED
      BY <2>1, <3>1, <3>2 DEF Marked, Hops
  <2> QED
    BY <2>2, <2>3
<1>8. ASSUME NEW l \in Link, ResetMaxSat(l) PROVE ExitMarked'
  BY <1>8, MarkedKept DEF ResetMaxSat, routeVars, slotVars, agentVars
<1>9. CASE UNCHANGED vars
  BY <1>9, MarkedKept DEF vars, routeVars, slotVars, agentVars
<1> HIDE DEF ExitMarked
<1> QED
  BY <1>1, <1>2, <1>3, <1>4, <1>5, <1>6, <1>7, <1>8, <1>9 DEF Next, PacketStep

LEMMA ExitMarkedAlways == Spec => []ExitMarked
<1>1. Init => ExitMarked
  BY InitExitMarked
<1>2. IInv /\ ExitMarked /\ [Next]_vars => ExitMarked'
  BY NextExitMarked
<1> QED
  BY <1>1, <1>2, IInvAlways, PTL DEF Spec

\* A link takes a flow out when the exit packet goes out, never when it comes back:
\* the assertion of link_action, on any path and with updates both ways.
THEOREM ExitAlwaysSeenForward == Spec => []ExitSeenForward
<1>1. ExitMarked => ExitSeenForward
  BY DEF ExitMarked, Marked, ExitSeenForward
<1> QED
  BY <1>1, ExitMarkedAlways, PTL

\* The allocations of satisfied flows are naturals after a step, too.
LEMMA NextSatRateType ==
    ASSUME SlotTypeOK', NEW l \in Link
    PROVE  SatRate(l)' \in [Flow -> Nat]
<1>1. ASSUME NEW f \in Flow, LabelAt(f, l)' = "SAT"
      PROVE  alloc'[f][HopOf(f, l)] * Weight[f] \in Nat
  <2>1. Crosses(f, l)
    BY <1>1 DEF LabelAt, Crosses, Hops, LinkAt
  <2>2. alloc'[f][HopOf(f, l)] \in Nat /\ Weight[f] \in Nat
    BY <2>1, HopOfLink, RateAssumption DEF SlotTypeOK
  <2> QED
    BY <2>2
<1>2. SatRate(l)' = [f \in Flow |->
         IF LabelAt(f, l)' = "SAT" THEN alloc'[f][HopOf(f, l)] * Weight[f] ELSE 0]
  BY DEF SatRate, HopOf, Hops, LinkAt
<1> QED
  BY <1>1, <1>2

\* What a flow is allocated where it is satisfied, the link has.
LEMMA SatisfiedWithinCapacity ==
    ASSUME LinkInv', NEW f \in Flow, NEW n \in 0 .. Hops(f) - 1,
           label'[f][n] = "SAT"
    PROVE  alloc'[f][n] \in 0 .. Capacity[LinkAt(f, n)]
<1> DEFINE l == LinkAt(f, n)
           v == SatRate(l)'
<1>1. l \in Link /\ n \in Slot
  BY HopUnique
<1>2. alloc'[f][n] \in Nat /\ Weight[f] \in Nat \ {0}
  BY <1>1, RateAssumption DEF LinkInv, SlotTypeOK
<1>3. v[f] = alloc'[f][n] * Weight[f]
  <2>1. LabelAt(f, l)' = label'[f][n] /\ HopOf(f, l) = n
    BY HopUnique DEF LabelAt, Crosses, HopOf, Hops, LinkAt
  <2> QED
    BY <2>1 DEF SatRate, HopOf, Hops, LinkAt
<1>4. v \in [Flow -> Nat]
  BY <1>1, NextSatRateType DEF LinkInv
<1>5. sumSat'[l] = Total(v) /\ sumSat'[l] < Capacity[l] /\ Capacity[l] \in Nat
  BY <1>1, RateAssumption DEF LinkInv, AggregatesMatch, SumSatBelowCapacity
<1> HIDE DEF v, l
<1>6. v[f] <= Total(v) /\ v[f] \in Nat /\ Total(v) \in Nat
  <2>1. [v EXCEPT ![f] = 0] \in [Flow -> Nat]
    BY <1>4
  <2>2. Total([v EXCEPT ![f] = 0]) \in Nat /\ Total(v) \in Nat
    BY <1>4, <2>1, FlowAssumption, TotalType
  <2>3. Total(v) = Total([v EXCEPT ![f] = 0]) + v[f]
    BY <1>4, FlowAssumption, TotalZeroed
  <2> QED
    BY <1>4, <2>2, <2>3
<1>7. alloc'[f][n] * 1 <= alloc'[f][n] * Weight[f]
  <2>1. alloc'[f][n] <= alloc'[f][n] /\ 1 <= Weight[f] /\ Weight[f] \in Nat
    BY <1>2
  <2> QED
    BY <1>2, <2>1, ProductMonotone
<1> QED
  BY <1>2, <1>3, <1>5, <1>6, <1>7 DEF l

\* The totals of a link are those of its page of the book.
LEMMA TotalsOfBook ==
    ASSUME AggregatesMatch', NEW l \in Link
    PROVE  /\ numFlows'[l] = Book!Flows(BookOfPackets'[l])
           /\ numSat'[l] = Book!Satisfied(BookOfPackets'[l])
           /\ sumSat'[l] = Book!Bandwidth(BookOfPackets'[l])
<1> DEFINE page == BookOfPackets'[l]
<1>1. \A f \in Flow : page[f] = EntryAt(f, l)'
  BY DEF BookOfPackets
<1>2. \A f \in Flow :
         /\ page[f].label = LabelAt(f, l)'
         /\ page[f].rate = IF LabelAt(f, l)' = "SAT" THEN alloc'[f][HopOf(f, l)] ELSE 0
  <2> HIDE DEF page
  <2>1. \A f \in Flow :
           EntryAt(f, l)' =
             [label |-> LabelAt(f, l)',
              rate  |-> IF LabelAt(f, l)' = "SAT" THEN alloc'[f][HopOf(f, l)] ELSE 0]
    BY DEF EntryAt, HopOf, Hops, LinkAt
  <2> QED
    BY <1>1, <2>1
<1> HIDE DEF page
<1>3. FlowShare(l)' = [f \in Flow |-> IF Book!Counted(page[f]) THEN Weight[f] ELSE 0]
  BY <1>2 DEF FlowShare, Book!Counted
<1>4. SatShare(l)' = [f \in Flow |-> IF page[f].label = "SAT" THEN Weight[f] ELSE 0]
  BY <1>2 DEF SatShare
<1>5. SatRate(l)' = [f \in Flow |-> page[f].rate * Weight[f]]
  <2>1. \A f \in Flow : Weight[f] \in Nat
    BY RateAssumption
  <2>2. \A f \in Flow :
           page[f].rate * Weight[f] =
             IF LabelAt(f, l)' = "SAT" THEN alloc'[f][HopOf(f, l)] * Weight[f] ELSE 0
    BY <1>2, <2>1
  <2> QED
    BY <2>2 DEF SatRate, HopOf, Hops, LinkAt
<1>6. /\ numFlows'[l] = Total(FlowShare(l)')
      /\ numSat'[l] = Total(SatShare(l)')
      /\ sumSat'[l] = Total(SatRate(l)')
  BY DEF AggregatesMatch
<1> QED
  BY <1>3, <1>4, <1>5, <1>6, BookTotal
     DEF page, Book!Flows, Book!Satisfied, Book!Bandwidth

\* A link that updates its state writes in the book.
LEMMA UpdateWrites ==
    ASSUME LinkInv, AggregatesMatch', NEW f \in Flow, NEW n \in 0 .. Hops(f) - 1,
           OnlySlot(f, n), NEW newLabel, NEW newAlloc,
           update_local_state(LinkAt(f, n), Weight[f], label[f][n], alloc[f][n],
                              newLabel, newAlloc)
    PROVE  Book!Write(f, LinkAt(f, n), EntryOf(label'[f][n], alloc'[f][n]))
<1> DEFINE k == LinkAt(f, n)
<1>1. k \in Link
  BY HopUnique
<1>2. /\ \E x : numFlows' = [numFlows EXCEPT ![k] = x]
      /\ \E x : numSat' = [numSat EXCEPT ![k] = x]
      /\ \E x : sumSat' = [sumSat EXCEPT ![k] = x]
  BY DEF update_local_state
<1> HIDE DEF k
<1>3. /\ numFlows' = [numFlows EXCEPT ![k] = numFlows'[k]]
      /\ numSat' = [numSat EXCEPT ![k] = numSat'[k]]
      /\ sumSat' = [sumSat EXCEPT ![k] = sumSat'[k]]
  BY <1>1, <1>2 DEF LinkInv, LinkTypeOK
<1>4. /\ numFlows'[k] = Book!Flows(BookOfPackets'[k])
      /\ numSat'[k] = Book!Satisfied(BookOfPackets'[k])
      /\ sumSat'[k] = Book!Bandwidth(BookOfPackets'[k])
  BY <1>1, TotalsOfBook
<1>5. BookOfPackets' =
         [BookOfPackets EXCEPT ![k][f] = EntryOf(label'[f][n], alloc'[f][n])]
  BY BookAfterVisit DEF k
<1> QED
  BY <1>3, <1>4, <1>5 DEF Book!Write, k

\* A step that leaves totals, labels and allocations alone leaves the book alone.
LEMMA BookIdle ==
    ASSUME UNCHANGED <<numFlows, numSat, sumSat, label, alloc>>, Begun' = Begun
    PROVE  UNCHANGED Book!vars
<1>1. BookOfPackets' = BookOfPackets
  BY DEF BookOfPackets, EntryAt, LabelAt, Crosses, HopOf, Hops, LinkAt
<1> QED
  BY <1>1 DEF Book!vars, Book!totals

\* The visit of a link is an entry, a rating or a strike in the book.
LEMMA VisitRefines ==
    ASSUME IInv, ExitMarked, LinkInv', NEW f \in Flow, NEW n \in 0 .. Hops(f) - 1,
           where[f] # "none", Begun' = Begun,
           link_action(f, LinkAt(f, n), n)
    PROVE  [Book!Next]_(Book!vars)
<1> DEFINE k == LinkAt(f, n)
           Route == [g \in Flow |-> {l \in Link : Crosses(g, l)}]
<1>1. k \in Link /\ n \in Slot /\ k \in Route[f]
  BY HopUnique
<1>2. SlotTypeOK /\ LinkInv /\ AggregatesMatch' /\ SumSatBelowCapacity'
  BY DEF IInv, LinkInv
<1>3. f \in Begun
  BY DEF Begun
<1>4. OnlySlot(f, n)
  BY <1>2, VisitRewritesOneSlot DEF OnlySlot
<1>5. \A l \in Route[f] :
         BookOfPackets[l][f].label = label[f][HopOf(f, l)] /\ HopOf(f, l) \in 0 .. Hops(f) - 1
  BY HopOfLink DEF BookOfPackets, EntryAt, LabelAt
<1>6. HopOf(f, k) = n
  BY HopUnique
<1>7. Book!Struck.label = "FINISHED"
  BY DEF Book!Struck, Book!Entry
<1>8. ASSUME Book!Rate(f, k) \/ Book!Strike(f, k)
      PROVE  Book!Next
  BY <1>1, <1>8 DEF Book!Next
<1> HIDE DEF k, Route
<1>9. CASE IgnoreFinished(f, k, n)
  BY <1>9, BookIdle DEF IgnoreFinished, linkVars, slotVars
<1>10. CASE RemoveFlow(f, k, n)
  <2>1. label'[f][n] = "FINISHED" /\ alloc'[f][n] = 0
    BY <1>1, <1>2, <1>10 DEF RemoveFlow, SlotTypeOK
  <2>2. EntryOf(label'[f][n], alloc'[f][n]) = Book!Struck
    BY <2>1 DEF EntryOf, Book!Struck
  <2>3. Book!Write(f, k, Book!Struck)
    BY <1>2, <1>4, <1>10, <2>2, UpdateWrites DEF RemoveFlow, k
  <2>4. BookOfPackets[k][f] # Book!Struck
    BY <1>1, <1>5, <1>6, <1>7, <1>10 DEF RemoveFlow
  <2>5. Book!Strike(f, k)
    BY <1>3, <2>3, <2>4 DEF Book!Strike
  <2> QED
    BY <1>8, <2>5
<1>11. CASE Allocate(f, k, n)
  <2>1. ~ isExit[f] /\ label' = [label EXCEPT ![f][n] = NewLabel(f, k, n)]
    BY <1>11 DEF Allocate
  <2>2. \A l \in Route[f] : BookOfPackets[l][f] # Book!Struck
    <3>1. \A m \in 0 .. Hops(f) - 1 : label[f][m] # "FINISHED"
      BY <2>1 DEF ExitMarked, Marked
    <3> QED
      BY <1>5, <1>7, <3>1
  <2>3. Book!Write(f, k, EntryOf(label'[f][n], alloc'[f][n]))
    BY <1>2, <1>4, <1>11, UpdateWrites DEF Allocate, k
  <2>4. EntryOf(label'[f][n], alloc'[f][n]) \in Book!Ratings(k)
    <3>1. label'[f][n] \in {"SAT", "UNSAT"}
      <4>1. NewLabel(f, k, n) \in {"SAT", "UNSAT"}
        BY DEF NewLabel
      <4> QED
        BY <1>1, <1>2, <2>1, <4>1 DEF SlotTypeOK
    <3>2. CASE label'[f][n] = "SAT"
      <4>1. alloc'[f][n] \in 0 .. Capacity[k]
        BY <3>2, SatisfiedWithinCapacity DEF k
      <4> QED
        BY <3>2, <4>1 DEF EntryOf, Book!Ratings
    <3>3. CASE label'[f][n] = "UNSAT"
      BY <3>3 DEF EntryOf, Book!Ratings
    <3> QED
      BY <3>1, <3>2, <3>3
  <2>5. sumSat'[k] < Capacity[k]
    BY <1>1, <1>2 DEF SumSatBelowCapacity
  <2>6. Book!Rate(f, k)
    BY <1>3, <2>2, <2>3, <2>4, <2>5 DEF Book!Rate, Route
  <2> QED
    BY <1>8, <2>6
<1> QED
  BY <1>9, <1>10, <1>11 DEF link_action, k

\* A flow starts: it begins in the book.
LEMMA StartBegins ==
    ASSUME IInv, NEW f \in Flow, Start(f)
    PROVE  Book!Begin(f)
<1>1. AgentTypeOK /\ SlotTypeOK
  BY DEF IInv, LinkInv
<1>2. /\ where[f] = "none"
      /\ where' = [where EXCEPT ![f] = "fwd"]
      /\ label' = [label EXCEPT ![f] = [i \in Slot |-> "NEW_FLOW"]]
      /\ \A g \in Flow : g # f => alloc'[g] = alloc[g]
      /\ UNCHANGED <<numFlows, numSat, sumSat>>
  BY <1>1 DEF Start, FreshSlots, SlotTypeOK, linkVars
<1>3. f \notin Begun /\ Begun' = Begun \cup {f}
  BY <1>1, <1>2 DEF Begun, AgentTypeOK
<1>4. \A l \in Link : EntryAt(f, l)' = Book!NewEntry
  <2> SUFFICES ASSUME NEW l \in Link PROVE EntryAt(f, l)' = Book!NewEntry
    OBVIOUS
  <2>1. Crosses(f, l) => label'[f][HopOf(f, l)] = "NEW_FLOW"
    BY <1>1, <1>2, HopOfLink DEF SlotTypeOK
  <2>2. LabelAt(f, l)' = "NEW_FLOW"
    BY <2>1 DEF LabelAt, Crosses, HopOf, Hops, LinkAt
  <2> QED
    BY <2>2 DEF EntryAt, Book!NewEntry, Book!Entry
<1>5. \A l \in Link : \A g \in Flow : g # f => EntryAt(g, l)' = EntryAt(g, l)
  <2> SUFFICES ASSUME NEW l \in Link, NEW g \in Flow, g # f
               PROVE  EntryAt(g, l)' = EntryAt(g, l)
    OBVIOUS
  <2>1. label'[g] = label[g] /\ alloc'[g] = alloc[g]
    BY <1>1, <1>2 DEF SlotTypeOK
  <2> QED
    BY <2>1, EntryKept
<1>6. BookOfPackets' = [l \in Link |-> [BookOfPackets[l] EXCEPT ![f] = Book!NewEntry]]
  <2>1. BookOfPackets' = [l \in Link |-> [g \in Flow |-> EntryAt(g, l)']]
    BY DEF BookOfPackets
  <2>2. \A l \in Link : [BookOfPackets[l] EXCEPT ![f] = Book!NewEntry] =
           [g \in Flow |-> IF g = f THEN Book!NewEntry ELSE EntryAt(g, l)]
    BY DEF BookOfPackets
  <2>3. \A l \in Link : [g \in Flow |-> EntryAt(g, l)'] =
           [g \in Flow |-> IF g = f THEN Book!NewEntry ELSE EntryAt(g, l)]
    BY <1>4, <1>5
  <2> QED
    BY <2>1, <2>2, <2>3
<1> QED
  BY <1>2, <1>3, <1>6 DEF Book!Begin, Book!totals

\* A packet returns: the flow ends in the book if all its links have struck it
\* out, and otherwise the node's link may rate it.
LEMMA ReturnRefines ==
    ASSUME IInv, ExitMarked, NEW f \in Flow, Return(f)
    PROVE  [Book!Next]_(Book!vars)
<1>1. AgentTypeOK /\ Marked(f)
  BY DEF IInv, ExitMarked
<1>2. /\ where[f] = "rev" /\ process_ingress(f)
      /\ ctrlFinRcvd' = [ctrlFinRcvd EXCEPT ![f] = @ \/ isExit[f]]
      /\ ctrlFinSent' = [ctrlFinSent EXCEPT ![f] = @ \/ sendCtrlFin[f] \/ isExit[f]]
      /\ where' = [where EXCEPT ![f] = IF ExitDone(f) THEN "none" ELSE "held"]
  BY DEF Return, ReceiveAtSource
<1>3. node[f] \in 0 .. Hops(f) - 1 /\ fwdHop[f] - revHop[f] - 1 = node[f]
  BY <1>2 DEF IInv, RouteOK
<1>4. ~ ctrlFinRcvd[f]
  BY <1>2 DEF IInv, ExitForgotten
<1>5. f \in Begun
  BY <1>2 DEF Begun
<1>6. CASE isExit[f]
  <2>1. \A m \in 0 .. Hops(f) - 1 : label[f][m] = "FINISHED"
    BY <1>1, <1>2, <1>6 DEF Marked
  <2>2. UNCHANGED <<linkVars, slotVars>>
    BY <1>2, <1>3, <2>1
       DEF process_ingress, link_action, IgnoreFinished, RemoveFlow, Allocate
  <2>3. ExitDone(f)
    BY <1>1, <1>2, <1>6 DEF AgentTypeOK, ExitDone
  <2>4. Begun' = Begun \ {f}
    BY <1>1, <1>2, <2>3 DEF Begun, AgentTypeOK
  <2>5. BookOfPackets' = BookOfPackets
    BY <2>2 DEF slotVars, BookOfPackets, EntryAt, LabelAt, Crosses, HopOf, Hops, LinkAt
  <2>6. \A l \in Link : Crosses(f, l) => BookOfPackets[l][f] = Book!Struck
    <3> SUFFICES ASSUME NEW l \in Link, Crosses(f, l)
                 PROVE  BookOfPackets[l][f] = Book!Struck
      OBVIOUS
    <3>1. LabelAt(f, l) = "FINISHED"
      BY <2>1, HopOfLink DEF LabelAt
    <3> QED
      BY <3>1 DEF BookOfPackets, EntryAt, Book!Struck, Book!Entry
  <2>7. Book!End(f)
    BY <1>5, <2>2, <2>4, <2>5, <2>6 DEF Book!End, Book!totals, linkVars
  <2> QED
    BY <2>7 DEF Book!Next
<1>7. CASE ~ isExit[f]
  <2>1. ~ ExitDone(f)
    BY <1>1, <1>2, <1>4, <1>7 DEF AgentTypeOK, ExitDone
  <2>2. Begun' = Begun
    BY <1>1, <1>2, <2>1 DEF Begun, AgentTypeOK
  <2>3. CASE ~ UpdateInRev
    BY <1>2, <2>2, <2>3, BookIdle DEF process_ingress, linkVars, slotVars
  <2>4. CASE UpdateInRev
    <3>1. link_action(f, LinkAt(f, node[f]), node[f])
      BY <1>2, <1>3, <2>4 DEF process_ingress
    <3>2. LinkInv'
      BY <1>2, IngressKeepsLinkInv
    <3> QED
      BY <1>2, <1>3, <2>2, <3>1, <3>2, VisitRefines
  <2> QED
    BY <2>3, <2>4
<1> QED
  BY <1>6, <1>7

\* Every step is a step of the book or leaves it alone.
LEMMA NextRefines ==
    IInv /\ IInv' /\ ExitMarked /\ [Next]_vars => [Book!Next]_(Book!vars)
<1> SUFFICES ASSUME IInv, IInv', ExitMarked, [Next]_vars
             PROVE  [Book!Next]_(Book!vars)
  OBVIOUS
<1>1. AgentTypeOK /\ LinkInv'
  BY DEF IInv
<1>2. ASSUME NEW f \in Flow, Start(f) PROVE [Book!Next]_(Book!vars)
  BY <1>2, StartBegins DEF Book!Next
<1>3. ASSUME NEW f \in Flow, Finish(f) PROVE [Book!Next]_(Book!vars)
  BY <1>3, BookIdle DEF Finish, linkVars, routeVars, slotVars, Begun
<1>4. ASSUME NEW f \in Flow, ForwardHop(f) PROVE [Book!Next]_(Book!vars)
  <2>1. /\ where[f] = "fwd" /\ Begun' = Begun
        /\ node[f] \in 0 .. Hops(f) - 1 /\ fwdHop[f] - 1 = node[f]
    BY <1>4, PathLength DEF ForwardHop, IInv, AgentTypeOK, RouteOK, Begun
  <2>2. link_action(f, LinkAt(f, node[f]), node[f])
    BY <1>4, <2>1 DEF ForwardHop
  <2> QED
    BY <1>1, <2>1, <2>2, VisitRefines
<1>5. ASSUME NEW f \in Flow, Echo(f) PROVE [Book!Next]_(Book!vars)
  <2>1. Begun' = Begun
    BY <1>1, <1>5 DEF Echo, AgentTypeOK, Begun
  <2> QED
    BY <1>5, <2>1, BookIdle DEF Echo, linkVars, slotVars
<1>6. ASSUME NEW f \in Flow, ReverseHop(f) PROVE [Book!Next]_(Book!vars)
  <2>1. /\ where[f] = "rev" /\ process_ingress(f) /\ Begun' = Begun
        /\ node[f] \in 0 .. Hops(f) - 1 /\ fwdHop[f] - revHop[f] - 1 = node[f]
    BY <1>6 DEF ReverseHop, IInv, RouteOK, Begun
  <2>2. CASE ~ UpdateInRev
    BY <2>1, <2>2, BookIdle DEF process_ingress, linkVars, slotVars
  <2>3. CASE UpdateInRev
    <3>1. link_action(f, LinkAt(f, node[f]), node[f])
      BY <2>1, <2>3 DEF process_ingress
    <3> QED
      BY <1>1, <2>1, <3>1, VisitRefines
  <2> QED
    BY <2>2, <2>3
<1>7. ASSUME NEW f \in Flow, Return(f) PROVE [Book!Next]_(Book!vars)
  BY <1>7, ReturnRefines
<1>8. ASSUME NEW f \in Flow, SendCtrl(f) PROVE [Book!Next]_(Book!vars)
  <2>1. Begun' = Begun
    BY <1>1, <1>8 DEF SendCtrl, AgentTypeOK, Begun
  <2> QED
    BY <1>8, <2>1, BookIdle DEF SendCtrl, linkVars
<1>9. ASSUME NEW l \in Link, ResetMaxSat(l) PROVE [Book!Next]_(Book!vars)
  BY <1>9, BookIdle DEF ResetMaxSat, routeVars, slotVars, Begun
<1>10. CASE UNCHANGED vars
  BY <1>10, BookIdle DEF vars, linkVars, routeVars, slotVars, Begun
<1> QED
  BY <1>2, <1>3, <1>4, <1>5, <1>6, <1>7, <1>8, <1>9, <1>10 DEF Next, PacketStep

\* The book is empty at first.
LEMMA InitRefines == Init => Book!Init
<1> SUFFICES ASSUME Init PROVE Book!Init
  OBVIOUS
<1>1. Begun = {}
  BY DEF Init, Begun
<1>2. ASSUME NEW l \in Link, NEW f \in Flow PROVE EntryAt(f, l) = Book!NewEntry
  <2>1. LabelAt(f, l) = "NEW_FLOW"
    BY HopOfLink DEF Init, LabelAt
  <2> QED
    BY <2>1 DEF EntryAt, Book!NewEntry, Book!Entry
<1>3. BookOfPackets = [l \in Link |-> [f \in Flow |-> Book!NewEntry]]
  BY <1>2 DEF BookOfPackets
<1> QED
  BY <1>1, <1>3 DEF Init, Book!Init

\* Links with three totals and no memory of any flow keep the book that LinkBook
\* describes, whatever the flows, paths, weights, requests and timers: the totals are
\* those of the entries, no flow is entered again before all of its links have
\* struck it out, and satisfied flows are promised less than the capacity.
THEOREM LinksKeepABook == Spec => ImplementsBook
<1>1. Init => Book!Init
  BY InitRefines
<1>2. IInv /\ IInv' /\ ExitMarked /\ [Next]_vars => [Book!Next]_(Book!vars)
  BY NextRefines
<1> QED
  BY <1>1, <1>2, IInvAlways, ExitMarkedAlways, PTL DEF Spec, Book!Spec, ImplementsBook
=============================================================================
