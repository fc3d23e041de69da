------------------------- MODULE SpercMaxSatProofs -------------------------
(***************************************************************************)
(* maxSat covers the satisfied flows of its link as long as the timer that *)
(* resets it lets every flow be seen between two resets.  The argument: a  *)
(* visit raises maxSat and next_max_sat together, so next_max_sat covers    *)
(* the satisfied flows seen since the last reset; a reset makes it the new *)
(* maxSat when those are all the flows that the link counts.               *)
(***************************************************************************)
EXTENDS SpercControlProofs

\* What maxSat will be after the next reset covers the flows seen since the
\* last one.
NextMaxSatCovers ==
    \A f \in Flow : \A n \in 0 .. Hops(f) - 1 :
       label[f][n] = "SAT" /\ f \in seen[LinkAt(f, n)] =>
          ~ rate_greater_than(alloc[f][n], nextMaxSat[LinkAt(f, n)])

CoverInv == MaxSatCovers /\ NextMaxSatCovers

\* Raising a maximum covers the new rate and uncovers no other.
LEMMA RaisedMaxCovers ==
    ASSUME NEW a \in Nat, NEW m \in Nat
    PROVE  LET raised == IF rate_greater_than(a, m) THEN a ELSE m IN
           /\ ~ rate_greater_than(a, raised)
           /\ \A b \in Nat : ~ rate_greater_than(b, m) => ~ rate_greater_than(b, raised)
<1>1. Tolerance \in Nat \ {0}
  BY RateAssumption
<1> QED
  BY <1>1 DEF rate_greater_than, rate_equal

\* A step that leaves labels, allocations and the links alone.
LEMMA IdleKeepsCover ==
    ASSUME CoverInv, UNCHANGED <<linkVars, label, alloc>>
    PROVE  CoverInv'
  BY DEF CoverInv, MaxSatCovers, NextMaxSatCovers, linkVars, Hops, LinkAt,
         rate_greater_than, rate_equal

\* A visit that allocates: the slot it writes is covered by the maxima it
\* raises, every other slot by the maxima as they were.
LEMMA AllocateKeepsCover ==
    ASSUME LinkInv, CoverInv, NEW f \in Flow, NEW n \in 0 .. Hops(f) - 1,
           Allocate(f, LinkAt(f, n), n)
    PROVE  CoverInv'
<1> DEFINE k == LinkAt(f, n)
           a == NewAlloc(f, k, n)
<1>1. k \in Link /\ n \in Slot
  BY HopUnique
<1>2. /\ label[f][n] # "FINISHED"
      /\ label' = [label EXCEPT ![f][n] = NewLabel(f, k, n)]
      /\ alloc' = [alloc EXCEPT ![f][n] = a]
      /\ seen' = [seen EXCEPT ![k] = @ \cup {f}]
      /\ update_local_state(k, Weight[f], label[f][n], alloc[f][n], NewLabel(f, k, n), a)
  BY DEF Allocate
<1>3. a \in Nat
  BY <1>2, NewAllocBounds
<1>4. link_action(f, LinkAt(f, n), n)
  BY DEF link_action
<1>5. \A g \in Flow : \A m \in Slot :
         g # f \/ m # n => label'[g][m] = label[g][m] /\ alloc'[g][m] = alloc[g][m]
  BY <1>4, VisitRewritesOneSlot DEF LinkInv
<1>6. label'[f][n] = NewLabel(f, k, n) /\ alloc'[f][n] = a
  BY <1>1, <1>2 DEF LinkInv, SlotTypeOK
<1>7. IF NewLabel(f, k, n) = "SAT"
      THEN update_max_sat(k, a)
      ELSE UNCHANGED <<maxSat, nextMaxSat>>
  BY <1>2 DEF update_local_state
<1>8. maxSat \in [Link -> Nat] /\ nextMaxSat \in [Link -> Nat] /\ seen \in [Link -> SUBSET Flow]
  BY DEF LinkInv, LinkTypeOK
<1> HIDE DEF a, k
<1>9. NewLabel(f, k, n) = "SAT" =>
         /\ ~ rate_greater_than(a, maxSat'[k])
         /\ ~ rate_greater_than(a, nextMaxSat'[k])
  BY <1>1, <1>3, <1>7, <1>8, RaisedMaxCovers DEF update_max_sat
<1>10. ASSUME NEW l \in Link, NEW b \in Nat
       PROVE  /\ ~ rate_greater_than(b, maxSat[l]) => ~ rate_greater_than(b, maxSat'[l])
              /\ ~ rate_greater_than(b, nextMaxSat[l]) => ~ rate_greater_than(b, nextMaxSat'[l])
  <2>1. CASE l = k /\ NewLabel(f, k, n) = "SAT"
    BY <1>1, <1>3, <1>7, <1>8, <2>1, RaisedMaxCovers DEF update_max_sat
  <2>2. CASE ~ (l = k /\ NewLabel(f, k, n) = "SAT")
    BY <1>1, <1>7, <1>8, <2>2 DEF update_max_sat
  <2> QED
    BY <2>1, <2>2
<1>11. ASSUME NEW g \in Flow, NEW m \in 0 .. Hops(g) - 1, label'[g][m] = "SAT"
       PROVE  /\ ~ rate_greater_than(alloc'[g][m], maxSat'[LinkAt(g, m)])
              /\ g \in seen'[LinkAt(g, m)] =>
                    ~ rate_greater_than(alloc'[g][m], nextMaxSat'[LinkAt(g, m)])
  <2>1. LinkAt(g, m) \in Link /\ m \in Slot
    BY HopUnique
  <2>2. CASE g = f /\ m = n
    BY <1>6, <1>9, <1>11, <2>2 DEF k
  <2>3. CASE g # f \/ m # n
    <3>1. label[g][m] = "SAT" /\ alloc'[g][m] = alloc[g][m]
      BY <1>5, <1>11, <2>1, <2>3
    <3>2. alloc[g][m] \in Nat
      BY <2>1 DEF LinkInv, SlotTypeOK
    <3>3. ~ rate_greater_than(alloc[g][m], maxSat[LinkAt(g, m)])
      BY <3>1 DEF CoverInv, MaxSatCovers
    <3>4. g \in seen'[LinkAt(g, m)] => g \in seen[LinkAt(g, m)]
      <4>1. g = f => LinkAt(g, m) # k
        BY <2>3, HopUnique DEF k
      <4> QED
        BY <1>1, <1>2, <1>8, <2>1, <4>1
    <3>5. g \in seen'[LinkAt(g, m)] =>
             ~ rate_greater_than(alloc[g][m], nextMaxSat[LinkAt(g, m)])
      BY <3>1, <3>4 DEF CoverInv, NextMaxSatCovers
    <3> QED
      BY <1>10, <2>1, <3>1, <3>2, <3>3, <3>5
  <2> QED
    BY <2>2, <2>3
<1> QED
  BY <1>11 DEF CoverInv, MaxSatCovers, NextMaxSatCovers, Hops, LinkAt, rate_greater_than, rate_equal

\* A visit that removes the flow leaves its slot FINISHED and the maxima alone.
LEMMA RemoveFlowKeepsCover ==
    ASSUME LinkInv, CoverInv, NEW f \in Flow, NEW n \in 0 .. Hops(f) - 1,
           RemoveFlow(f, LinkAt(f, n), n)
    PROVE  CoverInv'
<1> DEFINE k == LinkAt(f, n)
<1>1. k \in Link /\ n \in Slot
  BY HopUnique
<1>2. /\ label' = [label EXCEPT ![f][n] = "FINISHED"]
      /\ seen' = [seen EXCEPT ![k] = @ \ {f}]
      /\ UNCHANGED <<maxSat, nextMaxSat>>
  BY DEF RemoveFlow, update_local_state
<1>3. link_action(f, LinkAt(f, n), n)
  BY DEF link_action
<1>4. \A g \in Flow : \A m \in Slot :
         g # f \/ m # n => label'[g][m] = label[g][m] /\ alloc'[g][m] = alloc[g][m]
  BY <1>3, VisitRewritesOneSlot DEF LinkInv
<1>5. label'[f][n] = "FINISHED"
  BY <1>1, <1>2 DEF LinkInv, SlotTypeOK
<1>6. seen \in [Link -> SUBSET Flow]
  BY DEF LinkInv, LinkTypeOK
<1>7. ASSUME NEW g \in Flow, NEW m \in 0 .. Hops(g) - 1, label'[g][m] = "SAT"
      PROVE  /\ ~ rate_greater_than(alloc'[g][m], maxSat'[LinkAt(g, m)])
             /\ g \in seen'[LinkAt(g, m)] =>
                   ~ rate_greater_than(alloc'[g][m], nextMaxSat'[LinkAt(g, m)])
  <2>1. LinkAt(g, m) \in Link /\ m \in Slot
    BY HopUnique
  <2>2. g # f \/ m # n
    BY <1>5, <1>7
  <2>3. label[g][m] = "SAT" /\ alloc'[g][m] = alloc[g][m]
    BY <1>4, <1>7, <2>1, <2>2
  <2> HIDE DEF k
  <2>4. g \in seen'[LinkAt(g, m)] => g \in seen[LinkAt(g, m)]
    BY <1>1, <1>2, <1>6, <2>1
  <2> QED
    BY <1>2, <2>3, <2>4 DEF CoverInv, MaxSatCovers, NextMaxSatCovers
<1> QED
  BY <1>7 DEF CoverInv, MaxSatCovers, NextMaxSatCovers, Hops, LinkAt, rate_greater_than, rate_equal

\* Any visit of a link.
LEMMA VisitKeepsCover ==
    ASSUME LinkInv, CoverInv, NEW f \in Flow, NEW n \in 0 .. Hops(f) - 1,
           link_action(f, LinkAt(f, n), n)
    PROVE  CoverInv'
<1>1. CASE IgnoreFinished(f, LinkAt(f, n), n)
  BY <1>1, IdleKeepsCover DEF IgnoreFinished, slotVars
<1> QED
  BY <1>1, RemoveFlowKeepsCover, AllocateKeepsCover DEF link_action

\* Processing on the way back, if there is any.
LEMMA IngressKeepsCover ==
    ASSUME IInv, CoverInv, NEW f \in Flow, where[f] = "rev", process_ingress(f)
    PROVE  CoverInv'
<1>1. node[f] \in 0 .. Hops(f) - 1 /\ fwdHop[f] - revHop[f] - 1 = node[f]
  BY DEF IInv, RouteOK
<1>2. CASE UpdateInRev
  BY <1>1, <1>2, VisitKeepsCover DEF process_ingress, IInv
<1>3. CASE ~ UpdateInRev
  BY <1>3, IdleKeepsCover DEF process_ingress, slotVars
<1> QED
  BY <1>2, <1>3

\* A reset after every counted flow has been seen.
LEMMA ResetKeepsCover ==
    ASSUME LinkInv, CoverInv, CoveringTimeout, NEW k \in Link, ResetMaxSat(k)
    PROVE  CoverInv'
<1>1. /\ Counted(k) \subseteq seen[k]
      /\ maxSat' = [maxSat EXCEPT ![k] = nextMaxSat[k]]
      /\ nextMaxSat' = [nextMaxSat EXCEPT ![k] = 0]
      /\ seen' = [seen EXCEPT ![k] = {}]
      /\ UNCHANGED <<label, alloc>>
  BY DEF ResetMaxSat, slotVars
<1>2. maxSat \in [Link -> Nat] /\ nextMaxSat \in [Link -> Nat] /\ seen \in [Link -> SUBSET Flow]
  BY DEF LinkInv, LinkTypeOK
<1>3. ASSUME NEW g \in Flow, NEW m \in 0 .. Hops(g) - 1, label[g][m] = "SAT"
      PROVE  /\ ~ rate_greater_than(alloc[g][m], maxSat'[LinkAt(g, m)])
             /\ g \in seen'[LinkAt(g, m)] =>
                   ~ rate_greater_than(alloc[g][m], nextMaxSat'[LinkAt(g, m)])
  <2>1. LinkAt(g, m) \in Link
    BY HopUnique
  <2>2. CASE LinkAt(g, m) = k
    <3>1. g \in seen[k]
      BY <1>1, <1>3, <2>2 DEF Counted
    <3>2. ~ rate_greater_than(alloc[g][m], nextMaxSat[k])
      BY <1>3, <2>2, <3>1 DEF CoverInv, NextMaxSatCovers
    <3> QED
      BY <1>1, <1>2, <2>2, <3>2
  <2>3. CASE LinkAt(g, m) # k
    <3>1. /\ maxSat'[LinkAt(g, m)] = maxSat[LinkAt(g, m)]
          /\ nextMaxSat'[LinkAt(g, m)] = nextMaxSat[LinkAt(g, m)]
          /\ seen'[LinkAt(g, m)] = seen[LinkAt(g, m)]
      BY <1>1, <1>2, <2>1, <2>3
    <3> QED
      BY <1>3, <3>1 DEF CoverInv, MaxSatCovers, NextMaxSatCovers
  <2> QED
    BY <2>2, <2>3
<1> QED
  BY <1>1, <1>3 DEF CoverInv, MaxSatCovers, NextMaxSatCovers, Hops, LinkAt,
                    rate_greater_than, rate_equal

\* A new packet has no satisfied slot.
LEMMA StartKeepsCover ==
    ASSUME LinkInv, CoverInv, NEW f \in Flow, Start(f)
    PROVE  CoverInv'
<1>1. /\ label' = [label EXCEPT ![f] = [i \in Slot |-> "NEW_FLOW"]]
      /\ \A g \in Flow : g # f => alloc'[g] = alloc[g]
      /\ UNCHANGED linkVars
  BY DEF Start, FreshSlots, LinkInv, SlotTypeOK
<1>2. ASSUME NEW g \in Flow, NEW m \in 0 .. Hops(g) - 1, label'[g][m] = "SAT"
      PROVE  label[g][m] = "SAT" /\ alloc'[g][m] = alloc[g][m]
  <2>1. m \in Slot
    BY HopUnique
  <2>2. g # f
    BY <1>1, <1>2, <2>1 DEF LinkInv, SlotTypeOK
  <2> QED
    BY <1>1, <1>2, <2>2 DEF LinkInv, SlotTypeOK
<1> QED
  BY <1>1, <1>2 DEF CoverInv, MaxSatCovers, NextMaxSatCovers, linkVars, Hops, LinkAt,
                    rate_greater_than, rate_equal

\* Every step of the specification.
LEMMA NextKeepsCover ==
    ASSUME IInv, CoverInv, CoveringTimeout, [Next]_vars
    PROVE  CoverInv'
<1>1. ASSUME NEW f \in Flow, Start(f) PROVE CoverInv'
  BY <1>1, StartKeepsCover DEF IInv
<1>2. ASSUME NEW f \in Flow, Finish(f) PROVE CoverInv'
  BY <1>2, IdleKeepsCover DEF Finish, slotVars
<1>3. ASSUME NEW f \in Flow, ForwardHop(f) PROVE CoverInv'
  <2>1. node[f] \in 0 .. Hops(f) - 1 /\ fwdHop[f] - 1 = node[f]
    BY <1>3, PathLength DEF ForwardHop, IInv, AgentTypeOK, RouteOK
  <2> QED
    BY <1>3, <2>1, VisitKeepsCover DEF ForwardHop, IInv
<1>4. ASSUME NEW f \in Flow, Echo(f) PROVE CoverInv'
  BY <1>4, IdleKeepsCover DEF Echo, slotVars
<1>5. ASSUME NEW f \in Flow, ReverseHop(f) PROVE CoverInv'
  BY <1>5, IngressKeepsCover DEF ReverseHop
<1>6. ASSUME NEW f \in Flow, Return(f) PROVE CoverInv'
  BY <1>6, IngressKeepsCover DEF Return
<1>7. ASSUME NEW f \in Flow, SendCtrl(f) PROVE CoverInv'
  BY <1>7, IdleKeepsCover DEF SendCtrl
<1>8. ASSUME NEW l \in Link, ResetMaxSat(l) PROVE CoverInv'
  BY <1>8, ResetKeepsCover DEF IInv
<1>9. CASE UNCHANGED vars
  BY <1>9, IdleKeepsCover DEF vars, slotVars
<1> QED
  BY <1>1, <1>2, <1>3, <1>4, <1>5, <1>6, <1>7, <1>8, <1>9 DEF Next, PacketStep

\* While the maxSat timer of each link lets every flow it counts be seen
\* between two resets, maxSat covers every satisfied flow's allocation.
THEOREM MaxSatAlwaysCovers == CoveringTimeout => (Spec => []MaxSatCovers)
<1> SUFFICES ASSUME CoveringTimeout PROVE Spec => []MaxSatCovers
  OBVIOUS
<1>1. Init => CoverInv
  <2> SUFFICES ASSUME Init PROVE CoverInv
    OBVIOUS
  <2>1. \A f \in Flow : \A n \in 0 .. Hops(f) - 1 : label[f][n] = "NEW_FLOW"
    BY PathLength DEF Init
  <2> QED
    BY <2>1 DEF CoverInv, MaxSatCovers, NextMaxSatCovers
<1>2. IInv /\ CoverInv /\ [Next]_vars => CoverInv'
  BY NextKeepsCover
<1>3. CoverInv => MaxSatCovers
  BY DEF CoverInv
<1> QED
  BY <1>1, <1>2, <1>3, IInvAlways, PTL DEF Spec
=============================================================================
