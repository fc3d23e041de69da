--------------------------- MODULE SpercLimitProofs ---------------------------
(***************************************************************************)
(* Proofs about SpercLimit: every link counts its flows exactly, for any    *)
(* number of flows and any paths that visit no node twice.                  *)
(***************************************************************************)
EXTENDS SpercLimit, FiniteSetTheorems, TLAPS

SimplePaths ==
    /\ IsFiniteSet(Flows)
    /\ \A f \in Flows :
          /\ Path[f] \in Seq(Nodes)
          /\ \A i, j \in 1 .. Len(Path[f]) : Path[f][i] = Path[f][j] => i = j

Type == {"none", "CTRL_SYN", "CTRL_SYN_REV", "CTRL", "CTRL_REV", "over"}

ControlPacket == [type : Type, exit : BOOLEAN, rtt : Nat, from : Nat, to : Nat]

LinkState ==
    [numFlows : Int, maxRtt : Int, nextMaxRtt : Int, maxFutureRtt : Int,
     nextMaxFutureRtt : Int, resets : BOOLEAN]

Typed == packet \in [Flows -> ControlPacket] /\ crl \in [Links -> LinkState]

\* Where a packet p is on the path of its flow, which has n nodes.
PlaceFits(p, n) ==
    /\ p.type \in {"none", "over"} => p.from = 0 /\ p.to = 1
    /\ p.type = "CTRL_SYN" => p.to \in 2 .. n /\ p.from = p.to - 1
    /\ p.type = "CTRL" => (p.from = 0 /\ p.to = 1) \/ (p.to \in 2 .. n /\ p.from = p.to - 1)
    /\ p.type \in {"CTRL_SYN_REV", "CTRL_REV"} => p.to \in 1 .. n - 1 /\ p.from = p.to + 1

LimitInv ==
    /\ Typed
    /\ \A f \in Flows : PlaceFits(packet[f], Len(Path[f]))
    /\ FlowsCounted

\* What a link that flow f reaches at place j adds to its count when the packet of
\* f becomes q there.
Change(f, l, j, q) ==
    IF ~ BeginsAt(f, l, j) \/ (CountsAt(q, j) <=> CountsAt(packet[f], j)) THEN 0
    ELSE IF CountsAt(q, j) THEN 1 ELSE -1
-----------------------------------------------------------------------------
(* Links and paths *)

\* The links of a path.
LEMMA LinksOfPath ==
    ASSUME SimplePaths, NEW f \in Flows, NEW j \in 1 .. Len(Path[f])
    PROVE  /\ Len(Path[f]) \in Nat /\ Len(Path[f]) >= 2
           /\ j > 1 => LinkAt(f, j, j - 1) \in Links
           /\ j < Len(Path[f]) => LinkAt(f, j, j + 1) \in Links
           /\ \A l \in Links : BeginsAt(f, l, j) <=>
                 \/ j > 1 /\ l = LinkAt(f, j, j - 1)
                 \/ j < Len(Path[f]) /\ l = LinkAt(f, j, j + 1)
           /\ j > 1 /\ j < Len(Path[f]) => LinkAt(f, j, j - 1) # LinkAt(f, j, j + 1)
<1> DEFINE n == Len(Path[f])
<1>1. n \in Nat /\ n >= 2 /\ j \in Nat
  BY LimitAssumption DEF SimplePaths
<1>2. \A i \in 1 .. n : Path[f][i] \in Nodes
  BY DEF SimplePaths
<1>3. \A l \in Links : l = <<l[1], l[2]>>
  BY DEF Links
<1>4. j > 1 => j - 1 \in 1 .. n
  BY <1>1
<1>5. j < n => j + 1 \in 1 .. n
  BY <1>1
<1>6. j > 1 => LinkAt(f, j, j - 1) \in Links
  <2> SUFFICES ASSUME j > 1
               PROVE  LinkAt(f, j, j - 1) \in Links
    OBVIOUS
  <2>1. LinkAt(f, j, j - 1) \in Nodes \X Nodes
    BY <1>2, <1>4 DEF LinkAt
  <2>2. BeginsAt(f, LinkAt(f, j, j - 1), j)
    BY DEF BeginsAt, LinkAt
  <2> QED
    BY <2>1, <2>2 DEF Links
<1>7. j < n => LinkAt(f, j, j + 1) \in Links
  <2> SUFFICES ASSUME j < n
               PROVE  LinkAt(f, j, j + 1) \in Links
    OBVIOUS
  <2>1. LinkAt(f, j, j + 1) \in Nodes \X Nodes
    BY <1>2, <1>5 DEF LinkAt
  <2>2. BeginsAt(f, LinkAt(f, j, j + 1), j)
    BY DEF BeginsAt, LinkAt
  <2> QED
    BY <2>1, <2>2 DEF Links
<1>8. \A l \in Links : BeginsAt(f, l, j) <=>
          \/ j > 1 /\ l = LinkAt(f, j, j - 1)
          \/ j < n /\ l = LinkAt(f, j, j + 1)
  BY <1>3 DEF BeginsAt, LinkAt
<1>9. j > 1 /\ j < n => LinkAt(f, j, j - 1) # LinkAt(f, j, j + 1)
  <2>1. j > 1 /\ j < n => Path[f][j - 1] # Path[f][j + 1]
    BY <1>1, <1>4, <1>5 DEF SimplePaths
  <2> QED
    BY <2>1 DEF LinkAt
<1> QED
  BY <1>1, <1>6, <1>7, <1>8, <1>9

\* If a step of flow f changes what counts only at place j, where the links have
\* changed their counts accordingly, then all counts are right.
LEMMA StepCounts ==
    ASSUME SimplePaths, LimitInv, NEW f \in Flows, NEW j \in 1 .. Len(Path[f]),
           NEW q, packet' = [packet EXCEPT ![f] = q],
           \A i \in 1 .. Len(Path[f]) : i # j => (CountsAt(q, i) <=> CountsAt(packet[f], i)),
           \A l \in Links : crl'[l].numFlows = crl[l].numFlows + Change(f, l, j, q)
    PROVE  FlowsCounted'
<1> SUFFICES ASSUME NEW l \in Links
             PROVE  crl'[l].numFlows = Cardinality(Counted(l)')
  BY DEF FlowsCounted
<1>1. /\ \A g \in Flows : g # f => packet'[g] = packet[g]
      /\ packet'[f] = q
  BY DEF LimitInv, Typed
<1>2. \A g \in Flows : g # f => (g \in Counted(l)' <=> g \in Counted(l))
  BY <1>1 DEF Counted
<1>3. Counted(l) \subseteq Flows /\ Counted(l)' \subseteq Flows
  BY DEF Counted
<1>4. IsFiniteSet(Counted(l)) /\ crl[l].numFlows = Cardinality(Counted(l))
  BY <1>3, FS_Subset DEF SimplePaths, LimitInv, FlowsCounted
<1>5. Cardinality(Counted(l)) \in Nat
  BY <1>4, FS_CardinalityType
<1>6. /\ f \in Counted(l) <=> \E i \in 1 .. Len(Path[f]) : BeginsAt(f, l, i) /\ CountsAt(packet[f], i)
      /\ f \in Counted(l)' <=> \E i \in 1 .. Len(Path[f]) : BeginsAt(f, l, i) /\ CountsAt(q, i)
  BY <1>1 DEF Counted
<1>7. CASE ~ BeginsAt(f, l, j)
  <2>1. f \in Counted(l)' <=> f \in Counted(l)
    BY <1>6, <1>7
  <2>2. Counted(l)' = Counted(l)
    <3>1. \A g \in Flows : g \in Counted(l)' <=> g \in Counted(l)
      BY <1>2, <2>1
    <3> QED
      BY <1>3, <3>1
  <2>3. Change(f, l, j, q) = 0
    BY <1>7 DEF Change
  <2> QED
    BY <1>4, <1>5, <2>2, <2>3
<1>8. CASE BeginsAt(f, l, j)
  <2>1. \A i \in 1 .. Len(Path[f]) : BeginsAt(f, l, i) => i = j
    BY <1>8 DEF BeginsAt, SimplePaths
  <2>2. /\ f \in Counted(l) <=> CountsAt(packet[f], j)
        /\ f \in Counted(l)' <=> CountsAt(q, j)
    BY <1>6, <1>8, <2>1
  <2>3. CASE CountsAt(q, j) <=> CountsAt(packet[f], j)
    <3>1. Counted(l)' = Counted(l)
      <4>1. \A g \in Flows : g \in Counted(l)' <=> g \in Counted(l)
        BY <1>2, <2>2, <2>3
      <4> QED
        BY <1>3, <4>1
    <3>2. Change(f, l, j, q) = 0
      BY <2>3 DEF Change
    <3> QED
      BY <1>4, <1>5, <3>1, <3>2
  <2>4. CASE CountsAt(q, j) /\ ~ CountsAt(packet[f], j)
    <3>1. Counted(l)' = Counted(l) \cup {f} /\ f \notin Counted(l)
      BY <1>2, <1>3, <2>2, <2>4
    <3>2. Change(f, l, j, q) = 1
      BY <1>8, <2>4 DEF Change
    <3>3. Cardinality(Counted(l)') = Cardinality(Counted(l)) + 1
      BY <1>4, <3>1, FS_AddElement
    <3> QED
      BY <1>4, <1>5, <3>2, <3>3
  <2>5. CASE ~ CountsAt(q, j) /\ CountsAt(packet[f], j)
    <3>1. Counted(l)' = Counted(l) \ {f} /\ f \in Counted(l)
      BY <1>2, <1>3, <2>2, <2>5
    <3>2. Change(f, l, j, q) = -1
      BY <1>8, <2>5 DEF Change
    <3>3. Cardinality(Counted(l)') = Cardinality(Counted(l)) - 1
      BY <1>4, <3>1, FS_RemoveElement
    <3> QED
      BY <1>4, <1>5, <3>2, <3>3
  <2> QED
    BY <2>3, <2>4, <2>5
<1> QED
  BY <1>7, <1>8
\* What a packet does to a link.
LEMMA UpdateCounts ==
    ASSUME NEW c \in LinkState, NEW p \in ControlPacket
    PROVE  Update(c, p) \in LinkState /\ Update(c, p).numFlows = CountFlow(c.numFlows, p)
<1>1. CountFlow(c.numFlows, p) \in Int
  BY DEF CountFlow, LinkState
<1>2. \A n \in Int : FutureRtt(n) \in Int
  BY LimitAssumption DEF FutureRtt
<1>3. \A a, b \in Int : Larger(a, b) \in Int
  BY DEF Larger
<1>4. p.rtt \in Int
  BY DEF ControlPacket
<1> QED
  BY <1>1, <1>2, <1>3, <1>4 DEF Update, LinkState

\* What it does to the one or two links of a node.
LEMMA AtEndCounts ==
    ASSUME crl \in [Links -> LinkState], NEW p \in ControlPacket, NEW k \in Links, AtEnd(p, k)
    PROVE  /\ crl' \in [Links -> LinkState]
           /\ \A l \in Links : crl'[l].numFlows =
                  IF l = k THEN CountFlow(crl[l].numFlows, p) ELSE crl[l].numFlows
<1>1. Update(crl[k], p) \in LinkState /\ Update(crl[k], p).numFlows = CountFlow(crl[k].numFlows, p)
  BY UpdateCounts
<1> QED
  BY <1>1 DEF AtEnd

LEMMA AtNodeCounts ==
    ASSUME crl \in [Links -> LinkState], NEW p \in ControlPacket,
           NEW k \in Links, NEW m \in Links, k # m, AtNode(p, k, m)
    PROVE  /\ crl' \in [Links -> LinkState]
           /\ \A l \in Links : crl'[l].numFlows =
                  IF l \in {k, m} THEN CountFlow(crl[l].numFlows, p) ELSE crl[l].numFlows
<1>1. \A l \in Links : /\ Update(crl[l], p) \in LinkState
                       /\ Update(crl[l], p).numFlows = CountFlow(crl[l].numFlows, p)
  BY UpdateCounts
<1> QED
  BY <1>1 DEF AtNode

LEMMA AtDestinationCounts ==
    ASSUME crl \in [Links -> LinkState], NEW p \in ControlPacket, NEW echo \in ControlPacket,
           NEW k \in Links, AtDestination(p, echo, k)
    PROVE  /\ crl' \in [Links -> LinkState]
           /\ \A l \in Links : crl'[l].numFlows =
                  IF l = k THEN CountFlow(CountFlow(crl[l].numFlows, p), echo)
                           ELSE crl[l].numFlows
<1>1. /\ Update(crl[k], p) \in LinkState
      /\ Update(crl[k], p).numFlows = CountFlow(crl[k].numFlows, p)
  BY UpdateCounts
<1>2. /\ Update(Update(crl[k], p), echo) \in LinkState
      /\ Update(Update(crl[k], p), echo).numFlows = CountFlow(CountFlow(crl[k].numFlows, p), echo)
  BY <1>1, UpdateCounts
<1> QED
  BY <1>2 DEF AtDestination
-----------------------------------------------------------------------------
(* The steps *)

LEMMA InitLimitInv == SimplePaths /\ Init => LimitInv
<1> SUFFICES ASSUME SimplePaths, Init
             PROVE  LimitInv
  OBVIOUS
<1>1. Typed
  BY DEF Init, Typed, Packet, ControlPacket, Type, LinkState
<1>2. \A f \in Flows : PlaceFits(packet[f], Len(Path[f]))
  BY DEF Init, Packet, PlaceFits
<1>3. FlowsCounted
  <2> SUFFICES ASSUME NEW l \in Links
               PROVE  crl[l].numFlows = Cardinality(Counted(l))
    BY DEF FlowsCounted
  <2>1. Counted(l) = {}
    BY DEF Init, Packet, Counted, CountsAt
  <2> QED
    BY <2>1, FS_EmptySet DEF Init
<1> QED
  BY <1>1, <1>2, <1>3 DEF LimitInv

\* The packet of a flow becomes q, at its place.
LEMMA PacketKeeps ==
    ASSUME LimitInv, NEW f \in Flows, NEW q \in ControlPacket, PlaceFits(q, Len(Path[f])),
           packet' = [packet EXCEPT ![f] = q],
           crl' \in [Links -> LinkState], FlowsCounted'
    PROVE  LimitInv'
<1>1. Typed'
  BY DEF LimitInv, Typed
<1>2. \A g \in Flows : PlaceFits(packet'[g], Len(Path[g]))
  BY DEF LimitInv, Typed
<1> QED
  BY <1>1, <1>2 DEF LimitInv
\* The source sends a SYN, or its held packet.
LEMMA SendKeeps ==
    ASSUME SimplePaths, LimitInv, NEW f \in Flows, NEW p \in ControlPacket, Send(f, p),
           \/ p.type = "CTRL_SYN" /\ packet[f].type = "none"
           \/ p.type = "CTRL" /\ packet[f].type = "CTRL"
    PROVE  LimitInv'
<1> DEFINE q == [p EXCEPT !.from = 1, !.to = 2]
           k == LinkAt(f, 1, 2)
<1>1. 1 \in 1 .. Len(Path[f]) /\ Len(Path[f]) \in Nat /\ 1 < Len(Path[f]) /\ ~ (1 > 1)
      /\ 1 + 1 = 2
  BY LimitAssumption DEF SimplePaths
<1>2. k \in Links /\ \A l \in Links : BeginsAt(f, l, 1) <=> l = k
  BY <1>1, LinksOfPath
<1>3. /\ q \in ControlPacket /\ q.type = p.type /\ q.from = 1 /\ q.to = 2
      /\ packet' = [packet EXCEPT ![f] = q] /\ AtEnd(p, k)
  BY DEF Send, ControlPacket
<1> HIDE DEF q, k
<1>4. PlaceFits(q, Len(Path[f]))
  BY <1>1, <1>3 DEF PlaceFits
<1>5. /\ crl' \in [Links -> LinkState]
      /\ \A l \in Links : crl'[l].numFlows =
             IF l = k THEN CountFlow(crl[l].numFlows, p) ELSE crl[l].numFlows
  BY <1>2, <1>3, AtEndCounts DEF LimitInv, Typed
<1>6. \A l \in Links : crl[l].numFlows \in Int
  BY DEF LimitInv, Typed, LinkState
<1>7. \A i \in 1 .. Len(Path[f]) : i # 1 => (CountsAt(q, i) <=> CountsAt(packet[f], i))
  BY <1>3 DEF CountsAt
<1>8. \A l \in Links : crl'[l].numFlows = crl[l].numFlows + Change(f, l, 1, q)
  <2>1. CASE p.type = "CTRL_SYN"
    <3>1. CountsAt(q, 1) /\ ~ CountsAt(packet[f], 1) /\ \A n : CountFlow(n, p) = n + 1
      BY <1>3, <2>1 DEF CountsAt, CountFlow
    <3> QED
      BY <1>2, <1>5, <1>6, <3>1 DEF Change
  <2>2. CASE p.type = "CTRL"
    <3>1. CountsAt(q, 1) /\ CountsAt(packet[f], 1) /\ \A n : CountFlow(n, p) = n
      BY <1>3, <2>2 DEF CountsAt, CountFlow
    <3> QED
      BY <1>5, <1>6, <3>1 DEF Change
  <2> QED
    BY <2>1, <2>2
<1>9. FlowsCounted'
  BY <1>1, <1>3, <1>7, <1>8, StepCounts
<1> QED
  BY <1>3, <1>4, <1>5, <1>9, PacketKeeps

\* A node between passes the packet on, in either direction.
LEMMA ForwardKeeps == ASSUME SimplePaths, LimitInv, NEW f \in Flows, Forward(f)
                      PROVE  LimitInv'
<1> DEFINE p == packet[f]
           j == p.to
           next == IF p.from < p.to THEN p.to + 1 ELSE p.to - 1
           q == [p EXCEPT !.from = j, !.to = next]
           from == LinkAt(f, j, p.from)
           to == LinkAt(f, j, next)
           n == Len(Path[f])
<1>1. p \in ControlPacket /\ PlaceFits(p, n) /\ n \in Nat
  BY LimitAssumption DEF LimitInv, Typed, SimplePaths
<1>2. /\ j \in 2 .. n - 1 /\ j \in 1 .. n /\ j > 1 /\ j < n
      /\ AtNode(p, from, to) /\ packet' = [packet EXCEPT ![f] = q]
  BY <1>1 DEF Forward
<1>3. /\ p.type \in {"CTRL_SYN", "CTRL", "CTRL_SYN_REV", "CTRL_REV"}
      /\ p.type \in {"CTRL_SYN", "CTRL"} => p.from = j - 1 /\ next = j + 1
      /\ p.type \in {"CTRL_SYN_REV", "CTRL_REV"} => p.from = j + 1 /\ next = j - 1
  BY <1>1, <1>2 DEF PlaceFits, ControlPacket, Type
<1>4. /\ q \in ControlPacket /\ q.type = p.type /\ q.from = j /\ q.to = next
      /\ q.exit = p.exit
  <2>1. next \in Nat /\ j \in Nat
    BY <1>1, <1>2 DEF ControlPacket
  <2> QED
    BY <1>1, <2>1 DEF ControlPacket
<1> HIDE DEF q, next, j, p, n
<1>5. /\ from \in Links /\ to \in Links /\ from # to
      /\ \A l \in Links : BeginsAt(f, l, j) <=> l \in {from, to}
  <2>1. \/ p.from = j - 1 /\ next = j + 1
        \/ p.from = j + 1 /\ next = j - 1
    BY <1>3
  <2> QED
    BY <1>2, <2>1, LinksOfPath DEF n
<1> HIDE DEF from, to
<1>6. PlaceFits(q, n)
  BY <1>1, <1>2, <1>3, <1>4 DEF PlaceFits
<1>7. /\ crl' \in [Links -> LinkState]
      /\ \A l \in Links : crl'[l].numFlows =
             IF l \in {from, to} THEN CountFlow(crl[l].numFlows, p) ELSE crl[l].numFlows
  BY <1>1, <1>2, <1>5, AtNodeCounts DEF LimitInv, Typed
<1>8. \A l \in Links : crl[l].numFlows \in Int
  BY DEF LimitInv, Typed, LinkState
<1>9. \A i \in 1 .. n : i # j => (CountsAt(q, i) <=> CountsAt(p, i))
  BY <1>1, <1>2, <1>3, <1>4 DEF CountsAt, j
<1>10. \A l \in Links : crl'[l].numFlows = crl[l].numFlows + Change(f, l, j, q)
  <2>1. CASE p.type = "CTRL_SYN"
    <3>1. CountsAt(q, j) /\ ~ CountsAt(p, j) /\ \A c : CountFlow(c, p) = c + 1
      BY <1>2, <1>3, <1>4, <2>1 DEF CountsAt, CountFlow, j
    <3> QED
      BY <1>5, <1>7, <1>8, <3>1 DEF Change, p
  <2>2. CASE p.type = "CTRL_REV" /\ p.exit
    <3>1. ~ CountsAt(q, j) /\ CountsAt(p, j) /\ \A c : CountFlow(c, p) = c - 1
      BY <1>2, <1>3, <1>4, <2>2 DEF CountsAt, CountFlow, j
    <3> QED
      BY <1>5, <1>7, <1>8, <3>1 DEF Change, p
  <2>3. CASE p.type # "CTRL_SYN" /\ ~ (p.type = "CTRL_REV" /\ p.exit)
    <3>1. CountsAt(q, j) /\ CountsAt(p, j) /\ \A c : CountFlow(c, p) = c
      BY <1>3, <1>4, <2>3 DEF CountsAt, CountFlow
    <3> QED
      BY <1>7, <1>8, <3>1 DEF Change, p
  <2> QED
    BY <2>1, <2>2, <2>3
<1>11. FlowsCounted'
  BY <1>2, <1>9, <1>10, StepCounts DEF p, n
<1> QED
  BY <1>2, <1>4, <1>6, <1>7, <1>11, PacketKeeps DEF n

\* Only a packet on its way out is at the last node.
LEMMA OutwardAtLast == ASSUME NEW p \in ControlPacket, NEW n \in Nat, n >= 2,
                              PlaceFits(p, n), p.to = n
                       PROVE  p.type \in {"CTRL_SYN", "CTRL"}
<1>1. p.type \notin {"none", "over"}
  <2> SUFFICES ASSUME p.type \in {"none", "over"} PROVE FALSE
    OBVIOUS
  <2> QED
    BY DEF PlaceFits
<1>2. p.type \notin {"CTRL_SYN_REV", "CTRL_REV"}
  <2> SUFFICES ASSUME p.type \in {"CTRL_SYN_REV", "CTRL_REV"} PROVE FALSE
    OBVIOUS
  <2> QED
    BY DEF PlaceFits
<1> QED
  BY <1>1, <1>2 DEF ControlPacket, Type

\* A new window leaves the count of flows alone.
LEMMA NextWindowFits == ASSUME NEW c \in LinkState
                        PROVE  NextWindow(c) \in LinkState /\ NextWindow(c).numFlows = c.numFlows
<1>1. c.numFlows \in Int /\ c.nextMaxRtt \in Int /\ c.nextMaxFutureRtt \in Int
  BY DEF LinkState
<1> DEFINE c1 == [c EXCEPT !.maxRtt = c.nextMaxRtt]
           c2 == [c1 EXCEPT !.nextMaxRtt = 0]
           c3 == [c2 EXCEPT !.maxFutureRtt = c.nextMaxFutureRtt]
           c4 == [c3 EXCEPT !.nextMaxFutureRtt = 0]
           c5 == [c4 EXCEPT !.resets = TRUE]
<1>2. c1 \in LinkState /\ c1.numFlows = c.numFlows
  BY <1>1 DEF LinkState
<1> HIDE DEF c1
<1>3. c2 \in LinkState /\ c2.numFlows = c.numFlows
  BY <1>2 DEF LinkState
<1> HIDE DEF c2
<1>4. c3 \in LinkState /\ c3.numFlows = c.numFlows
  BY <1>1, <1>3 DEF LinkState
<1> HIDE DEF c3
<1>5. c4 \in LinkState /\ c4.numFlows = c.numFlows
  BY <1>4 DEF LinkState
<1> HIDE DEF c4
<1>6. c5 \in LinkState /\ c5.numFlows = c.numFlows
  BY <1>5 DEF LinkState
<1>7. NextWindow(c) = c5
  BY Zenon DEF NextWindow, c1, c2, c3, c4
<1> QED
  BY <1>6, <1>7

\* The destination's node and agent.
LEMMA EchoKeeps == ASSUME SimplePaths, LimitInv, NEW f \in Flows, Echo(f)
                   PROVE  LimitInv'
<1> DEFINE p == packet[f]
           n == Len(Path[f])
           echo == [p EXCEPT !.type = RevType(@)]
           q == [echo EXCEPT !.from = n, !.to = n - 1]
           k == LinkAt(f, n, n - 1)
<1>1. p \in ControlPacket /\ PlaceFits(p, n) /\ n \in Nat /\ n >= 2 /\ n \in 1 .. n /\ n > 1 /\ ~ (n < n)
  BY LimitAssumption DEF LimitInv, Typed, SimplePaths
<1>2. p.to = n /\ AtDestination(p, echo, k) /\ packet' = [packet EXCEPT ![f] = q]
  BY DEF Echo
<1>3. p.type \in {"CTRL_SYN", "CTRL"}
  BY <1>1, <1>2, OutwardAtLast
<1>4. /\ echo \in ControlPacket /\ echo.type = RevType(p.type) /\ echo.exit = p.exit
      /\ q \in ControlPacket /\ q.type = RevType(p.type) /\ q.exit = p.exit
      /\ q.from = n /\ q.to = n - 1
      /\ RevType(p.type) = IF p.type = "CTRL_SYN" THEN "CTRL_SYN_REV" ELSE "CTRL_REV"
  <2>1. RevType(p.type) \in Type /\ n - 1 \in Nat
    BY <1>1 DEF RevType, Type
  <2> QED
    BY <1>1, <2>1 DEF ControlPacket, RevType
<1>5. k \in Links /\ \A l \in Links : BeginsAt(f, l, n) <=> l = k
  BY <1>1, LinksOfPath
<1> HIDE DEF q, echo, k, p, n
<1>6. PlaceFits(q, n)
  BY <1>1, <1>3, <1>4 DEF PlaceFits
<1>7. /\ crl' \in [Links -> LinkState]
      /\ \A l \in Links : crl'[l].numFlows =
             IF l = k THEN CountFlow(CountFlow(crl[l].numFlows, p), echo) ELSE crl[l].numFlows
  BY <1>1, <1>2, <1>4, <1>5, AtDestinationCounts DEF LimitInv, Typed
<1>8. \A l \in Links : crl[l].numFlows \in Int
  BY DEF LimitInv, Typed, LinkState
<1>9. \A i \in 1 .. n : i # n => (CountsAt(q, i) <=> CountsAt(p, i))
  BY <1>1, <1>2, <1>3, <1>4 DEF CountsAt
<1>10. \A l \in Links : crl'[l].numFlows = crl[l].numFlows + Change(f, l, n, q)
  <2>1. CASE p.type = "CTRL_SYN"
    <3>1. CountsAt(q, n) /\ ~ CountsAt(p, n)
      BY <1>1, <1>2, <1>4, <2>1 DEF CountsAt
    <3>2. \A c : CountFlow(CountFlow(c, p), echo) = c + 1
      BY <1>4, <2>1 DEF CountFlow
    <3> QED
      BY <1>5, <1>7, <1>8, <3>1, <3>2 DEF Change, p
  <2>2. CASE p.type = "CTRL" /\ p.exit
    <3>1. ~ CountsAt(q, n) /\ CountsAt(p, n)
      BY <1>1, <1>2, <1>4, <2>2 DEF CountsAt
    <3>2. \A c : CountFlow(CountFlow(c, p), echo) = c - 1
      BY <1>4, <2>2 DEF CountFlow
    <3> QED
      BY <1>5, <1>7, <1>8, <3>1, <3>2 DEF Change, p
  <2>3. CASE p.type = "CTRL" /\ ~ p.exit
    <3>1. CountsAt(q, n) /\ CountsAt(p, n)
      BY <1>4, <2>3 DEF CountsAt
    <3>2. \A c : CountFlow(CountFlow(c, p), echo) = c
      BY <1>4, <2>3 DEF CountFlow
    <3> QED
      BY <1>7, <1>8, <3>1, <3>2 DEF Change, p
  <2> QED
    BY <1>3, <2>1, <2>2, <2>3
<1>11. FlowsCounted'
  BY <1>1, <1>2, <1>9, <1>10, StepCounts DEF p, n
<1> QED
  BY <1>2, <1>4, <1>6, <1>7, <1>11, PacketKeeps DEF n

\* The source's node and agent.
LEMMA ReturnKeeps == ASSUME SimplePaths, LimitInv, NEW f \in Flows, Return(f)
                     PROVE  LimitInv'
<1> DEFINE p == packet[f]
           k == LinkAt(f, 1, 2)
<1>1. p \in ControlPacket /\ PlaceFits(p, Len(Path[f]))
      /\ 1 \in 1 .. Len(Path[f]) /\ Len(Path[f]) \in Nat /\ 1 < Len(Path[f]) /\ ~ (1 > 1) /\ 1 + 1 = 2
  BY LimitAssumption DEF LimitInv, Typed, SimplePaths
<1>2. k \in Links /\ \A l \in Links : BeginsAt(f, l, 1) <=> l = k
  BY <1>1, LinksOfPath
<1>3. p.type \in {"CTRL_SYN_REV", "CTRL_REV"} /\ p.to = 1 /\ AtEnd(p, k)
  BY <1>1 DEF Return, PlaceFits, ControlPacket, Type
<1>4. PICK q \in ControlPacket :
          /\ packet' = [packet EXCEPT ![f] = q]
          /\ q.from = 0 /\ q.to = 1
          /\ p.exit => q.type = "over" /\ (q.exit <=> p.type = "CTRL_SYN_REV")
          /\ ~ p.exit => q.type = "CTRL"
  <2>1. CASE p.exit
    <3> DEFINE q == Packet("over", p.type = "CTRL_SYN_REV", 0)
    <3>1. packet' = [packet EXCEPT ![f] = q]
      BY <2>1 DEF Return
    <3>2. q \in ControlPacket /\ q.from = 0 /\ q.to = 1 /\ q.type = "over"
          /\ (q.exit <=> p.type = "CTRL_SYN_REV")
      BY DEF Packet, ControlPacket, Type
    <3> QED
      BY <2>1, <3>1, <3>2
  <2>2. CASE ~ p.exit
    <3>1. PICK over \in BOOLEAN : packet' = [packet EXCEPT ![f] = Packet("CTRL", over, RoundTrip[f])]
      BY <2>2 DEF Return
    <3> DEFINE q == Packet("CTRL", over, RoundTrip[f])
    <3>2. q \in ControlPacket /\ q.from = 0 /\ q.to = 1 /\ q.type = "CTRL"
      BY LimitAssumption DEF Packet, ControlPacket, Type
    <3> QED
      BY <2>2, <3>1, <3>2
  <2> QED
    BY <2>1, <2>2
<1> HIDE DEF k, p
<1>5. PlaceFits(q, Len(Path[f]))
  BY <1>1, <1>4 DEF PlaceFits
<1>6. /\ crl' \in [Links -> LinkState]
      /\ \A l \in Links : crl'[l].numFlows =
             IF l = k THEN CountFlow(crl[l].numFlows, p) ELSE crl[l].numFlows
  BY <1>1, <1>2, <1>3, AtEndCounts DEF LimitInv, Typed
<1>7. \A l \in Links : crl[l].numFlows \in Int
  BY DEF LimitInv, Typed, LinkState
<1>8. \A i \in 1 .. Len(Path[f]) : i # 1 => (CountsAt(q, i) <=> CountsAt(p, i))
  BY <1>1, <1>3, <1>4 DEF CountsAt
<1>9. \A l \in Links : crl'[l].numFlows = crl[l].numFlows + Change(f, l, 1, q)
  <2>1. CASE p.type = "CTRL_REV" /\ p.exit
    <3>1. ~ CountsAt(q, 1) /\ CountsAt(p, 1) /\ \A n : CountFlow(n, p) = n - 1
      BY <1>3, <1>4, <2>1 DEF CountsAt, CountFlow
    <3> QED
      BY <1>2, <1>6, <1>7, <3>1 DEF Change, p
  <2>2. CASE ~ (p.type = "CTRL_REV" /\ p.exit)
    <3>1. CountsAt(q, 1) /\ CountsAt(p, 1) /\ \A n : CountFlow(n, p) = n
      BY <1>3, <1>4, <2>2 DEF CountsAt, CountFlow
    <3> QED
      BY <1>6, <1>7, <3>1 DEF Change, p
  <2> QED
    BY <2>1, <2>2
<1>10. FlowsCounted'
  BY <1>1, <1>4, <1>8, <1>9, StepCounts DEF p
<1> QED
  BY <1>4, <1>5, <1>6, <1>10, PacketKeeps

LEMMA NextLimitInv == SimplePaths /\ LimitInv /\ [Next]_vars => LimitInv'
<1> SUFFICES ASSUME SimplePaths, LimitInv, [Next]_vars
             PROVE  LimitInv'
  OBVIOUS
<1>1. ASSUME NEW f \in Flows, Start(f)
      PROVE  LimitInv'
  <2>1. PICK exit \in BOOLEAN : Send(f, Packet("CTRL_SYN", exit, 0))
    BY <1>1 DEF Start
  <2>2. /\ Packet("CTRL_SYN", exit, 0) \in ControlPacket
        /\ Packet("CTRL_SYN", exit, 0).type = "CTRL_SYN"
    BY DEF Packet, ControlPacket, Type
  <2> QED
    BY <1>1, <2>1, <2>2, SendKeeps DEF Start
<1>2. ASSUME NEW f \in Flows, SendCtrl(f)
      PROVE  LimitInv'
  BY <1>2, SendKeeps DEF SendCtrl, LimitInv, Typed
<1>3. ASSUME NEW k \in Links, ResetMaxRtt(k)
      PROVE  LimitInv'
  <2>1. NextWindow(crl[k]) \in LinkState /\ NextWindow(crl[k]).numFlows = crl[k].numFlows
    BY NextWindowFits DEF LimitInv, Typed
  <2>2. /\ crl' \in [Links -> LinkState] /\ packet' = packet
        /\ \A l \in Links : crl'[l].numFlows = crl[l].numFlows
    BY <1>3, <2>1 DEF ResetMaxRtt, LimitInv, Typed
  <2>3. FlowsCounted'
    BY <2>2 DEF LimitInv, FlowsCounted, Counted
  <2> QED
    BY <2>2, <2>3 DEF LimitInv, Typed
<1>4. CASE UNCHANGED vars
  BY <1>4 DEF vars, LimitInv, Typed, FlowsCounted, Counted
<1> QED
  BY <1>1, <1>2, <1>3, <1>4, ForwardKeeps, EchoKeeps, ReturnKeeps DEF Next

\* In any network and whatever starts and ends at once, a link counts each of
\* its flows once, from its SYN to its exit packet's return, on paths that visit
\* no node twice.
THEOREM FlowsAlwaysCounted == SimplePaths => (Spec => []FlowsCounted)
<1> SUFFICES ASSUME SimplePaths PROVE Spec => []FlowsCounted
  OBVIOUS
<1>1. Init => LimitInv
  BY InitLimitInv
<1>2. LimitInv /\ [Next]_vars => LimitInv'
  BY NextLimitInv
<1>3. LimitInv => FlowsCounted
  BY DEF LimitInv
<1> QED
  BY <1>1, <1>2, <1>3, PTL DEF Spec
=============================================================================
