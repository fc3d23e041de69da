--------------------------- MODULE SpercQueueProofs ---------------------------
(***************************************************************************)
(* Proofs about SpercQueue: no control packet is dropped and the link is    *)
(* never idle while one waits, for any number of flows and any sizes that   *)
(* satisfy QueueAssumption; and no priority takes more than its part.       *)
(***************************************************************************)
EXTENDS SpercQueue, FiniteSetTheorems, TLAPS

\* The largest packet of data.
Largest(max) == max \in DataSizes /\ \A size \in DataSizes : size <= max

Packets == [flow : Flows, prio : Prios, size : Nat \ {0}]

\* Every packet of q has a slot of its own among the w of its flow.
Slotting(q, F, w) ==
    {slot \in [1 .. Len(q) -> F \X (1 .. w)] :
        /\ \A i, j \in 1 .. Len(q) : slot[i] = slot[j] => i = j
        /\ \A i \in 1 .. Len(q) : slot[i][1] = q[i].flow}

HasSlots(q, F, w) == Slotting(q, F, w) # {}

\* The slots that f has left.
FreeSlots(q, slot, f, w) == {s \in 1 .. w : \A i \in 1 .. Len(q) : slot[i] # <<f, s>>}

\* The packets of a flow in q.
Of(q, f) == {i \in 1 .. Len(q) : q[i].flow = f}

\* It has fewer than w there.
Room(q, f, w) == Cardinality(Of(q, f)) < w

\* b counts the bytes of q.
Counts(q, b) == IsFiniteSet(Bytes(q)) /\ b = Cardinality(Bytes(q))

\* The packets of q are those that the flows F may have there, at most w each, of
\* at most max bytes each, and b is the sum of their sizes.
QueueFits(q, b, F, w, max) ==
    /\ HasSlots(q, F, w)
    /\ \A i \in 1 .. Len(q) : q[i].size <= max
    /\ Counts(q, b)

\* All of a queue's packets and counters, if max is the largest packet of data.
AllFit(q, b, max) ==
    /\ q \in [Prios -> Seq(Packets)] /\ b \in [Prios -> Int]
    /\ QueueFits(q[1], b[1], Short, Window, max)
    /\ QueueFits(q[2], b[2], Flows, 1, CtrlSize)

\* A busy link has a packet.
BusyLine == blocked_ => line # NoPacket

QueueInv(max) ==
    /\ AllFit(q_, bytes_, max)
    /\ NoControlDropped
    /\ NeverIdle
    /\ BusyLine
-----------------------------------------------------------------------------
(* A queue *)

\* What the operators on sequences do to a queue of packets.
LEMMA AppendFacts ==
    ASSUME NEW q \in Seq(Packets), NEW p \in Packets
    PROVE  /\ Append(q, p) \in Seq(Packets)
           /\ Len(q) \in Nat /\ Len(Append(q, p)) = Len(q) + 1
           /\ \A i \in 1 .. Len(q) : Append(q, p)[i] = q[i]
           /\ Append(q, p)[Len(q) + 1] = p
OBVIOUS

\* What is left when the first packet is taken.
LEMMA TailFacts ==
    ASSUME NEW q \in Seq(Packets), q # <<>>
    PROVE  /\ Len(q) \in Nat /\ Len(q) > 0
           /\ Head(q) \in Packets /\ Head(q) = q[1]
           /\ Tail(q) \in Seq(Packets) /\ Len(Tail(q)) = Len(q) - 1
           /\ \A i \in 1 .. Len(Tail(q)) : Tail(q)[i] = q[i + 1]
OBVIOUS

\* What is a byte of a queue.
LEMMA ByteFacts ==
    ASSUME NEW q
    PROVE  /\ \A x \in Bytes(q) : /\ x[1] \in 1 .. Len(q) /\ x = <<x[1], x[2]>>
                                 /\ x[2] \in 1 .. q[x[1]].size
           /\ \A k \in 1 .. Len(q) : \A n \in 1 .. q[k].size : <<k, n>> \in Bytes(q)
BY DEF Bytes

\* Packets that have slots of their own are bounded by the slots, and so are their
\* bytes.
LEMMA BytesBound ==
    ASSUME NEW q \in Seq(Packets), NEW b, NEW F, IsFiniteSet(F), NEW w \in Nat, NEW max \in Nat,
           QueueFits(q, b, F, w, max)
    PROVE  /\ IsFiniteSet(Bytes(q))
           /\ b \in Nat
           /\ b <= Cardinality(F) * w * max
<1> DEFINE Slots == F \X (1 .. w)
           T == Slots \X (1 .. max)
<1>1. /\ IsFiniteSet(1 .. w) /\ Cardinality(1 .. w) = w
      /\ IsFiniteSet(1 .. max) /\ Cardinality(1 .. max) = max
  BY FS_Interval
<1>2. IsFiniteSet(Slots) /\ Cardinality(Slots) = Cardinality(F) * w
  BY <1>1, FS_Product
<1>3. IsFiniteSet(T) /\ Cardinality(T) = Cardinality(F) * w * max
  <2> HIDE DEF Slots
  <2>1. IsFiniteSet(T) /\ Cardinality(T) = Cardinality(Slots) * Cardinality(1 .. max)
    BY <1>1, <1>2, FS_Product
  <2> QED
    BY <1>1, <1>2, <2>1
<1>4. PICK slot \in [1 .. Len(q) -> Slots] :
          \A i, j \in 1 .. Len(q) : slot[i] = slot[j] => i = j
  BY DEF QueueFits, HasSlots, Slotting
<1> HIDE DEF Slots
<1> DEFINE place == [x \in Bytes(q) |-> <<slot[x[1]], x[2]>>]
<1>5. \A x \in Bytes(q) : /\ x[1] \in 1 .. Len(q) /\ x[2] \in 1 .. max
                          /\ x = <<x[1], x[2]>>
  <2> TAKE x \in Bytes(q)
  <2>1. x[1] \in 1 .. Len(q) /\ x = <<x[1], x[2]>> /\ x[2] \in 1 .. q[x[1]].size
    BY ByteFacts
  <2>2. x[1] \in 1 .. Len(q)
    BY <2>1
  <2>3. q[x[1]] \in Packets /\ q[x[1]].size <= max
    BY <2>2 DEF QueueFits
  <2>4. q[x[1]].size \in Nat
    BY <2>3 DEF Packets
  <2> QED
    BY <2>1, <2>2, <2>3, <2>4
<1>6. place \in Injection(Bytes(q), T)
  <2>1. \A x \in Bytes(q) : place[x] \in T
    BY <1>4, <1>5
  <2>2. \A x, y \in Bytes(q) : place[x] = place[y] => x = y
    BY <1>4, <1>5
  <2> QED
    BY <2>1, <2>2 DEF Injection, IsInjective
<1>7. IsFiniteSet(Bytes(q)) /\ Cardinality(Bytes(q)) <= Cardinality(T)
  BY <1>3, <1>6, FS_Injection
<1>8. Cardinality(Bytes(q)) \in Nat
  BY <1>7, FS_CardinalityType
<1> QED
  BY <1>3, <1>7, <1>8 DEF QueueFits, Counts

\* Of a flow that has fewer packets than slots one is free.
LEMMA FreeSlot ==
    ASSUME NEW q \in Seq(Packets), NEW f, NEW F, NEW w \in Nat,
           NEW slot \in Slotting(q, F, w),
           Room(q, f, w)
    PROVE  FreeSlots(q, slot, f, w) # {}
<1> DEFINE I == Of(q, f)
           S == {slot[i][2] : i \in I}
           g == [i \in I |-> slot[i][2]]
<1> USE DEF Slotting
<1>1. IsFiniteSet(I)
  <2>1. IsFiniteSet(1 .. Len(q))
    BY FS_Interval
  <2> QED
    BY <2>1, FS_Subset DEF Of
<1>2. g \in Surjection(I, S)
  <2>1. g \in [I -> S] /\ \A t \in S : \E i \in I : t = slot[i][2]
    OBVIOUS
  <2>2. \A t \in S : \E i \in I : g[i] = t
    BY <2>1
  <2> HIDE DEF g, S, I
  <2> QED
    BY <2>1, <2>2 DEF Surjection
<1>3. IsFiniteSet(S) /\ Cardinality(S) <= Cardinality(I)
  <2> HIDE DEF g, S, I
  <2> QED
    BY <1>1, <1>2, FS_Surjection
<1>4. Cardinality(I) \in Nat /\ Cardinality(S) \in Nat
  BY <1>1, <1>3, FS_CardinalityType
<1>5. Cardinality(1 .. w) = w
  BY FS_Interval
<1>6. S # 1 .. w
  <2> HIDE DEF S
  <2> QED
    BY <1>3, <1>4, <1>5 DEF Room
<1>7. S \subseteq 1 .. w
  BY DEF Of
<1>8. PICK s \in 1 .. w : s \notin S
  BY <1>6, <1>7
<1>9. \A i \in 1 .. Len(q) : slot[i] # <<f, s>>
  <2> SUFFICES ASSUME NEW i \in 1 .. Len(q), slot[i] = <<f, s>>
               PROVE  FALSE
    OBVIOUS
  <2>1. i \in I /\ slot[i][2] = s
    BY DEF Of
  <2> QED
    BY <1>8, <2>1
<1> QED
  BY <1>9 DEF FreeSlots

\* The bytes of one packet.
LEMMA BytesOfOne ==
    ASSUME NEW n, NEW size \in Nat
    PROVE  /\ IsFiniteSet({n} \X (1 .. size))
           /\ Cardinality({n} \X (1 .. size)) = size
<1>1. IsFiniteSet({n}) /\ Cardinality({n}) = 1
  BY FS_Singleton
<1>2. IsFiniteSet(1 .. size) /\ Cardinality(1 .. size) = size
  BY FS_Interval
<1>3. /\ IsFiniteSet({n} \X (1 .. size))
      /\ Cardinality({n} \X (1 .. size)) = Cardinality({n}) * Cardinality(1 .. size)
  BY <1>1, <1>2, FS_Product
<1> QED
  BY <1>1, <1>2, <1>3

\* An empty queue has no bytes.
LEMMA EmptyCounts == Counts(<<>>, 0)
<1>1. 1 .. Len(<<>>) = {}
  OBVIOUS
<1>2. Bytes(<<>>) = {}
  BY <1>1 DEF Bytes
<1> QED
  BY <1>2, FS_EmptySet DEF Counts

\* The counter of a queue that a packet joins goes up by its size,
LEMMA AppendCounts ==
    ASSUME NEW q \in Seq(Packets), NEW p \in Packets, NEW b, Counts(q, b)
    PROVE  Counts(Append(q, p), b + p.size)
<1> DEFINE t == Append(q, p)
           n == Len(q) + 1
           New == {n} \X (1 .. p.size)
<1>1. /\ t \in Seq(Packets) /\ Len(q) \in Nat /\ Len(t) = n
      /\ \A i \in 1 .. Len(q) : t[i] = q[i]
      /\ t[n] = p
      /\ p.size \in Nat
  BY AppendFacts DEF Packets
<1> HIDE DEF t
<1>2. 1 .. n = (1 .. Len(q)) \cup {n} /\ n \notin 1 .. Len(q) /\ n \in Nat
  BY <1>1
<1>3. Bytes(t) = Bytes(q) \cup New
  <2> HIDE DEF n
  <2>1. \A x \in Bytes(t) : x \in Bytes(q) \cup New
    BY <1>1, <1>2, ByteFacts
  <2>2. \A x \in Bytes(q) : x \in Bytes(t)
    BY <1>1, <1>2, ByteFacts
  <2>3. \A x \in New : x \in Bytes(t)
    BY <1>1, <1>2, ByteFacts
  <2> QED
    BY <2>1, <2>2, <2>3
<1>4. Bytes(q) \cap New = {}
  BY <1>2, ByteFacts
<1>5. IsFiniteSet(Bytes(q)) /\ b = Cardinality(Bytes(q)) /\ b \in Nat
  BY FS_CardinalityType DEF Counts
<1>6. IsFiniteSet(New) /\ Cardinality(New) = p.size
  BY <1>1, BytesOfOne
<1>7. Cardinality({}) = 0
  BY FS_EmptySet
<1> HIDE DEF New, n
<1>8. /\ IsFiniteSet(Bytes(q) \cup New)
      /\ Cardinality(Bytes(q) \cup New) =
            Cardinality(Bytes(q)) + Cardinality(New) - Cardinality(Bytes(q) \cap New)
  BY <1>5, <1>6, FS_Union
<1>9. Cardinality(Bytes(q) \cap New) = 0
  BY <1>4, <1>7
<1>10. IsFiniteSet(Bytes(t)) /\ b + p.size = Cardinality(Bytes(t))
  BY <1>1, <1>3, <1>5, <1>6, <1>8, <1>9
<1> QED
  BY <1>10 DEF Counts, t

\* and goes down by that of the packet which leaves.
LEMMA TailCounts ==
    ASSUME NEW q \in Seq(Packets), q # <<>>, NEW b, Counts(q, b)
    PROVE  Counts(Tail(q), b - Head(q).size)
<1> DEFINE t == Tail(q)
           size == q[1].size
           First == {1} \X (1 .. size)
           shift == [x \in Bytes(t) |-> <<x[1] + 1, x[2]>>]
<1>1. /\ Len(q) \in Nat /\ Len(q) > 0 /\ Head(q) = q[1]
      /\ t \in Seq(Packets) /\ Len(t) = Len(q) - 1 /\ Len(t) \in Nat
      /\ \A i \in 1 .. Len(t) : t[i] = q[i + 1]
  BY TailFacts
<1>2. size \in Nat
  BY <1>1, TailFacts DEF Packets
<1> HIDE DEF t
<1>3. \A i \in 1 .. Len(t) : i + 1 \in 1 .. Len(q)
  BY <1>1
<1>4. First \subseteq Bytes(q)
  BY <1>1, <1>2, ByteFacts
<1>5. \A x \in Bytes(t) : shift[x] \in Bytes(q) \ First
  <2> SUFFICES ASSUME NEW x \in Bytes(t)
               PROVE  <<x[1] + 1, x[2]>> \in Bytes(q) \ First
    OBVIOUS
  <2>1. x[1] \in 1 .. Len(t) /\ x[2] \in 1 .. t[x[1]].size
    BY ByteFacts
  <2>2. x[1] + 1 \in 1 .. Len(q) /\ x[1] + 1 # 1 /\ t[x[1]] = q[x[1] + 1]
    BY <1>1, <1>3, <2>1
  <2> QED
    BY <2>1, <2>2, ByteFacts
<1>6. \A x, y \in Bytes(t) : shift[x] = shift[y] => x = y
  <2> SUFFICES ASSUME NEW x \in Bytes(t), NEW y \in Bytes(t), shift[x] = shift[y]
               PROVE  x = y
    OBVIOUS
  <2>1. x[1] + 1 = y[1] + 1 /\ x[2] = y[2]
    OBVIOUS
  <2>2. x[1] \in 1 .. Len(t) /\ y[1] \in 1 .. Len(t) /\ x = <<x[1], x[2]>> /\ y = <<y[1], y[2]>>
    BY ByteFacts
  <2>3. x[1] = y[1]
    BY <1>1, <2>1, <2>2
  <2> QED
    BY <2>1, <2>2, <2>3
<1>7. \A y \in Bytes(q) \ First : \E x \in Bytes(t) : shift[x] = y
  <2> SUFFICES ASSUME NEW y \in Bytes(q), y \notin First
               PROVE  \E x \in Bytes(t) : shift[x] = y
    OBVIOUS
  <2>1. y[1] \in 1 .. Len(q) /\ y = <<y[1], y[2]>> /\ y[2] \in 1 .. q[y[1]].size
    BY ByteFacts
  <2>2. y[1] # 1
    BY <2>1
  <2>3. y[1] - 1 \in 1 .. Len(t) /\ y[1] - 1 + 1 = y[1]
    BY <1>1, <2>1, <2>2
  <2>4. <<y[1] - 1, y[2]>> \in Bytes(t)
    BY <1>1, <2>1, <2>3, ByteFacts
  <2> QED
    BY <2>1, <2>3, <2>4
<1>8. IsFiniteSet(First) /\ Cardinality(First) = size
  BY <1>2, BytesOfOne
<1>9. IsFiniteSet(Bytes(q)) /\ b = Cardinality(Bytes(q)) /\ b \in Nat
  BY FS_CardinalityType DEF Counts
<1> HIDE DEF First
<1>10. Bytes(q) \cap First = First
  BY <1>4
<1>11. /\ IsFiniteSet(Bytes(q) \ First)
       /\ Cardinality(Bytes(q) \ First) =
             Cardinality(Bytes(q)) - Cardinality(Bytes(q) \cap First)
  BY <1>9, FS_Difference
<1>12. Cardinality(Bytes(q) \ First) = b - size
  BY <1>8, <1>9, <1>10, <1>11
<1>13. shift \in [Bytes(t) -> Bytes(q) \ First]
  BY <1>5
<1> HIDE DEF shift
<1>14. /\ shift \in Injection(Bytes(t), Bytes(q) \ First)
       /\ shift \in Surjection(Bytes(t), Bytes(q) \ First)
  BY <1>6, <1>7, <1>13 DEF Injection, Surjection, IsInjective
<1>15. IsFiniteSet(Bytes(t)) /\ b - size = Cardinality(Bytes(t))
  BY <1>11, <1>12, <1>14, FS_Injection
<1> QED
  BY <1>1, <1>15 DEF Counts, t

\* A packet of a flow that has fewer packets than slots fits behind the others.
LEMMA AppendFits ==
    ASSUME NEW q \in Seq(Packets), NEW b, NEW F, IsFiniteSet(F), NEW w \in Nat, NEW max \in Nat,
           QueueFits(q, b, F, w, max),
           NEW p \in Packets, p.flow \in F, p.size <= max,
           Room(q, p.flow, w)
    PROVE  QueueFits(Append(q, p), b + p.size, F, w, max)
<1> DEFINE t == Append(q, p)
           n == Len(q) + 1
<1>1. /\ Len(q) \in Nat /\ Len(t) = n /\ t \in Seq(Packets)
      /\ \A i \in 1 .. Len(q) : t[i] = q[i]
      /\ t[n] = p
  BY AppendFacts
<1> HIDE DEF t
<1>2. 1 .. n = (1 .. Len(q)) \cup {n} /\ n \notin 1 .. Len(q) /\ n \in Nat
  BY <1>1
<1>3. PICK slot \in Slotting(q, F, w) : TRUE
  BY DEF QueueFits, HasSlots
<1>4. PICK s \in 1 .. w : \A i \in 1 .. Len(q) : slot[i] # <<p.flow, s>>
  <2>1. FreeSlots(q, slot, p.flow, w) # {}
    BY FreeSlot
  <2> QED
    BY <2>1 DEF FreeSlots
<1>5. HasSlots(t, F, w)
  <2> DEFINE more == [i \in 1 .. n |-> IF i = n THEN <<p.flow, s>> ELSE slot[i]]
  <2>1. more \in [1 .. n -> F \X (1 .. w)]
    BY <1>2 DEF Slotting
  <2>2. \A i, j \in 1 .. n : more[i] = more[j] => i = j
    BY <1>2, <1>4 DEF Slotting
  <2>3. \A i \in 1 .. n : more[i][1] = t[i].flow
    BY <1>1, <1>2 DEF Slotting
  <2> HIDE DEF more, n
  <2>4. more \in Slotting(t, F, w)
    BY <1>1, <2>1, <2>2, <2>3 DEF Slotting
  <2> QED
    BY <2>4 DEF HasSlots
<1>6. \A i \in 1 .. n : t[i].size <= max
  BY <1>1, <1>2 DEF QueueFits
<1>7. Counts(t, b + p.size)
  BY AppendCounts DEF QueueFits, t
<1> QED
  BY <1>1, <1>5, <1>6, <1>7 DEF QueueFits, t

\* The first packet leaves the others where they fit, and takes its bytes off.
LEMMA TailFits ==
    ASSUME NEW q \in Seq(Packets), q # <<>>, NEW b,
           NEW F, IsFiniteSet(F), NEW w \in Nat, NEW max \in Nat,
           QueueFits(q, b, F, w, max)
    PROVE  QueueFits(Tail(q), b - Head(q).size, F, w, max)
<1> DEFINE t == Tail(q)
           size == q[1].size
<1>1. /\ Len(q) \in Nat /\ Len(q) > 0 /\ Head(q) = q[1]
      /\ t \in Seq(Packets) /\ Len(t) = Len(q) - 1 /\ Len(t) \in Nat
      /\ \A i \in 1 .. Len(t) : t[i] = q[i + 1]
  BY TailFacts
<1> HIDE DEF t
<1>3. \A i \in 1 .. Len(t) : i + 1 \in 1 .. Len(q)
  BY <1>1
<1>4. PICK slot \in Slotting(q, F, w) : TRUE
  BY DEF QueueFits, HasSlots
<1>5. HasSlots(t, F, w)
  <2> DEFINE rest == [i \in 1 .. Len(t) |-> slot[i + 1]]
  <2>1. rest \in [1 .. Len(t) -> F \X (1 .. w)]
    BY <1>3 DEF Slotting
  <2>2. \A i, j \in 1 .. Len(t) : rest[i] = rest[j] => i = j
    <3> SUFFICES ASSUME NEW i \in 1 .. Len(t), NEW j \in 1 .. Len(t), rest[i] = rest[j]
                 PROVE  i = j
      OBVIOUS
    <3>1. i + 1 = j + 1
      BY <1>3 DEF Slotting
    <3> QED
      BY <1>1, <3>1
  <2>3. \A i \in 1 .. Len(t) : rest[i][1] = t[i].flow
    BY <1>1, <1>3 DEF Slotting
  <2> HIDE DEF rest
  <2>4. rest \in Slotting(t, F, w)
    BY <2>1, <2>2, <2>3 DEF Slotting
  <2> QED
    BY <2>4 DEF HasSlots
<1>6. \A i \in 1 .. Len(t) : t[i].size <= max
  BY <1>1, <1>3 DEF QueueFits
<1>7. Counts(t, b - size)
  BY <1>1, TailCounts DEF QueueFits, t
<1> QED
  BY <1>1, <1>5, <1>6, <1>7 DEF QueueFits, t
-----------------------------------------------------------------------------
(* The three queues *)

\* A queue starts empty.
LEMMA EmptyFits ==
    ASSUME NEW F, NEW w \in Nat, NEW max \in Nat
    PROVE  QueueFits(<<>>, 0, F, w, max)
<1>1. 1 .. Len(<<>>) = {}
  OBVIOUS
<1>2. Counts(<<>>, 0)
  BY EmptyCounts
<1>3. [i \in {} |-> 0] \in Slotting(<<>>, F, w)
  BY <1>1 DEF Slotting
<1> QED
  BY <1>1, <1>2, <1>3 DEF QueueFits, HasSlots

\* The packets of priorities 1 and 2 always leave the common buffer as much room as
\* QueueAssumption says.
LEMMA CommonFits ==
    ASSUME IsFiniteSet(Flows), NEW max, Largest(max), NEW q, NEW b, AllFit(q, b, max)
    PROVE  b[1] + b[2] <= Common
<1>1. /\ max \in Nat /\ Window \in Nat /\ CtrlSize \in Nat /\ Common \in Nat
      /\ Cardinality(Flows) * CtrlSize + Cardinality(Short) * Window * max <= Common
  BY QueueAssumption DEF Largest
<1>2. IsFiniteSet(Short) /\ Cardinality(Short) \in Nat /\ Cardinality(Flows) \in Nat
  BY FS_Subset, FS_CardinalityType DEF Flows
<1>3. q[1] \in Seq(Packets) /\ q[2] \in Seq(Packets)
  BY DEF AllFit, Prios
<1>4. b[1] \in Nat /\ b[1] <= Cardinality(Short) * Window * max
  BY <1>1, <1>2, <1>3, BytesBound DEF AllFit
<1>5. b[2] \in Nat /\ b[2] <= Cardinality(Flows) * 1 * CtrlSize
  BY <1>1, <1>3, BytesBound DEF AllFit
<1>6. Cardinality(Flows) * 1 = Cardinality(Flows)
  BY <1>2
<1>7. /\ Cardinality(Flows) * CtrlSize \in Nat
      /\ Cardinality(Short) * Window * max \in Nat
  BY <1>1, <1>2
<1> QED
  BY <1>1, <1>4, <1>5, <1>6, <1>7

\* The packet that is sent on leaves the others as they were, in a busy link.
LEMMA TransmitKeeps ==
    ASSUME IsFiniteSet(Flows), NEW max \in Nat, NEW q, NEW b, AllFit(q, b, max),
           \E i \in Prios : q[i] # <<>>, Transmit(q, b)
    PROVE  AllFit(q_, bytes_, max)' /\ NeverIdle' /\ BusyLine'
<1> DEFINE i == HighestFirst(q)
           p == Head(q[i])
<1>1. i \in Prios /\ q[i] # <<>>
  <2>1. \E k \in Prios : q[k] # <<>> /\ \A j \in Prios : q[j] # <<>> => k >= j
    BY DEF Prios
  <2> QED
    BY <2>1 DEF HighestFirst
<1>2. /\ line' = p /\ blocked_' = TRUE
      /\ q_' = [q EXCEPT ![i] = Tail(q[i])]
      /\ bytes_' = [b EXCEPT ![i] = b[i] - p.size]
  BY DEF Transmit
<1> HIDE DEF i
<1>3. q \in [Prios -> Seq(Packets)] /\ b \in [Prios -> Int]
  BY DEF AllFit
<1>4. p \in Packets /\ Tail(q[i]) \in Seq(Packets)
  BY <1>1, <1>3, TailFacts
<1> HIDE DEF p
<1>5. p.size \in Nat
  BY <1>4 DEF Packets
<1>6. q_' \in [Prios -> Seq(Packets)] /\ bytes_' \in [Prios -> Int]
  BY <1>1, <1>2, <1>3, <1>4, <1>5
<1>7. IsFiniteSet(Short) /\ Window \in Nat /\ CtrlSize \in Nat /\ 1 \in Nat
      /\ 1 \in Prios /\ 2 \in Prios
  BY QueueAssumption, FS_Subset DEF Flows, Prios
<1>8. QueueFits(q_'[1], bytes_'[1], Short, Window, max)
  <2>1. CASE i = 1
    <3>1. QueueFits(Tail(q[1]), b[1] - Head(q[1]).size, Short, Window, max)
      BY <1>1, <1>3, <1>7, <2>1, TailFits DEF AllFit
    <3> QED
      BY <1>2, <1>3, <1>7, <2>1, <3>1 DEF p
  <2>2. CASE i # 1
    BY <1>2, <1>3, <1>7, <2>2 DEF AllFit
  <2> QED
    BY <2>1, <2>2
<1>9. QueueFits(q_'[2], bytes_'[2], Flows, 1, CtrlSize)
  <2>1. CASE i = 2
    <3>1. QueueFits(Tail(q[2]), b[2] - Head(q[2]).size, Flows, 1, CtrlSize)
      BY <1>1, <1>3, <1>7, <2>1, TailFits DEF AllFit
    <3> QED
      BY <1>2, <1>3, <1>7, <2>1, <3>1 DEF p
  <2>2. CASE i # 2
    BY <1>2, <1>3, <1>7, <2>2 DEF AllFit
  <2> QED
    BY <2>1, <2>2
<1>10. line' # NoPacket
  <2>1. DOMAIN p = {"flow", "prio", "size"} /\ DOMAIN NoPacket = {"flow"}
    BY <1>4 DEF Packets, NoPacket
  <2>2. "prio" \notin {"flow"}
    OBVIOUS
  <2> QED
    BY <1>2, <2>1, <2>2
<1> QED
  BY <1>2, <1>6, <1>8, <1>9, <1>10 DEF AllFit, NeverIdle, BusyLine

\* A packet that may arrive keeps the invariant, and is not dropped if it is a
\* control packet.
LEMMA ReceiveKeeps ==
    ASSUME IsFiniteSet(Flows), NEW max, Largest(max), QueueInv(max),
           NEW p \in Packets, recv(p),
           p.prio = 1 => p.flow \in Short /\ p.size <= max /\ Room(q_[1], p.flow, Window),
           p.prio = 2 => p.size = CtrlSize /\ Room(q_[2], p.flow, 1)
    PROVE  QueueInv(max)'
<1> DEFINE i == p.prio
           q == [q_ EXCEPT ![i] = Append(q_[i], p)]
           b == [bytes_ EXCEPT ![i] = bytes_[i] + p.size]
<1>1. /\ q_ \in [Prios -> Seq(Packets)] /\ bytes_ \in [Prios -> Int]
      /\ QueueFits(q_[1], bytes_[1], Short, Window, max)
      /\ QueueFits(q_[2], bytes_[2], Flows, 1, CtrlSize)
      /\ exited = FALSE
  BY DEF QueueInv, AllFit, NoControlDropped, recv
<1>2. i \in Prios /\ p.size \in Nat /\ p.flow \in Flows
      /\ (i = 0 \/ i = 1 \/ i = 2)
  BY DEF Packets, Prios
<1>3. IsFiniteSet(Short) /\ Window \in Nat /\ CtrlSize \in Nat /\ 1 \in Nat
      /\ max \in Nat /\ 0 \in Prios /\ 1 \in Prios /\ 2 \in Prios
  BY QueueAssumption, FS_Subset DEF Flows, Prios, Largest
<1>4. AllFit(q, b, max)
  <2>1. q \in [Prios -> Seq(Packets)] /\ b \in [Prios -> Int]
    BY <1>1, <1>2, AppendFacts
  <2>2. QueueFits(q[1], b[1], Short, Window, max)
    <3>1. CASE i = 1
      <4>1. QueueFits(Append(q_[1], p), bytes_[1] + p.size, Short, Window, max)
        BY <1>1, <1>3, <3>1, AppendFits
      <4> QED
        BY <1>1, <1>3, <3>1, <4>1
    <3>2. CASE i # 1
      BY <1>1, <1>3, <3>2
    <3> QED
      BY <3>1, <3>2
  <2>3. QueueFits(q[2], b[2], Flows, 1, CtrlSize)
    <3>1. CASE i = 2
      <4>1. q_[2] \in Seq(Packets) /\ p.size <= CtrlSize /\ Room(q_[2], p.flow, 1)
        BY <1>1, <1>3, <3>1
      <4> HIDE DEF i, q, b
      <4>2. QueueFits(Append(q_[2], p), bytes_[2] + p.size, Flows, 1, CtrlSize)
        BY <1>1, <1>2, <1>3, <4>1, AppendFits
      <4> QED
        BY <1>1, <1>3, <3>1, <4>2 DEF i, q, b
    <3>2. CASE i # 2
      BY <1>1, <1>3, <3>2
    <3> QED
      BY <3>1, <3>2
  <2> HIDE DEF q, b
  <2> QED
    BY <2>1, <2>2, <2>3 DEF AllFit
<1>5. i = 2 => Fits(p)
  <2> SUFFICES ASSUME i = 2
               PROVE  Fits(p)
    OBVIOUS
  <2>1. b[1] = bytes_[1] /\ b[2] = bytes_[2] + p.size
    BY <1>1, <1>3
  <2>2. b[1] + b[2] <= Common
    <3> HIDE DEF q, b
    <3> QED
      BY <1>4, CommonFits
  <2> QED
    BY <1>1, <1>2, <1>3, <2>1, <2>2 DEF Fits, TotalByteLength
<1>6. CASE Accept(p)
  <2>1. exited' = exited
    BY <1>6 DEF Accept
  <2>2. CASE blocked_
    <3>1. q_' = q /\ bytes_' = b /\ blocked_' = blocked_ /\ line' = line
      BY <1>6, <2>2 DEF Accept
    <3>2. AllFit(q_, bytes_, max)'
      BY <1>4, <3>1
    <3>3. NeverIdle' /\ BusyLine'
      BY <2>2, <3>1 DEF QueueInv, NeverIdle, BusyLine
    <3> QED
      BY <1>1, <2>1, <3>2, <3>3 DEF QueueInv, NoControlDropped
  <2>3. CASE ~ blocked_
    <3>1. Transmit(q, b)
      BY <1>6, <2>3 DEF Accept
    <3>2. q[i] # <<>>
      <4>1. q[i] = Append(q_[i], p) /\ q_[i] \in Seq(Packets)
        BY <1>1, <1>2
      <4>2. Len(q[i]) = Len(q_[i]) + 1 /\ Len(q_[i]) \in Nat
        BY <4>1, AppendFacts
      <4>3. Len(<<>>) = 0
        OBVIOUS
      <4> HIDE DEF q
      <4> QED
        BY <4>2, <4>3
    <3>3. AllFit(q_, bytes_, max)' /\ NeverIdle' /\ BusyLine'
      <4> HIDE DEF q, b
      <4> QED
        BY <1>2, <1>3, <1>4, <3>1, <3>2, TransmitKeeps
    <3> QED
      BY <1>1, <2>1, <3>3 DEF QueueInv, NoControlDropped
  <2> QED
    BY <2>2, <2>3
<1>7. CASE Drop(p)
  <2>1. exited' = FALSE
    BY <1>2, <1>5, <1>7 DEF Drop
  <2>2. CASE ~ blocked_ /\ NotEmpty
    <3>1. Transmit(q_, bytes_)
      BY <1>7, <2>1, <2>2 DEF Drop
    <3>2. AllFit(q_, bytes_, max)' /\ NeverIdle' /\ BusyLine'
      BY <1>3, <2>2, <3>1, TransmitKeeps DEF QueueInv, NotEmpty
    <3> QED
      BY <2>1, <3>2 DEF QueueInv, NoControlDropped
  <2>3. CASE ~ (~ blocked_ /\ NotEmpty)
    <3>1. UNCHANGED <<q_, bytes_, blocked_, line>>
      BY <1>7, <2>1, <2>3 DEF Drop
    <3> QED
      BY <2>1, <3>1 DEF QueueInv, NoControlDropped, NeverIdle, BusyLine, NotEmpty, AllFit
  <2> QED
    BY <2>2, <2>3
<1> QED
  BY <1>6, <1>7 DEF recv
-----------------------------------------------------------------------------
(* The parts of the buffer: they hold in every configuration, for any flows. *)

\* The queues q, that hold b bytes, keep to their parts of the buffer.
InParts(q, b) ==
    /\ q \in [Prios -> Seq(Packets)] /\ b \in [Prios -> Int]
    /\ \A i \in Prios : Counts(q[i], b[i])
    /\ b[0] <= Limit
    /\ b[1] + b[2] <= Common

\* A counter is never negative.
LEMMA CountIsNat ==
    ASSUME NEW q, NEW b, Counts(q, b)
    PROVE  b \in Nat
BY FS_CardinalityType DEF Counts

\* The packet that is sent on makes room.
LEMMA TransmitKeepsParts ==
    ASSUME NEW q, NEW b, InParts(q, b), \E i \in Prios : q[i] # <<>>, Transmit(q, b)
    PROVE  InParts(q_, bytes_)'
<1> DEFINE i == HighestFirst(q)
           p == Head(q[i])
<1>1. i \in Prios /\ q[i] # <<>>
  <2>1. \E k \in Prios : q[k] # <<>> /\ \A j \in Prios : q[j] # <<>> => k >= j
    BY DEF Prios
  <2> QED
    BY <2>1 DEF HighestFirst
<1>2. /\ q_' = [q EXCEPT ![i] = Tail(q[i])]
      /\ bytes_' = [b EXCEPT ![i] = b[i] - p.size]
  BY DEF Transmit
<1>3. /\ q \in [Prios -> Seq(Packets)] /\ b \in [Prios -> Int]
      /\ \A k \in Prios : Counts(q[k], b[k])
      /\ b[0] <= Limit /\ b[1] + b[2] <= Common
  BY DEF InParts
<1> HIDE DEF i
<1>4. /\ p \in Packets /\ Tail(q[i]) \in Seq(Packets)
      /\ Counts(Tail(q[i]), b[i] - p.size)
  BY <1>1, <1>3, TailFacts, TailCounts
<1> HIDE DEF p
<1>5. p.size \in Nat
  BY <1>4 DEF Packets
<1>6. q_' \in [Prios -> Seq(Packets)] /\ bytes_' \in [Prios -> Int]
  BY <1>1, <1>2, <1>3, <1>4, <1>5
<1>7. \A k \in Prios : Counts(q_'[k], bytes_'[k])
  <2> TAKE k \in Prios
  <2>1. CASE k = i
    BY <1>1, <1>2, <1>3, <1>4, <2>1
  <2>2. CASE k # i
    BY <1>1, <1>2, <1>3, <2>2
  <2> QED
    BY <2>1, <2>2
<1>8. /\ 0 \in Prios /\ 1 \in Prios /\ 2 \in Prios
      /\ Limit \in Int /\ Common \in Int
  BY QueueAssumption DEF Prios
<1>9. \A k \in Prios : b[k] \in Int /\ bytes_'[k] \in Int /\ bytes_'[k] <= b[k]
  BY <1>1, <1>2, <1>3, <1>5
<1>10. bytes_'[0] <= Limit /\ bytes_'[1] + bytes_'[2] <= Common
  BY <1>3, <1>8, <1>9
<1> QED
  BY <1>6, <1>7, <1>10 DEF InParts

\* A packet that passes the test of Priority::enque fits into its part.
LEMMA ReceiveKeepsParts ==
    ASSUME NEW p \in Packets, InParts(q_, bytes_), recv(p)
    PROVE  InParts(q_, bytes_)'
<1> DEFINE i == p.prio
           q == [q_ EXCEPT ![i] = Append(q_[i], p)]
           b == [bytes_ EXCEPT ![i] = bytes_[i] + p.size]
<1>1. /\ q_ \in [Prios -> Seq(Packets)] /\ bytes_ \in [Prios -> Int]
      /\ \A k \in Prios : Counts(q_[k], bytes_[k])
      /\ bytes_[0] <= Limit /\ bytes_[1] + bytes_[2] <= Common
  BY DEF InParts
<1>2. i \in Prios /\ p.size \in Nat /\ (i = 0 \/ i = 1 \/ i = 2)
  BY DEF Packets, Prios
<1>3. /\ 0 \in Prios /\ 1 \in Prios /\ 2 \in Prios
      /\ Limit \in Int /\ Common \in Int
  BY QueueAssumption DEF Prios
<1>4. CASE Accept(p)
  <2>1. q \in [Prios -> Seq(Packets)] /\ b \in [Prios -> Int]
    BY <1>1, <1>2, AppendFacts
  <2>2. \A k \in Prios : Counts(q[k], b[k])
    <3> TAKE k \in Prios
    <3>1. CASE k = i
      <4>1. Counts(Append(q_[i], p), bytes_[i] + p.size)
        BY <1>1, <1>2, AppendCounts
      <4> QED
        BY <1>1, <1>2, <3>1, <4>1
    <3>2. CASE k # i
      BY <1>1, <1>2, <3>2
    <3> QED
      BY <3>1, <3>2
  <2>3. b[0] <= Limit /\ b[1] + b[2] <= Common
    <3>1. Fits(p)
      BY <1>4 DEF Accept
    <3>2. bytes_[0] \in Nat /\ bytes_[1] \in Nat /\ bytes_[2] \in Nat
      BY <1>1, <1>3, CountIsNat
    <3>3. CASE i = 0
      <4>1. b[0] = bytes_[0] + p.size /\ b[1] = bytes_[1] /\ b[2] = bytes_[2]
        BY <1>1, <1>3, <3>3
      <4>2. bytes_[0] + bytes_[1] + bytes_[2] + p.size <= Limit
        BY <3>1, <3>3 DEF Fits, TotalByteLength
      <4> HIDE DEF b
      <4> QED
        BY <1>1, <1>2, <1>3, <3>2, <4>1, <4>2
    <3>4. CASE i # 0
      <4>1. /\ b[0] = bytes_[0]
            /\ b[1] + b[2] = bytes_[1] + bytes_[2] + p.size
        BY <1>1, <1>2, <1>3, <3>2, <3>4
      <4>2. (bytes_[0] + bytes_[1] + bytes_[2]) - bytes_[0] + p.size <= Common
        BY <3>1, <3>4 DEF Fits, TotalByteLength
      <4> HIDE DEF b
      <4> QED
        BY <1>1, <1>2, <1>3, <3>2, <4>1, <4>2
    <3> QED
      BY <3>3, <3>4
  <2>4. InParts(q, b)
    <3> HIDE DEF q, b
    <3> QED
      BY <2>1, <2>2, <2>3 DEF InParts
  <2>5. CASE blocked_
    <3>1. q_' = q /\ bytes_' = b
      BY <1>4, <2>5 DEF Accept
    <3> QED
      BY <2>4, <3>1
  <2>6. CASE ~ blocked_
    <3>1. Transmit(q, b)
      BY <1>4, <2>6 DEF Accept
    <3>2. q[i] # <<>>
      <4>1. q[i] = Append(q_[i], p) /\ q_[i] \in Seq(Packets)
        BY <1>1, <1>2
      <4>2. Len(q[i]) = Len(q_[i]) + 1 /\ Len(q_[i]) \in Nat
        BY <4>1, AppendFacts
      <4>3. Len(<<>>) = 0
        OBVIOUS
      <4> HIDE DEF q
      <4> QED
        BY <4>2, <4>3
    <3> HIDE DEF q, b
    <3> QED
      BY <1>2, <2>4, <3>1, <3>2, TransmitKeepsParts
  <2> QED
    BY <2>5, <2>6
<1>5. CASE Drop(p)
  <2>1. CASE ~ exited' /\ ~ blocked_ /\ NotEmpty
    BY <1>5, <2>1, TransmitKeepsParts DEF Drop, NotEmpty
  <2>2. CASE ~ (~ exited' /\ ~ blocked_ /\ NotEmpty)
    <3>1. UNCHANGED <<q_, bytes_>>
      BY <1>5, <2>2 DEF Drop
    <3> QED
      BY <3>1 DEF InParts
  <2> QED
    BY <2>1, <2>2
<1> QED
  BY <1>4, <1>5 DEF recv

-----------------------------------------------------------------------------
(* Theorems *)

\* The invariant holds of empty queues,
LEMMA InitQueueInv == \A max \in Nat : Init => QueueInv(max)
<1> SUFFICES ASSUME NEW max \in Nat, Init
             PROVE  QueueInv(max)
  OBVIOUS
<1>1. /\ q_ = [i \in Prios |-> <<>>] /\ bytes_ = [i \in Prios |-> 0]
      /\ blocked_ = FALSE /\ exited = FALSE
      /\ 1 \in Prios /\ 2 \in Prios
  BY DEF Init, Prios
<1>2. q_ \in [Prios -> Seq(Packets)] /\ bytes_ \in [Prios -> Int]
  BY <1>1
<1>3. q_[1] = <<>> /\ q_[2] = <<>> /\ bytes_[1] = 0 /\ bytes_[2] = 0
  BY <1>1
<1>4. Window \in Nat /\ 1 \in Nat /\ CtrlSize \in Nat
  BY QueueAssumption
<1>5. /\ QueueFits(q_[1], bytes_[1], Short, Window, max)
      /\ QueueFits(q_[2], bytes_[2], Flows, 1, CtrlSize)
  BY <1>3, <1>4, EmptyFits
<1>6. ~ NotEmpty
  BY <1>1 DEF NotEmpty
<1> QED
  BY <1>1, <1>2, <1>5, <1>6 DEF QueueInv, AllFit, NoControlDropped, NeverIdle, BusyLine

\* InQueue counts the packets of a flow.
LEMMA InQueueIsRoom ==
    ASSUME NEW f, NEW i \in Prios, q_ \in [Prios -> Seq(Packets)]
    PROVE  /\ InQueue(f, i) \in Nat
           /\ \A w : InQueue(f, i) < w => Room(q_[i], f, w)
<1>1. InQueue(f, i) = Cardinality(Of(q_[i], f))
  BY DEF InQueue, Of
<1>2. IsFiniteSet(Of(q_[i], f))
  <2>1. IsFiniteSet(1 .. Len(q_[i]))
    BY FS_Interval
  <2> QED
    BY <2>1, FS_Subset DEF Of
<1> QED
  BY <1>1, <1>2, FS_CardinalityType DEF Room

\* and each step keeps it.
LEMMA NextQueueInv ==
    ASSUME IsFiniteSet(Flows), NEW max, Largest(max), QueueInv(max), [Next]_vars
    PROVE  QueueInv(max)'
<1>1. /\ max \in Nat /\ CtrlSize \in Nat \ {0} /\ DataSizes \subseteq Nat \ {0}
      /\ \A size \in DataSizes : size <= max
  BY QueueAssumption DEF Largest
<1>2. q_ \in [Prios -> Seq(Packets)]
  BY DEF QueueInv, AllFit
<1>3. ASSUME NEW f \in Flows, RecvCtrl(f)
      PROVE  QueueInv(max)'
  <2> DEFINE p == Packet(f, 2, CtrlSize)
  <2>1. p \in Packets /\ p.flow = f /\ p.prio = 2 /\ p.size = CtrlSize
    BY <1>1 DEF Packet, Packets, Prios
  <2>2. Room(q_[2], f, 1)
    <3>1. 2 \in Prios
      BY DEF Prios
    <3>2. InQueue(f, 2) \in Nat
      BY <1>2, <3>1, InQueueIsRoom
    <3>3. InQueue(f, 2) < 1
      BY <1>3, <3>2 DEF RecvCtrl, ControlHere
    <3> QED
      BY <1>2, <3>1, <3>3, InQueueIsRoom
  <2>3. recv(p)
    BY <1>3 DEF RecvCtrl
  <2> HIDE DEF p
  <2> QED
    BY <2>1, <2>2, <2>3, ReceiveKeeps
<1>4. ASSUME NEW f \in Short, RecvShort(f)
      PROVE  QueueInv(max)'
  <2>1. PICK size \in DataSizes : recv(Packet(f, 1, size))
    BY <1>4 DEF RecvShort
  <2> DEFINE p == Packet(f, 1, size)
  <2>2. p \in Packets /\ p.flow = f /\ p.prio = 1 /\ p.size = size
    BY <1>1 DEF Packet, Packets, Prios, Flows
  <2>3. Room(q_[1], f, Window)
    BY <1>2, <1>4, InQueueIsRoom DEF RecvShort, Prios
  <2> HIDE DEF p
  <2> QED
    BY <1>1, <2>1, <2>2, <2>3, ReceiveKeeps DEF p
<1>5. ASSUME NEW f \in Long, RecvLong(f)
      PROVE  QueueInv(max)'
  <2>1. PICK size \in DataSizes : recv(Packet(f, 0, size))
    BY <1>5 DEF RecvLong
  <2> DEFINE p == Packet(f, 0, size)
  <2>2. p \in Packets /\ p.prio = 0
    BY <1>1 DEF Packet, Packets, Prios, Flows
  <2>3. recv(p)
    BY <2>1
  <2> HIDE DEF p
  <2> QED
    BY <2>2, <2>3, ReceiveKeeps
<1>6. CASE resume
  <2>1. exited' = exited
    BY <1>6 DEF resume
  <2>2. CASE NotEmpty
    <3>1. Transmit(q_, bytes_)
      BY <1>6, <2>2 DEF resume
    <3>2. AllFit(q_, bytes_, max)' /\ NeverIdle' /\ BusyLine'
      BY <1>1, <2>2, <3>1, TransmitKeeps DEF QueueInv, NotEmpty
    <3> QED
      BY <2>1, <3>2 DEF QueueInv, NoControlDropped
  <2>3. CASE ~ NotEmpty
    <3>1. blocked_' = FALSE /\ UNCHANGED <<q_, bytes_>>
      BY <1>6, <2>3 DEF resume
    <3> QED
      BY <2>1, <2>3, <3>1
         DEF QueueInv, NoControlDropped, NeverIdle, BusyLine, NotEmpty, AllFit
  <2> QED
    BY <2>2, <2>3
<1>7. CASE UNCHANGED vars
  BY <1>7 DEF vars, QueueInv, NoControlDropped, NeverIdle, BusyLine, NotEmpty, AllFit
<1> QED
  BY <1>3, <1>4, <1>5, <1>6, <1>7 DEF Next

\* Finitely many flows, and packets that are not larger than the largest one.
FiniteTraffic == IsFiniteSet(Flows) /\ \E max \in Nat : Largest(max)

\* However much data waits, the queue never drops a control packet, whose drop ends
\* the program (SPERCQueue::drop), in a network that meets QueueAssumption.
THEOREM ControlNeverDropped == FiniteTraffic => (Spec => []NoControlDropped)
<1> SUFFICES ASSUME FiniteTraffic
             PROVE  Spec => []NoControlDropped
  OBVIOUS
<1>1. PICK max \in Nat : Largest(max)
  BY DEF FiniteTraffic
<1>2. Init => QueueInv(max)
  BY InitQueueInv
<1>3. QueueInv(max) /\ [Next]_vars => QueueInv(max)'
  BY <1>1, NextQueueInv DEF FiniteTraffic
<1>4. QueueInv(max) => NoControlDropped
  BY DEF QueueInv
<1> QED
  BY <1>2, <1>3, <1>4, PTL DEF Spec

\* The link is never idle while a packet waits (Queue::recv and Queue::resume).
THEOREM LinkNeverIdle == FiniteTraffic => (Spec => []NeverIdle)
<1> SUFFICES ASSUME FiniteTraffic
             PROVE  Spec => []NeverIdle
  OBVIOUS
<1>1. PICK max \in Nat : Largest(max)
  BY DEF FiniteTraffic
<1>2. Init => QueueInv(max)
  BY InitQueueInv
<1>3. QueueInv(max) /\ [Next]_vars => QueueInv(max)'
  BY <1>1, NextQueueInv DEF FiniteTraffic
<1>4. QueueInv(max) => NeverIdle
  BY DEF QueueInv
<1> QED
  BY <1>2, <1>3, <1>4, PTL DEF Spec

\* The byte counters of Priority are those of the packets in its queues, and no
\* priority takes more of the buffer than the test of Priority::enque leaves it,
\* in any configuration, whatever arrives.
THEOREM BuffersAlwaysFit == Spec => []BuffersFit
<1>1. Init => InParts(q_, bytes_)
  <2> SUFFICES ASSUME Init
               PROVE  InParts(q_, bytes_)
    OBVIOUS
  <2>1. q_ = [i \in Prios |-> <<>>] /\ bytes_ = [i \in Prios |-> 0]
    BY DEF Init
  <2>2. q_ \in [Prios -> Seq(Packets)] /\ bytes_ \in [Prios -> Int]
    BY <2>1
  <2>3. \A i \in Prios : Counts(q_[i], bytes_[i])
    BY <2>1, EmptyCounts
  <2>4. bytes_[0] = 0 /\ bytes_[1] = 0 /\ bytes_[2] = 0
    BY <2>1 DEF Prios
  <2> QED
    BY <2>2, <2>3, <2>4, QueueAssumption DEF InParts
<1>2. InParts(q_, bytes_) /\ [Next]_vars => InParts(q_, bytes_)'
  <2> SUFFICES ASSUME InParts(q_, bytes_), [Next]_vars
               PROVE  InParts(q_, bytes_)'
    OBVIOUS
  <2>1. CtrlSize \in Nat \ {0} /\ DataSizes \subseteq Nat \ {0}
    BY QueueAssumption
  <2>2. \A f \in Flows, i \in Prios, size \in Nat \ {0} : Packet(f, i, size) \in Packets
    BY DEF Packet, Packets
  <2>3. ASSUME NEW f \in Flows, RecvCtrl(f)
        PROVE  InParts(q_, bytes_)'
    BY <2>1, <2>2, <2>3, ReceiveKeepsParts DEF RecvCtrl, Prios
  <2>4. ASSUME NEW f \in Short, RecvShort(f)
        PROVE  InParts(q_, bytes_)'
    <3>1. PICK size \in DataSizes : recv(Packet(f, 1, size))
      BY <2>4 DEF RecvShort
    <3> QED
      BY <2>1, <2>2, <3>1, ReceiveKeepsParts DEF Prios, Flows
  <2>5. ASSUME NEW f \in Long, RecvLong(f)
        PROVE  InParts(q_, bytes_)'
    <3>1. PICK size \in DataSizes : recv(Packet(f, 0, size))
      BY <2>5 DEF RecvLong
    <3> QED
      BY <2>1, <2>2, <3>1, ReceiveKeepsParts DEF Prios, Flows
  <2>6. CASE resume
    <3>1. CASE NotEmpty
      BY <2>6, <3>1, TransmitKeepsParts DEF resume, NotEmpty
    <3>2. CASE ~ NotEmpty
      BY <2>6, <3>2 DEF resume, InParts
    <3> QED
      BY <3>1, <3>2
  <2>7. CASE UNCHANGED vars
    BY <2>7 DEF vars, InParts
  <2> QED
    BY <2>3, <2>4, <2>5, <2>6, <2>7 DEF Next
<1>3. InParts(q_, bytes_) => BuffersFit
  BY DEF InParts, BuffersFit, Counts
<1> QED
  BY <1>1, <1>2, <1>3, PTL DEF Spec
=============================================================================
