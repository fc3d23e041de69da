---------------------------- MODULE RcpHostProofs ----------------------------
(***************************************************************************)
(* Proofs about RcpHost.                                                   *)
(*                                                                         *)
(* RcpInv is inductive for any number of transfers, losses, early timers    *)
(* and probes, as long as transfers are stopped cleanly or not at all.      *)
(***************************************************************************)
EXTENDS RcpHost, FiniteSetTheorems, TLAPS

SourceState == {"INACT", "SYNSENT", "RUNNING", "FINSENT", "RETRANSMIT"}

DataPacket == [fid : Nat, type : {"SYN", "DATA", "FIN", "REF"}]

Answer == [fid : Nat, type : {"SYNACK", "ACK", "FINACK", "REFACK"}, count : Nat]

NumbersTyped ==
    /\ is_active \in BOOLEAN /\ fid \in Nat /\ numpkts \in Nat
    /\ num_acked \in Nat /\ ref_seqno \in Nat /\ num_to_retransmit \in Int
    /\ running \in BOOLEAN /\ num_received \in Nat /\ delivered \in Nat
    /\ earlySyn \in Nat

SourceTyped ==
    /\ state \in SourceState
    /\ num_sent \in Nat /\ num_resent \in Nat
    /\ timers \in SUBSET {"data", "ref", "rto"}

NetsTyped == fwd \in Seq(DataPacket) /\ back \in Seq(Answer)

\* Which timers run in which state of the source.
TimersFit ==
    /\ is_active <=> state # "INACT"
    /\ is_active => numpkts > 0
    /\ "ref" \in timers => state = "SYNSENT"
    /\ "rto" \in timers => state \in {"FINSENT", "RETRANSMIT"}
    /\ state = "INACT" => timers = {}
    /\ state = "SYNSENT" => "ref" \in timers \/ ref_seqno >= SynTries
    /\ state = "RUNNING" => "data" \in timers
    /\ state \in {"FINSENT", "RETRANSMIT"} => "data" \in timers \/ "rto" \in timers

(* The packets s under way, or the answers, of flow f *)

Own(p, f) == p.fid = f /\ p.type \in {"DATA", "FIN"}

NoOwn(s, f) == \A i \in 1 .. Len(s) : ~ Own(s[i], f)

NoSyn(s) == \A i \in 1 .. Len(s) : s[i].type # "SYN"

None(s, f, type) == \A i \in 1 .. Len(s) : s[i].fid = f => s[i].type # type

\* All belong to this transfer or to earlier ones.
Old(s, f) == \A i \in 1 .. Len(s) : s[i].fid <= f

SynsFirst(s, f) == \A i, j \in 1 .. Len(s) : Own(s[i], f) /\ s[j].type = "SYN" => j < i

SynsLast(s, f) == \A i, j \in 1 .. Len(s) : Own(s[i], f) /\ s[j].type = "SYN" => i < j

\* The SYN of f is the last SYN.
OneSyn(s, f) ==
    \A i, j \in 1 .. Len(s) :
        s[i].type = "SYN" /\ s[i].fid = f /\ s[j].type = "SYN" => j <= i

CountsUpTo(s, f, n) == \A i \in 1 .. Len(s) : s[i].fid = f => s[i].count <= n

FinCountsUpTo(s, f, n) ==
    \A i \in 1 .. Len(s) : s[i].fid = f /\ s[i].type = "FINACK" => s[i].count <= n

\* The data packets of f among the first k.
Ahead(s, f, k) == {i \in 1 .. k : Own(s[i], f)}

\* Together with the n packets that the receiver has counted there are at most
\* max data packets of f, or at most max up to the last one.
AllFit(s, f, n, max) == n + Cardinality(Ahead(s, f, Len(s))) <= max

FinFits(s, f, n, max) ==
    \A k \in 1 .. Len(s) :
        s[k].fid = f /\ s[k].type = "FIN" => n + Cardinality(Ahead(s, f, k)) <= max

(* What holds when s and b are under way *)

\* What the receiver counts is of this transfer.  An idle receiver has counted
\* nothing and will not, as no SYN will wake it up for data that is under way.
RecvFits(s, b) ==
    /\ Old(s, fid) /\ Old(b, fid)
    /\ ~ is_active =>
          /\ num_received = 0
          /\ running => NoOwn(s, fid)
          /\ SynsLast(s, fid)
    /\ is_active =>
          /\ num_received <= delivered
          /\ CountsUpTo(b, fid, delivered)
          /\ SynsFirst(s, fid)
          /\ delivered > 0 => NoSyn(s)
    /\ state = "SYNSENT" => num_received = 0 /\ delivered = 0 /\ NoOwn(s, fid)

\* Unless a SYN was sent too early, none is under way once one is answered.
SynsFit(s, b) ==
    earlySyn = 0 /\ is_active =>
        /\ state = "SYNSENT" => OneSyn(s, fid)
        /\ None(b, fid, "SYNACK") \/ NoSyn(s)
        /\ state = "SYNSENT" \/ NoSyn(s)

\* What the source has sent up to its last packet is no more than its size.
CountsFit(s, b) ==
    /\ is_active =>
          /\ FinFits(s, fid, num_received, numpkts)
          /\ FinCountsUpTo(b, fid, numpkts)
          /\ num_acked < numpkts
    /\ state = "RUNNING" => AllFit(s, fid, num_received, num_sent) /\ num_sent < numpkts
    /\ state \in {"SYNSENT", "RUNNING"} => None(s, fid, "FIN") /\ None(b, fid, "FINACK")
    /\ state \in {"INACT", "SYNSENT"} => num_sent = 0 /\ num_acked = 0

NetsFit(s, b) == RecvFits(s, b) /\ SynsFit(s, b) /\ CountsFit(s, b)

RcpInv == NumbersTyped /\ SourceTyped /\ NetsTyped /\ TimersFit /\ NetsFit(fwd, back)
-----------------------------------------------------------------------------
(* Sequences *)

\* What Append makes of packets under way.
LEMMA AppendFacts ==
    ASSUME NEW S, NEW s \in Seq(S), NEW e \in S
    PROVE  /\ Append(s, e) \in Seq(S)
           /\ Len(s) \in Nat /\ Len(Append(s, e)) = Len(s) + 1
           /\ \A i \in 1 .. Len(s) : Append(s, e)[i] = s[i]
           /\ Append(s, e)[Len(s) + 1] = e
OBVIOUS

\* What is left when the first packet is taken.
LEMMA TailFacts ==
    ASSUME NEW S, NEW s \in Seq(S), s # <<>>
    PROVE  /\ Len(s) \in Nat /\ Len(s) > 0
           /\ Head(s) \in S /\ Head(s) = s[1]
           /\ Tail(s) \in Seq(S) /\ Len(Tail(s)) = Len(s) - 1
           /\ \A i \in 1 .. Len(Tail(s)) : Tail(s)[i] = s[i + 1]
OBVIOUS

\* What holds of packets under way holds of all but the first.
LEMMA TailKeeps ==
    ASSUME NEW s \in Seq(DataPacket), s # <<>>, NEW f \in Nat
    PROVE  /\ Old(s, f) => Old(Tail(s), f)
           /\ NoOwn(s, f) => NoOwn(Tail(s), f)
           /\ NoSyn(s) => NoSyn(Tail(s))
           /\ SynsFirst(s, f) => SynsFirst(Tail(s), f)
           /\ SynsLast(s, f) => SynsLast(Tail(s), f)
           /\ OneSyn(s, f) => OneSyn(Tail(s), f)
           /\ \A type : None(s, f, type) => None(Tail(s), f, type)
           /\ SynsFirst(s, f) /\ Own(Head(s), f) => NoSyn(s)
           /\ SynsLast(s, f) /\ Head(s).type = "SYN" => NoOwn(Tail(s), f)
           /\ OneSyn(s, f) /\ Head(s).type = "SYN" /\ Head(s).fid = f => NoSyn(Tail(s))
<1> DEFINE t == Tail(s)
<1>1. /\ Len(s) \in Nat /\ Len(s) > 0 /\ Head(s) = s[1] /\ Len(t) = Len(s) - 1
      /\ \A i \in 1 .. Len(t) : t[i] = s[i + 1]
  BY TailFacts
<1> HIDE DEF t
<1>2. \A i \in 1 .. Len(t) : i + 1 \in 1 .. Len(s) /\ t[i] = s[i + 1]
  BY <1>1
<1>3. /\ Old(s, f) => Old(t, f)
      /\ NoOwn(s, f) => NoOwn(t, f)
      /\ NoSyn(s) => NoSyn(t)
      /\ \A type : None(s, f, type) => None(t, f, type)
  BY <1>1, <1>2 DEF Old, NoOwn, NoSyn, None
<1>4. SynsFirst(s, f) => SynsFirst(t, f)
  <2> SUFFICES ASSUME SynsFirst(s, f), NEW i \in 1 .. Len(t), NEW j \in 1 .. Len(t), Own(t[i], f), t[j].type = "SYN"
               PROVE  j < i
    BY DEF SynsFirst
  <2>1. /\ i \in Int /\ i + 1 \in 1 .. Len(s) /\ t[i] = s[i + 1]
        /\ j \in Int /\ j + 1 \in 1 .. Len(s) /\ t[j] = s[j + 1]
    BY <1>1, <1>2
  <2>2. j + 1 < i + 1
    BY <2>1 DEF SynsFirst
  <2> QED
    BY <2>1, <2>2
<1>5. SynsLast(s, f) => SynsLast(t, f)
  <2> SUFFICES ASSUME SynsLast(s, f), NEW i \in 1 .. Len(t), NEW j \in 1 .. Len(t), Own(t[i], f), t[j].type = "SYN"
               PROVE  i < j
    BY DEF SynsLast
  <2>1. /\ i \in Int /\ i + 1 \in 1 .. Len(s) /\ t[i] = s[i + 1]
        /\ j \in Int /\ j + 1 \in 1 .. Len(s) /\ t[j] = s[j + 1]
    BY <1>1, <1>2
  <2>2. i + 1 < j + 1
    BY <2>1 DEF SynsLast
  <2> QED
    BY <2>1, <2>2
<1>6. OneSyn(s, f) => OneSyn(t, f)
  <2> SUFFICES ASSUME OneSyn(s, f), NEW i \in 1 .. Len(t), NEW j \in 1 .. Len(t), t[i].type = "SYN", t[i].fid = f, t[j].type = "SYN"
               PROVE  j <= i
    BY DEF OneSyn
  <2>1. /\ i \in Int /\ i + 1 \in 1 .. Len(s) /\ t[i] = s[i + 1]
        /\ j \in Int /\ j + 1 \in 1 .. Len(s) /\ t[j] = s[j + 1]
    BY <1>1, <1>2
  <2>2. j + 1 <= i + 1
    BY <2>1 DEF OneSyn
  <2> QED
    BY <2>1, <2>2
<1>7. SynsFirst(s, f) /\ Own(Head(s), f) => NoSyn(s)
  BY <1>1 DEF SynsFirst, NoSyn
<1>8. SynsLast(s, f) /\ Head(s).type = "SYN" => NoOwn(t, f)
  BY <1>1, <1>2 DEF SynsLast, NoOwn
<1>9. OneSyn(s, f) /\ Head(s).type = "SYN" /\ Head(s).fid = f => NoSyn(t)
  BY <1>1, <1>2 DEF OneSyn, NoSyn
<1> QED
  BY <1>3, <1>4, <1>5, <1>6, <1>7, <1>8, <1>9 DEF t

\* What holds of answers under way holds of all but the first.
LEMMA BackTailKeeps ==
    ASSUME NEW s \in Seq(Answer), s # <<>>, NEW f \in Nat
    PROVE  /\ Old(s, f) => Old(Tail(s), f)
           /\ \A type : None(s, f, type) => None(Tail(s), f, type)
           /\ \A n : CountsUpTo(s, f, n) => CountsUpTo(Tail(s), f, n)
           /\ \A n : FinCountsUpTo(s, f, n) => FinCountsUpTo(Tail(s), f, n)
<1> DEFINE t == Tail(s)
<1>1. /\ Len(s) \in Nat /\ Len(s) > 0 /\ Len(t) = Len(s) - 1
      /\ \A i \in 1 .. Len(t) : t[i] = s[i + 1]
  BY TailFacts
<1> HIDE DEF t
<1>2. \A i \in 1 .. Len(t) : i + 1 \in 1 .. Len(s) /\ t[i] = s[i + 1]
  BY <1>1
<1>3. /\ Old(s, f) => Old(t, f)
      /\ \A type : None(s, f, type) => None(t, f, type)
      /\ \A n : CountsUpTo(s, f, n) => CountsUpTo(t, f, n)
      /\ \A n : FinCountsUpTo(s, f, n) => FinCountsUpTo(t, f, n)
  BY <1>1, <1>2 DEF Old, None, CountsUpTo, FinCountsUpTo
<1> QED
  BY <1>3 DEF t

\* What a packet that is sent changes of what holds of those under way.
LEMMA AppendKeeps ==
    ASSUME NEW s \in Seq(DataPacket), NEW f \in Nat, NEW p \in DataPacket
    PROVE  /\ Old(s, f) /\ p.fid <= f => Old(Append(s, p), f)
           /\ NoOwn(s, f) /\ ~ Own(p, f) => NoOwn(Append(s, p), f)
           /\ NoSyn(s) /\ p.type # "SYN" => NoSyn(Append(s, p))
           /\ SynsFirst(s, f) /\ (p.type # "SYN" \/ NoOwn(s, f)) => SynsFirst(Append(s, p), f)
           /\ OneSyn(s, f) /\ (p.type # "SYN" \/ (p.fid = f /\ NoSyn(s))) => OneSyn(Append(s, p), f)
           /\ \A g \in Nat : Old(s, g) /\ g < f /\ p.fid = f => OneSyn(Append(s, p), f)
           /\ \A type : None(s, f, type) /\ p.type # type => None(Append(s, p), f, type)
<1> DEFINE t == Append(s, p)
<1>1. /\ Len(s) \in Nat /\ Len(t) = Len(s) + 1
      /\ \A i \in 1 .. Len(s) : t[i] = s[i]
      /\ t[Len(s) + 1] = p
  BY AppendFacts
<1> HIDE DEF t
<1>2. \A i \in 1 .. Len(t) : IF i = Len(s) + 1 THEN t[i] = p ELSE i \in 1 .. Len(s) /\ t[i] = s[i]
  BY <1>1
<1>0. p.fid \in Nat /\ \A i \in 1 .. Len(s) : s[i].fid \in Nat
  <2>1. \A i \in 1 .. Len(s) : s[i] \in DataPacket
    OBVIOUS
  <2> QED
    BY <2>1 DEF DataPacket
<1>3. /\ Old(s, f) /\ p.fid <= f => Old(t, f)
      /\ NoOwn(s, f) /\ ~ Own(p, f) => NoOwn(t, f)
      /\ NoSyn(s) /\ p.type # "SYN" => NoSyn(t)
      /\ \A type : None(s, f, type) /\ p.type # type => None(t, f, type)
  BY <1>2 DEF Old, NoOwn, NoSyn, None
<1>4. SynsFirst(s, f) /\ (p.type # "SYN" \/ NoOwn(s, f)) => SynsFirst(t, f)
  BY <1>1, <1>2 DEF SynsFirst, NoOwn, Own
<1>5. OneSyn(s, f) /\ (p.type # "SYN" \/ (p.fid = f /\ NoSyn(s))) => OneSyn(t, f)
  BY <1>1, <1>2 DEF OneSyn, NoSyn
<1>6. \A g \in Nat : Old(s, g) /\ g < f /\ p.fid = f => OneSyn(t, f)
  BY <1>0, <1>1, <1>2 DEF Old, OneSyn
<1> QED
  BY <1>3, <1>4, <1>5, <1>6 DEF t

\* What an answer changes of what holds of those under way.
LEMMA BackAppendKeeps ==
    ASSUME NEW s \in Seq(Answer), NEW f \in Nat, NEW p \in Answer
    PROVE  /\ Old(s, f) /\ p.fid <= f => Old(Append(s, p), f)
           /\ \A type : None(s, f, type) /\ (p.type # type \/ p.fid # f) => None(Append(s, p), f, type)
           /\ \A n : CountsUpTo(s, f, n) /\ (p.fid = f => p.count <= n) =>
                        CountsUpTo(Append(s, p), f, n)
           /\ \A n : FinCountsUpTo(s, f, n)
                        /\ (p.fid = f /\ p.type = "FINACK" => p.count <= n) =>
                        FinCountsUpTo(Append(s, p), f, n)
<1> DEFINE t == Append(s, p)
<1>1. /\ Len(s) \in Nat /\ Len(t) = Len(s) + 1
      /\ \A i \in 1 .. Len(s) : t[i] = s[i]
      /\ t[Len(s) + 1] = p
  BY AppendFacts
<1> HIDE DEF t
<1>2. \A i \in 1 .. Len(t) : IF i = Len(s) + 1 THEN t[i] = p ELSE i \in 1 .. Len(s) /\ t[i] = s[i]
  BY <1>1
<1>3. /\ Old(s, f) /\ p.fid <= f => Old(t, f)
      /\ \A type : None(s, f, type) /\ (p.type # type \/ p.fid # f) => None(t, f, type)
      /\ \A n : CountsUpTo(s, f, n) /\ (p.fid = f => p.count <= n) => CountsUpTo(t, f, n)
      /\ \A n : FinCountsUpTo(s, f, n) /\ (p.fid = f /\ p.type = "FINACK" => p.count <= n) =>
                   FinCountsUpTo(t, f, n)
  BY <1>2 DEF Old, None, CountsUpTo, FinCountsUpTo
<1> QED
  BY <1>3 DEF t

\* Packets of earlier transfers are none of the next one's.
LEMMA OldKeeps ==
    ASSUME NEW f \in Nat, NEW n, NEW max
    PROVE  /\ \A s \in Seq(DataPacket) : Old(s, f) =>
                 /\ Old(s, f + 1) /\ NoOwn(s, f + 1) /\ SynsFirst(s, f + 1)
                 /\ FinFits(s, f + 1, n, max)
                 /\ \A type : None(s, f + 1, type)
           /\ \A s \in Seq(Answer) : Old(s, f) =>
                 /\ Old(s, f + 1) /\ CountsUpTo(s, f + 1, n) /\ FinCountsUpTo(s, f + 1, max)
                 /\ \A type : None(s, f + 1, type)
<1>1. ASSUME NEW s \in Seq(DataPacket), Old(s, f)
      PROVE  \A i \in 1 .. Len(s) : s[i].fid \in Nat /\ s[i].fid <= f + 1 /\ s[i].fid # f + 1
  <2>1. \A i \in 1 .. Len(s) : s[i] \in DataPacket
    OBVIOUS
  <2> QED
    BY <1>1, <2>1 DEF DataPacket, Old
<1>2. ASSUME NEW s \in Seq(Answer), Old(s, f)
      PROVE  \A i \in 1 .. Len(s) : s[i].fid \in Nat /\ s[i].fid <= f + 1 /\ s[i].fid # f + 1
  <2>1. \A i \in 1 .. Len(s) : s[i] \in Answer
    OBVIOUS
  <2> QED
    BY <1>2, <2>1 DEF Answer, Old
<1> QED
  BY <1>1, <1>2 DEF Old, NoOwn, Own, SynsFirst, FinFits, None, CountsUpTo, FinCountsUpTo
\* The data packets of f among the first k are finitely many.
LEMMA AheadFinite ==
    ASSUME NEW s \in Seq(DataPacket), NEW f \in Nat, NEW k \in Nat
    PROVE  IsFiniteSet(Ahead(s, f, k)) /\ Cardinality(Ahead(s, f, k)) \in Nat
<1>1. IsFiniteSet(1 .. k)
  BY FS_Interval
<1>2. Ahead(s, f, k) \in SUBSET (1 .. k)
  BY DEF Ahead
<1> QED
  BY <1>1, <1>2, FS_Subset, FS_CardinalityType

\* When the first packet is taken, every other moves one place up.
LEMMA AheadTail ==
    ASSUME NEW s \in Seq(DataPacket), s # <<>>, NEW f \in Nat, NEW k \in 0 .. Len(Tail(s))
    PROVE  Cardinality(Ahead(s, f, k + 1)) =
               Cardinality(Ahead(Tail(s), f, k)) + (IF Own(Head(s), f) THEN 1 ELSE 0)
<1> DEFINE t == Tail(s)
           S == Ahead(t, f, k)
           T == {i \in 2 .. k + 1 : Own(s[i], f)}
           shift == [i \in S |-> i + 1]
<1>1. /\ Len(s) \in Nat /\ Len(s) > 0 /\ Head(s) = s[1] /\ Len(t) = Len(s) - 1
      /\ t \in Seq(DataPacket)
      /\ \A i \in 1 .. Len(t) : t[i] = s[i + 1]
  BY TailFacts
<1> HIDE DEF t
<1>2. k \in Nat /\ k <= Len(t)
  BY <1>1 DEF t
<1>3. S \subseteq Nat /\ \A i \in S : t[i] = s[i + 1]
  BY <1>1, <1>2 DEF Ahead
<1>4. shift \in Bijection(S, T)
  <2>1. shift \in [S -> T]
    BY <1>1, <1>2, <1>3 DEF Ahead
  <2>2. \A i, j \in S : shift[i] = shift[j] => i = j
    BY <1>3
  <2>3. \A j \in T : \E i \in S : shift[i] = j
    <3> SUFFICES ASSUME NEW j \in T
                 PROVE  \E i \in S : shift[i] = j
      OBVIOUS
    <3>1. j - 1 \in 1 .. k /\ t[j - 1] = s[j]
      BY <1>1, <1>2
    <3>2. j - 1 \in S
      BY <3>1 DEF Ahead
    <3>3. shift[j - 1] = j
      BY <3>1, <3>2
    <3> QED
      BY <3>2, <3>3
  <2> QED
    BY <2>1, <2>2, <2>3 DEF Bijection, Injection, IsInjective, Surjection
<1>5. IsFiniteSet(S) /\ Cardinality(S) \in Nat
  BY <1>1, <1>2, AheadFinite
<1>6. IsFiniteSet(T) /\ Cardinality(T) = Cardinality(S)
  BY <1>4, <1>5, FS_Bijection DEF ExistsBijection
<1>7. CASE Own(Head(s), f)
  <2>1. Ahead(s, f, k + 1) = T \cup {1}
    BY <1>1, <1>2, <1>7 DEF Ahead
  <2>2. 1 \notin T
    OBVIOUS
  <2> QED
    BY <1>5, <1>6, <1>7, <2>1, <2>2, FS_AddElement DEF t
<1>8. CASE ~ Own(Head(s), f)
  <2>1. Ahead(s, f, k + 1) = T
    BY <1>1, <1>2, <1>8 DEF Ahead
  <2> HIDE DEF S, T
  <2>2. Cardinality(Ahead(s, f, k + 1)) = Cardinality(S) + 0
    BY <1>5, <1>6, <2>1
  <2> QED
    BY <1>8, <2>2 DEF S, t
<1> QED
  BY <1>7, <1>8

\* A packet that is sent comes after all others.
LEMMA AheadAppend ==
    ASSUME NEW s \in Seq(DataPacket), NEW f \in Nat, NEW p \in DataPacket
    PROVE  /\ \A k \in 1 .. Len(s) : Ahead(Append(s, p), f, k) = Ahead(s, f, k)
           /\ Cardinality(Ahead(Append(s, p), f, Len(s) + 1)) =
                  Cardinality(Ahead(s, f, Len(s))) + (IF Own(p, f) THEN 1 ELSE 0)
<1> DEFINE t == Append(s, p)
           S == Ahead(s, f, Len(s))
<1>1. /\ Len(s) \in Nat
      /\ \A i \in 1 .. Len(s) : t[i] = s[i]
      /\ t[Len(s) + 1] = p
  BY AppendFacts
<1> HIDE DEF t
<1>2. \A k \in 1 .. Len(s) : Ahead(t, f, k) = Ahead(s, f, k)
  BY <1>1 DEF Ahead
<1>3. IsFiniteSet(S) /\ Cardinality(S) \in Nat
  BY <1>1, AheadFinite
<1>4. CASE Own(p, f)
  <2>1. Ahead(t, f, Len(s) + 1) = S \cup {Len(s) + 1}
    BY <1>1, <1>4 DEF Ahead
  <2>2. Len(s) + 1 \notin S
    BY <1>1 DEF Ahead
  <2> QED
    BY <1>2, <1>3, <1>4, <2>1, <2>2, FS_AddElement DEF t
<1>5. CASE ~ Own(p, f)
  <2>1. Ahead(t, f, Len(s) + 1) = S
    BY <1>1, <1>5 DEF Ahead
  <2> QED
    BY <1>2, <1>3, <1>5, <2>1 DEF t
<1> QED
  BY <1>4, <1>5

\* When the first packet is taken there is room for it, if it is of f.
LEMMA FitsTail ==
    ASSUME NEW s \in Seq(DataPacket), s # <<>>, NEW f \in Nat, NEW n \in Nat, NEW max \in Nat,
           NEW m \in Nat, m = n \/ (m = n + 1 /\ Own(Head(s), f))
    PROVE  /\ AllFit(s, f, n, max) => AllFit(Tail(s), f, m, max)
           /\ FinFits(s, f, n, max) => FinFits(Tail(s), f, m, max)
           /\ FinFits(s, f, n, max) /\ Head(s).fid = f /\ Head(s).type = "FIN" => n + 1 <= max
<1> DEFINE t == Tail(s)
<1>1. /\ Len(s) \in Nat /\ Len(s) > 0 /\ Head(s) = s[1] /\ Len(t) = Len(s) - 1
      /\ t \in Seq(DataPacket) /\ Len(t) \in Nat
      /\ \A i \in 1 .. Len(t) : t[i] = s[i + 1]
  BY TailFacts
<1>2. \A k \in 0 .. Len(t) :
          /\ Cardinality(Ahead(t, f, k)) \in Nat
          /\ Cardinality(Ahead(s, f, k + 1)) =
                 Cardinality(Ahead(t, f, k)) + (IF Own(Head(s), f) THEN 1 ELSE 0)
  <2>1. \A k \in 0 .. Len(t) : Cardinality(Ahead(t, f, k)) \in Nat
    <3> SUFFICES ASSUME NEW k \in 0 .. Len(t)
                 PROVE  Cardinality(Ahead(t, f, k)) \in Nat
      OBVIOUS
    <3> HIDE DEF t
    <3>1. k \in Nat
      BY <1>1
    <3> QED
      BY <1>1, <3>1, AheadFinite
  <2> QED
    BY <2>1, AheadTail
<1> HIDE DEF t
<1>3. \A k \in 0 .. Len(t) :
          m + Cardinality(Ahead(t, f, k)) <= n + Cardinality(Ahead(s, f, k + 1))
  BY <1>2
<1>4. \A k \in 0 .. Len(t) : Cardinality(Ahead(s, f, k + 1)) \in Nat
  BY <1>2
<1>5. AllFit(s, f, n, max) => AllFit(t, f, m, max)
  <2>1. Len(t) \in 0 .. Len(t) /\ Len(t) + 1 = Len(s)
    BY <1>1
  <2> QED
    BY <1>2, <1>3, <1>4, <2>1 DEF AllFit
<1>6. FinFits(s, f, n, max) => FinFits(t, f, m, max)
  <2> SUFFICES ASSUME FinFits(s, f, n, max), NEW k \in 1 .. Len(t),
                      t[k].fid = f, t[k].type = "FIN"
               PROVE  m + Cardinality(Ahead(t, f, k)) <= max
    BY DEF FinFits
  <2>1. k \in 0 .. Len(t) /\ k + 1 \in 1 .. Len(s) /\ t[k] = s[k + 1]
    BY <1>1
  <2>2. n + Cardinality(Ahead(s, f, k + 1)) <= max
    BY <2>1 DEF FinFits
  <2> QED
    BY <1>2, <1>3, <1>4, <2>1, <2>2
<1>7. ASSUME FinFits(s, f, n, max), Head(s).fid = f, Head(s).type = "FIN"
      PROVE  n + 1 <= max
  <2>1. 0 \in 0 .. Len(t) /\ 0 + 1 = 1 /\ 1 \in 1 .. Len(s)
    BY <1>1
  <2>2. n + Cardinality(Ahead(s, f, 1)) <= max
    BY <1>1, <1>7, <2>1 DEF FinFits
  <2>3. Own(Head(s), f)
    BY <1>7 DEF Own
  <2>4. Cardinality(Ahead(s, f, 1)) >= 1 /\ Cardinality(Ahead(s, f, 1)) \in Nat
    BY <1>2, <2>1, <2>3
  <2> QED
    BY <2>2, <2>4
<1> QED
  BY <1>5, <1>6, <1>7 DEF t

\* A packet that is sent adds one to those of f, or none.
LEMMA FitsAppend ==
    ASSUME NEW s \in Seq(DataPacket), NEW f \in Nat, NEW n \in Nat, NEW max \in Nat,
           NEW p \in DataPacket
    PROVE  /\ AllFit(s, f, n, max) => AllFit(Append(s, p), f, n, max + 1)
           /\ AllFit(s, f, n, max) /\ ~ Own(p, f) => AllFit(Append(s, p), f, n, max)
           /\ FinFits(s, f, n, max) /\ ~ (p.fid = f /\ p.type = "FIN") =>
                 FinFits(Append(s, p), f, n, max)
           /\ FinFits(s, f, n, max) /\ AllFit(s, f, n, max - 1) => FinFits(Append(s, p), f, n, max)
           /\ NoOwn(s, f) => AllFit(s, f, 0, 0)
<1> DEFINE t == Append(s, p)
<1>1. /\ Len(s) \in Nat /\ Len(t) = Len(s) + 1
      /\ \A i \in 1 .. Len(s) : t[i] = s[i]
      /\ t[Len(s) + 1] = p
  BY AppendFacts
<1>2. /\ \A k \in 1 .. Len(s) : Ahead(t, f, k) = Ahead(s, f, k)
      /\ Cardinality(Ahead(t, f, Len(s) + 1)) =
             Cardinality(Ahead(s, f, Len(s))) + (IF Own(p, f) THEN 1 ELSE 0)
  BY AheadAppend
<1>3. Cardinality(Ahead(s, f, Len(s))) \in Nat
  BY <1>1, AheadFinite
<1> HIDE DEF t
<1>4. /\ AllFit(s, f, n, max) => AllFit(t, f, n, max + 1)
      /\ AllFit(s, f, n, max) /\ ~ Own(p, f) => AllFit(t, f, n, max)
  BY <1>1, <1>2, <1>3 DEF AllFit
<1>5. ASSUME FinFits(s, f, n, max), ~ (p.fid = f /\ p.type = "FIN") \/ AllFit(s, f, n, max - 1)
      PROVE  FinFits(t, f, n, max)
  <2> SUFFICES ASSUME NEW k \in 1 .. Len(t), t[k].fid = f, t[k].type = "FIN"
               PROVE  n + Cardinality(Ahead(t, f, k)) <= max
    BY DEF FinFits
  <2>1. CASE k \in 1 .. Len(s)
    BY <1>1, <1>2, <1>5, <2>1 DEF FinFits
  <2>2. CASE k = Len(s) + 1
    BY <1>1, <1>2, <1>3, <1>5, <2>2 DEF AllFit
  <2> QED
    BY <1>1, <2>1, <2>2
<1>6. NoOwn(s, f) => AllFit(s, f, 0, 0)
  <2>1. NoOwn(s, f) => Ahead(s, f, Len(s)) = {}
    BY DEF NoOwn, Ahead
  <2> QED
    BY <2>1, FS_EmptySet DEF AllFit
<1> QED
  BY <1>4, <1>5, <1>6 DEF t
-----------------------------------------------------------------------------
(* What a step leaves under way *)

\* A packet or an answer may be lost.
LEMMA LossKeeps ==
    ASSUME NumbersTyped, SourceTyped,
           NEW s \in Seq(DataPacket), NEW b \in Seq(Answer), NetsFit(s, b)
    PROVE  /\ s # <<>> => NetsFit(Tail(s), b)
           /\ b # <<>> => NetsFit(s, Tail(b))
<1> USE DEF NumbersTyped, SourceTyped
<1>1. ASSUME s # <<>>
      PROVE  NetsFit(Tail(s), b)
  <2>1. RecvFits(Tail(s), b) /\ SynsFit(Tail(s), b)
    BY <1>1, TailKeeps DEF NetsFit, RecvFits, SynsFit
  <2>2. /\ AllFit(s, fid, num_received, num_sent) => AllFit(Tail(s), fid, num_received, num_sent)
        /\ FinFits(s, fid, num_received, numpkts) => FinFits(Tail(s), fid, num_received, numpkts)
    BY <1>1, FitsTail
  <2>3. CountsFit(Tail(s), b)
    BY <1>1, <2>2, TailKeeps DEF NetsFit, CountsFit
  <2> QED
    BY <2>1, <2>3 DEF NetsFit
<1>2. ASSUME b # <<>>
      PROVE  NetsFit(s, Tail(b))
  BY <1>2, BackTailKeeps DEF NetsFit, RecvFits, SynsFit, CountsFit
<1> QED
  BY <1>1, <1>2

\* What the source learns from the next answer.
LEMMA AnswerFits ==
    ASSUME NumbersTyped, NEW s, NEW b \in Seq(Answer), NetsFit(s, b),
           b # <<>>, is_active, Head(b).fid = fid
    PROVE  /\ Head(b).count \in Nat
           /\ Head(b).count <= delivered
           /\ Head(b).type = "FINACK" => Head(b).count <= numpkts
           /\ Head(b).type = "SYNACK" /\ earlySyn = 0 => NoSyn(s)
<1>1. 1 \in 1 .. Len(b) /\ Head(b) = b[1] /\ Head(b) \in Answer
  BY TailFacts
<1> QED
  BY <1>1 DEF Answer, NetsFit, RecvFits, SynsFit, CountsFit, CountsUpTo, FinCountsUpTo, None

\* timeout() keeps the invariant, when no answer to a SYN can come before it.
LEMMA TimeoutKeeps ==
    ASSUME RcpInv, is_active, NEW st, NEW ts \in SUBSET timers, timeout(st, ts),
           "ref" \notin ts,
           \/ st = "RUNNING" /\ state \in {"SYNSENT", "RUNNING"}
           \/ st = "RETRANSMIT" /\ state = "RETRANSMIT",
           earlySyn = 0 => NoSyn(fwd),
           NetsFit(fwd, back'), back' \in Seq(Answer),
           num_acked' \in Nat, num_acked' < numpkts,
           UNCHANGED <<pairVars, recvVars, num_to_retransmit, ref_seqno, earlySyn>>
    PROVE  RcpInv'
<1> USE DEF pairVars, recvVars
<1>1. NumbersTyped'
  BY DEF RcpInv, NumbersTyped
<1>2. SourceTyped'
  <2>1. state' \in SourceState /\ num_sent' \in Nat /\ num_resent' \in Nat
    BY DEF RcpInv, SourceTyped, timeout, SourceState
  <2>2. timers' \in SUBSET {"data", "ref", "rto"}
    BY DEF RcpInv, SourceTyped, timeout, AllSent
  <2> QED
    BY <2>1, <2>2 DEF SourceTyped
<1>3. TimersFit'
  BY DEF RcpInv, TimersFit, SourceTyped, timeout, AllSent
<1>4. PICK p \in DataPacket :
          /\ fwd' = Append(fwd, p) /\ p.fid = fid
          /\ p.type \in {"DATA", "FIN"} /\ (p.type = "DATA" <=> state' # "FINSENT")
  <2>1. PICK type \in {"DATA", "FIN"} :
            fwd' = Append(fwd, [fid |-> fid, type |-> type]) /\ (type = "DATA" <=> state' # "FINSENT")
    BY DEF timeout, Send
  <2> DEFINE p == [fid |-> fid, type |-> type]
  <2>2. p \in DataPacket /\ p.fid = fid /\ p.type = type
    BY DEF DataPacket, RcpInv, NumbersTyped
  <2> QED
    BY <2>1, <2>2
<1>5. NetsTyped'
  BY <1>4, AppendFacts DEF RcpInv, NetsTyped
<1>6. state' \in {"RUNNING", "FINSENT", "RETRANSMIT"}
  BY DEF timeout
<1>7. fwd \in Seq(DataPacket) /\ fid \in Nat /\ num_received \in Nat /\ numpkts \in Nat /\ num_sent \in Nat
  BY DEF RcpInv, NetsTyped, NumbersTyped, SourceTyped
<1>8. RecvFits(fwd, back)'
  <2>1. Old(fwd', fid) /\ (SynsFirst(fwd, fid) => SynsFirst(fwd', fid)) /\ (NoSyn(fwd) => NoSyn(fwd'))
    BY <1>4, <1>7, AppendKeeps DEF NetsFit, RecvFits, NumbersTyped
  <2> QED
    BY <1>6, <2>1 DEF NetsFit, RecvFits
<1>9. SynsFit(fwd, back)'
  <2>1. earlySyn = 0 => NoSyn(fwd')
    BY <1>4, <1>7, AppendKeeps
  <2> QED
    BY <1>6, <2>1 DEF SynsFit
<1>10. CountsFit(fwd, back)'
  <2>1. FinFits(fwd, fid, num_received, numpkts) /\ FinCountsUpTo(back', fid, numpkts)
    BY DEF NetsFit, CountsFit
  <2>2. CASE st = "RETRANSMIT"
    <3>1. state' = "RETRANSMIT"
      BY <2>2 DEF timeout
    <3>2. FinFits(fwd', fid, num_received, numpkts)
      BY <1>4, <1>7, <2>1, <3>1, FitsAppend
    <3> QED
      BY <2>1, <3>1, <3>2 DEF CountsFit
  <2>3. CASE st = "RUNNING"
    <3>1. AllFit(fwd, fid, num_received, num_sent) /\ num_sent < numpkts
          /\ None(fwd, fid, "FIN") /\ None(back', fid, "FINACK")
      <4>1. CASE state = "RUNNING"
        BY <4>1 DEF NetsFit, CountsFit
      <4>2. CASE state = "SYNSENT"
        <5>1. num_received = 0 /\ num_sent = 0 /\ NoOwn(fwd, fid)
          BY <4>2 DEF NetsFit, RecvFits, CountsFit
        <5>2. AllFit(fwd, fid, 0, 0)
          BY <1>4, <1>7, <5>1, FitsAppend
        <5> QED
          BY <1>7, <4>2, <5>1, <5>2 DEF NetsFit, CountsFit, RcpInv, TimersFit
      <4> QED
        BY <2>3, <4>1, <4>2
    <3>2. CASE num_sent < numpkts - 1
      <4>1. num_sent' = num_sent + 1 /\ state' = "RUNNING"
        BY <1>7, <2>3, <3>2 DEF timeout
      <4>2. p.type = "DATA"
        BY <1>4, <4>1
      <4>3. /\ AllFit(fwd', fid, num_received, num_sent')
            /\ FinFits(fwd', fid, num_received, numpkts)
        BY <1>4, <1>7, <2>1, <3>1, <4>1, <4>2, FitsAppend
      <4>4. None(fwd', fid, "FIN")
        BY <1>4, <1>7, <3>1, <4>2, AppendKeeps
      <4> QED
        BY <1>7, <2>1, <3>1, <3>2, <4>1, <4>3, <4>4 DEF CountsFit
    <3>3. CASE ~ (num_sent < numpkts - 1)
      <4>1. state' = "FINSENT" /\ num_sent = numpkts - 1
        BY <1>7, <2>3, <3>1, <3>3 DEF timeout
      <4>2. FinFits(fwd', fid, num_received, numpkts)
        BY <1>4, <1>7, <2>1, <3>1, <4>1, FitsAppend
      <4> QED
        BY <2>1, <4>1, <4>2 DEF CountsFit
    <3> QED
      BY <3>2, <3>3
  <2> QED
    BY <2>2, <2>3
<1> QED
  BY <1>1, <1>2, <1>3, <1>5, <1>8, <1>9, <1>10 DEF RcpInv, NetsFit
\* An answer that makes the source send nothing keeps the invariant.
LEMMA AnswerKeeps ==
    ASSUME RcpInv, is_active, NetsFit(fwd, back'), back' \in Seq(Answer),
           num_acked' \in Nat, num_acked' < numpkts, state = "SYNSENT" => num_acked' = 0,
           timers' = timers \/ (state = "RUNNING" /\ timers' = timers \cup {"data"}),
           UNCHANGED <<pairVars, recvVars, state, num_sent, num_resent, fwd,
                       num_to_retransmit, ref_seqno, earlySyn>>
    PROVE  RcpInv'
<1> USE DEF pairVars, recvVars
<1>1. NumbersTyped' /\ NetsTyped'
  BY DEF RcpInv, NumbersTyped, NetsTyped
<1>2. SourceTyped'
  BY DEF RcpInv, SourceTyped
<1>3. TimersFit'
  BY DEF RcpInv, TimersFit
<1>4. RecvFits(fwd, back)' /\ SynsFit(fwd, back)'
  BY DEF NetsFit, RecvFits, SynsFit
<1>5. CountsFit(fwd, back)'
  BY DEF NetsFit, CountsFit, RcpInv, TimersFit
<1> QED
  BY <1>1, <1>2, <1>3, <1>4, <1>5 DEF RcpInv, NetsFit

\* A new rate does.
LEMMA RateChangeKeeps ==
    ASSUME RcpInv, is_active, rate_change, NetsFit(fwd, back'), back' \in Seq(Answer),
           num_acked' \in Nat, num_acked' < numpkts, state = "SYNSENT" => num_acked' = 0,
           UNCHANGED <<pairVars, recvVars, num_to_retransmit, ref_seqno, earlySyn>>
    PROVE  RcpInv'
<1>1. CASE state = "RUNNING" /\ timeout(state, timers \ {"data"})
  <2>1. "ref" \notin timers /\ (earlySyn = 0 => NoSyn(fwd))
    BY <1>1 DEF RcpInv, TimersFit, NetsFit, SynsFit
  <2>2. timers \ {"data"} \in SUBSET timers /\ "ref" \notin timers \ {"data"}
    BY <2>1
  <2> QED
    BY <1>1, <2>1, <2>2, TimeoutKeeps
<1>2. CASE /\ state = "RUNNING" /\ timers' = timers \cup {"data"}
           /\ UNCHANGED <<state, num_sent, num_resent, fwd>>
  BY <1>2, AnswerKeeps
<1>3. CASE UNCHANGED sendVars
  BY <1>3, AnswerKeeps DEF sendVars
<1> QED
  BY <1>1, <1>2, <1>3 DEF rate_change

\* The end of a transfer does, when no SYN is under way before its data.
LEMMA StopKeeps ==
    ASSUME RcpInv, is_active, stop, SynsLast(fwd, fid),
           NetsFit(fwd, back'), back' \in Seq(Answer), UNCHANGED earlySyn
    PROVE  RcpInv'
<1> USE DEF stop, ResetReceiver
<1>0. NumbersTyped'
  <2>1. is_active' \in BOOLEAN /\ running' \in BOOLEAN
    OBVIOUS
  <2>2. fid' \in Nat /\ numpkts' \in Nat /\ delivered' \in Nat /\ earlySyn' \in Nat
    BY DEF RcpInv, NumbersTyped
  <2>3. /\ num_acked' = 0 /\ ref_seqno' = 0 /\ num_to_retransmit' = 0 /\ num_received' = 0
    OBVIOUS
  <2> HIDE DEF stop, ResetReceiver
  <2> QED
    BY <2>1, <2>2, <2>3 DEF NumbersTyped
<1>1. SourceTyped' /\ NetsTyped'
  <2>1. timers' \in SUBSET {"data", "ref", "rto"}
    OBVIOUS
  <2>2. SourceTyped'
    BY <2>1 DEF SourceTyped, SourceState
  <2> QED
    BY <2>2 DEF RcpInv, NetsTyped
<1>2. TimersFit'
  BY DEF TimersFit
<1>3. RecvFits(fwd, back)'
  BY DEF NetsFit, RecvFits
<1>4. SynsFit(fwd, back)' /\ CountsFit(fwd, back)'
  BY DEF SynsFit, CountsFit
<1> QED
  BY <1>0, <1>1, <1>2, <1>3, <1>4 DEF RcpInv, NetsFit

\* No SYN is under way before data that is, or none at all.
LEMMA LastSyns ==
    ASSUME NEW s \in Seq(DataPacket), NEW f \in Nat, NoOwn(s, f) \/ NoSyn(s)
    PROVE  SynsLast(s, f)
BY DEF NoOwn, NoSyn, SynsLast
-----------------------------------------------------------------------------
(* The invariant *)

LEMMA InitRcpInv == Init => RcpInv
<1> SUFFICES ASSUME Init
             PROVE  RcpInv
  OBVIOUS
<1> USE DEF Init
<1>0. NumbersTyped
  <2>1. is_active \in BOOLEAN /\ running \in BOOLEAN
    OBVIOUS
  <2>2. /\ fid = 0 /\ numpkts = 0 /\ num_acked = 0 /\ ref_seqno = 0 /\ num_to_retransmit = 0
        /\ num_received = 0 /\ delivered = 0 /\ earlySyn = 0
    OBVIOUS
  <2> HIDE DEF Init
  <2> QED
    BY <2>1, <2>2 DEF NumbersTyped
<1>1. SourceTyped /\ NetsTyped
  <2>1. timers \in SUBSET {"data", "ref", "rto"}
    OBVIOUS
  <2>2. SourceTyped
    BY <2>1 DEF SourceTyped, SourceState
  <2>3. NetsTyped
    BY DEF NetsTyped
  <2> QED
    BY <2>2, <2>3
<1>2. TimersFit
  BY DEF TimersFit
<1>3. Len(fwd) = 0 /\ Len(back) = 0
  OBVIOUS
<1>4. NetsFit(fwd, back)
  BY <1>3 DEF NetsFit, RecvFits, SynsFit, CountsFit, Old, SynsLast, NoOwn
<1> QED
  BY <1>0, <1>1, <1>2, <1>4 DEF RcpInv

LEMMA StartKeeps == RcpInv /\ StartTransfer => RcpInv'
<1> SUFFICES ASSUME RcpInv, StartTransfer
             PROVE  RcpInv'
  OBVIOUS
<1> USE DEF StartTransfer
<1> DEFINE p == [fid |-> fid + 1, type |-> "SYN"]
<1>1. /\ fid \in Nat /\ num_received = 0 /\ num_sent = 0 /\ num_acked = 0
      /\ fwd \in Seq(DataPacket) /\ back \in Seq(Answer)
      /\ Old(fwd, fid) /\ Old(back, fid) /\ timers = {}
  BY DEF RcpInv, NumbersTyped, NetsTyped, NetsFit, RecvFits, CountsFit, TimersFit, SourceTyped
<1>2. numpkts' \in Nat /\ numpkts' > 0
  BY RcpAssumption
<1>3. NumbersTyped'
  BY <1>2 DEF RcpInv, NumbersTyped
<1>4. SourceTyped'
  BY <1>1 DEF RcpInv, SourceTyped, SourceState
<1>5. TimersFit'
  BY <1>1, <1>2 DEF TimersFit
<1>6. p \in DataPacket /\ p.fid = fid + 1 /\ p.type = "SYN" /\ fwd' = Append(fwd, p)
  BY <1>1 DEF DataPacket
<1> HIDE DEF p
<1>7. NetsTyped'
  BY <1>1, <1>6, AppendFacts DEF NetsTyped
<1>8. /\ Old(fwd, fid + 1) /\ NoOwn(fwd, fid + 1) /\ SynsFirst(fwd, fid + 1)
      /\ FinFits(fwd, fid + 1, 0, numpkts')
      /\ None(fwd, fid + 1, "FIN")
      /\ Old(back, fid + 1) /\ CountsUpTo(back, fid + 1, 0) /\ FinCountsUpTo(back, fid + 1, numpkts')
      /\ None(back, fid + 1, "SYNACK") /\ None(back, fid + 1, "FINACK")
  BY <1>1, OldKeeps
<1>9. /\ Old(fwd', fid + 1) /\ NoOwn(fwd', fid + 1) /\ SynsFirst(fwd', fid + 1)
      /\ None(fwd', fid + 1, "FIN")
      /\ OneSyn(fwd', fid + 1)
  <2>1. ~ Own(p, fid + 1) /\ fid < fid + 1 /\ fid + 1 \in Nat /\ p.fid <= fid + 1
    BY <1>1, <1>6 DEF Own
  <2> QED
    BY <1>1, <1>6, <1>8, <2>1, AppendKeeps
<1>10. FinFits(fwd', fid + 1, 0, numpkts')
  BY <1>1, <1>2, <1>6, <1>8, FitsAppend
<1>11. RecvFits(fwd, back)' /\ SynsFit(fwd, back)' /\ CountsFit(fwd, back)'
  BY <1>1, <1>2, <1>8, <1>9, <1>10 DEF RecvFits, SynsFit, CountsFit
<1> QED
  BY <1>3, <1>4, <1>5, <1>7, <1>11 DEF RcpInv, NetsFit

LEMMA ScriptStopKeeps == RcpInv /\ StopWhen # "always" /\ Stop => RcpInv'
<1> SUFFICES ASSUME RcpInv, StopWhen # "always", Stop
             PROVE  RcpInv'
  OBVIOUS
<1>1. is_active /\ stop /\ earlySyn = 0 /\ back' = back /\ UNCHANGED earlySyn
  BY DEF Stop, boundVars
<1>2. NoOwn(fwd, fid) \/ NoSyn(fwd)
  BY <1>1 DEF RcpInv, NetsFit, RecvFits, SynsFit
<1>3. SynsLast(fwd, fid)
  BY <1>2, LastSyns DEF RcpInv, NetsTyped, NumbersTyped
<1> QED
  BY <1>1, <1>3, StopKeeps DEF RcpInv, NetsTyped

\* What keeps the invariant but for the network.
LEMMA NetKeeps ==
    ASSUME RcpInv, NetsFit(fwd', back'), fwd' \in Seq(DataPacket), back' \in Seq(Answer),
           UNCHANGED <<pairVars, state, num_sent, num_resent, timers, countVars, recvVars, earlySyn>>
    PROVE  RcpInv'
<1> USE DEF pairVars, countVars, recvVars
<1>1. NumbersTyped' /\ NetsTyped'
  BY DEF RcpInv, NumbersTyped, NetsTyped
<1>2. SourceTyped' /\ TimersFit'
  BY DEF RcpInv, SourceTyped, TimersFit
<1>3. RecvFits(fwd, back)' /\ SynsFit(fwd, back)'
  BY DEF NetsFit, RecvFits, SynsFit
<1>4. CountsFit(fwd, back)'
  BY DEF NetsFit, CountsFit
<1> QED
  BY <1>1, <1>2, <1>3, <1>4 DEF RcpInv, NetsFit

LEMMA LoseKeeps == RcpInv /\ Lose => RcpInv'
<1> SUFFICES ASSUME RcpInv, Lose
             PROVE  RcpInv'
  OBVIOUS
<1>1. fwd \in Seq(DataPacket) /\ back \in Seq(Answer)
  BY DEF RcpInv, NetsTyped
<1>2. CASE fwd # <<>> /\ fwd' = Tail(fwd) /\ UNCHANGED back
  BY <1>1, <1>2, LossKeeps, TailFacts, NetKeeps DEF Lose, RcpInv
<1>3. CASE back # <<>> /\ back' = Tail(back) /\ UNCHANGED fwd
  BY <1>1, <1>3, LossKeeps, TailFacts, NetKeeps DEF Lose, RcpInv
<1> QED
  BY <1>2, <1>3 DEF Lose

LEMMA ProbeKeeps == RcpInv /\ Probe => RcpInv'
<1> SUFFICES ASSUME RcpInv, Probe
             PROVE  RcpInv'
  OBVIOUS
<1> DEFINE p == [fid |-> fid, type |-> "REF"]
<1>1. /\ fwd \in Seq(DataPacket) /\ back \in Seq(Answer) /\ fid \in Nat
      /\ num_received \in Nat /\ numpkts \in Nat /\ num_sent \in Nat
  BY DEF RcpInv, NetsTyped, NumbersTyped, SourceTyped
<1>2. p \in DataPacket /\ p.fid = fid /\ p.type = "REF" /\ ~ Own(p, fid)
  BY <1>1 DEF DataPacket, Own
<1>3. fwd' = Append(fwd, p)
  BY DEF Probe, Send
<1>4. is_active
  BY DEF Probe, RcpInv, TimersFit
<1> HIDE DEF p
<1>5. fwd' \in Seq(DataPacket)
  BY <1>1, <1>2, <1>3, AppendFacts
<1>6. RecvFits(fwd', back) /\ SynsFit(fwd', back)
  BY <1>1, <1>2, <1>3, <1>4, AppendKeeps DEF RcpInv, NetsFit, RecvFits, SynsFit
<1>7. /\ FinFits(fwd, fid, num_received, numpkts) => FinFits(fwd', fid, num_received, numpkts)
      /\ AllFit(fwd, fid, num_received, num_sent) => AllFit(fwd', fid, num_received, num_sent)
      /\ None(fwd, fid, "FIN") => None(fwd', fid, "FIN")
  BY <1>1, <1>2, <1>3, AppendKeeps, FitsAppend
<1>8. CountsFit(fwd', back)
  BY <1>7 DEF RcpInv, NetsFit, CountsFit
<1> QED
  BY <1>1, <1>5, <1>6, <1>8, NetKeeps DEF Probe, NetsFit

LEMMA RefTimeoutKeeps == RcpInv /\ RefTimeout => RcpInv'
<1> SUFFICES ASSUME RcpInv, RefTimeout
             PROVE  RcpInv'
  OBVIOUS
<1> DEFINE p == [fid |-> fid, type |-> "SYN"]
<1>1. /\ fwd \in Seq(DataPacket) /\ back \in Seq(Answer) /\ fid \in Nat
      /\ num_received = 0 /\ delivered = 0 /\ numpkts \in Nat
      /\ ref_seqno \in Nat /\ earlySyn \in Nat
      /\ state = "SYNSENT" /\ is_active
  BY DEF RefTimeout, RcpInv, NetsTyped, NumbersTyped, SourceTyped, TimersFit, NetsFit, RecvFits
<1>2. /\ fwd' = Append(fwd, p) /\ back' = back
      /\ ref_seqno' = ref_seqno + 1
      /\ timers' = IF ref_seqno' < SynTries THEN timers ELSE timers \ {"ref"}
      /\ "ref" \in timers
      /\ UNCHANGED <<pairVars, state, num_sent, num_resent, num_to_retransmit, num_acked, recvVars>>
      /\ earlySyn' \in Nat /\ (earlySyn' = 0 => earlySyn = 0 /\ fwd = <<>> /\ back = <<>>)
  BY <1>1 DEF RefTimeout, Send, FiresEarly, TriesAgain
<1>3. p \in DataPacket /\ p.fid = fid /\ p.type = "SYN" /\ ~ Own(p, fid)
  BY <1>1 DEF DataPacket, Own
<1> HIDE DEF p
<1>4. NumbersTyped' /\ NetsTyped'
  BY <1>1, <1>2, <1>3, AppendFacts DEF RcpInv, NumbersTyped, NetsTyped, pairVars, recvVars
<1>5. SourceTyped'
  BY <1>2 DEF RcpInv, SourceTyped
<1>6. TimersFit'
  BY <1>1, <1>2, RcpAssumption DEF RcpInv, TimersFit, SourceTyped, pairVars
<1>7. /\ Old(fwd, fid) /\ NoOwn(fwd, fid) /\ SynsFirst(fwd, fid)
      /\ FinFits(fwd, fid, 0, numpkts) /\ None(fwd, fid, "FIN")
  BY <1>1 DEF RcpInv, NetsFit, RecvFits, CountsFit
<1>8. /\ Old(fwd', fid) /\ NoOwn(fwd', fid) /\ SynsFirst(fwd', fid)
      /\ None(fwd', fid, "FIN")
  BY <1>1, <1>2, <1>3, <1>7, AppendKeeps
<1>9. FinFits(fwd', fid, 0, numpkts)
  BY <1>1, <1>2, <1>3, <1>7, FitsAppend
<1>10. RecvFits(fwd, back)'
  BY <1>1, <1>2, <1>8 DEF RcpInv, NetsFit, RecvFits, pairVars, recvVars
<1>11. CountsFit(fwd, back)'
  BY <1>1, <1>2, <1>8, <1>9 DEF RcpInv, NetsFit, CountsFit, pairVars, recvVars
<1>12. SynsFit(fwd, back)'
  <2> SUFFICES ASSUME earlySyn' = 0
               PROVE  OneSyn(fwd', fid) /\ None(back', fid, "SYNACK")
    BY <1>1, <1>2 DEF SynsFit, pairVars
  <2>1. NoSyn(fwd) /\ OneSyn(fwd, fid) /\ None(back, fid, "SYNACK")
    <3>1. fwd = <<>> /\ back = <<>>
      BY <1>2
    <3>2. Len(fwd) = 0 /\ Len(back) = 0
      BY <3>1
    <3> QED
      BY <3>2 DEF NoSyn, OneSyn, None
  <2>2. OneSyn(fwd', fid)
    BY <1>1, <1>2, <1>3, <2>1, AppendKeeps
  <2> QED
    BY <1>2, <2>1, <2>2
<1> QED
  BY <1>4, <1>5, <1>6, <1>10, <1>11, <1>12 DEF RcpInv, NetsFit

LEMMA DataTimeoutKeeps == RcpInv /\ DataTimeout => RcpInv'
<1> SUFFICES ASSUME RcpInv, DataTimeout
             PROVE  RcpInv'
  OBVIOUS
<1>1. state \in {"RUNNING", "RETRANSMIT"} /\ timeout(state, timers \ {"data"})
  BY DEF DataTimeout, timeout
<1>2. is_active /\ "ref" \notin timers /\ (earlySyn = 0 => NoSyn(fwd)) /\ num_acked < numpkts
  BY <1>1 DEF RcpInv, TimersFit, NetsFit, SynsFit, CountsFit
<1>3. back' = back /\ back' \in Seq(Answer) /\ num_acked' \in Nat /\ num_acked' < numpkts
      /\ UNCHANGED <<pairVars, recvVars, num_to_retransmit, ref_seqno, earlySyn>>
  BY <1>2 DEF DataTimeout, RcpInv, NetsTyped, NumbersTyped, countVars, boundVars
<1>4. NetsFit(fwd, back')
  BY <1>3 DEF RcpInv
<1>5. timers \ {"data"} \in SUBSET timers /\ "ref" \notin timers \ {"data"}
  BY <1>2
<1> QED
  BY <1>1, <1>2, <1>3, <1>4, <1>5, TimeoutKeeps

LEMMA RtoTimeoutKeeps == RcpInv /\ RtoTimeout => RcpInv'
<1> SUFFICES ASSUME RcpInv, RtoTimeout
             PROVE  RcpInv'
  OBVIOUS
<1>1. state \in {"FINSENT", "RETRANSMIT"} /\ is_active /\ num_acked < numpkts
      /\ "ref" \notin timers
  BY DEF RtoTimeout, RcpInv, TimersFit, NetsFit, CountsFit
<1>2. /\ state' = "RETRANSMIT" /\ num_resent' = 0
      /\ num_to_retransmit' = numpkts - num_acked
      /\ num_to_retransmit' \in Int /\ num_to_retransmit' > 0
      /\ timers' = (timers \ {"rto"}) \cup {"data"}
      /\ UNCHANGED <<pairVars, num_sent, num_acked, ref_seqno, recvVars, fwd, back, earlySyn>>
  BY <1>1 DEF RtoTimeout, RcpInv, NumbersTyped
<1> USE DEF pairVars, recvVars
<1>3. NumbersTyped' /\ NetsTyped'
  BY <1>2 DEF RcpInv, NumbersTyped, NetsTyped
<1>4. SourceTyped'
  BY <1>2 DEF RcpInv, SourceTyped, SourceState
<1>5. TimersFit'
  BY <1>1, <1>2 DEF RcpInv, TimersFit
<1>6. RecvFits(fwd, back)' /\ SynsFit(fwd, back)' /\ CountsFit(fwd, back)'
  BY <1>1, <1>2 DEF RcpInv, NetsFit, RecvFits, SynsFit, CountsFit
<1> QED
  BY <1>3, <1>4, <1>5, <1>6 DEF RcpInv, NetsFit

\* The receiver's reply to p, with the packets after p under way.
LEMMA RecvKeeps == RcpInv /\ RecvFwd => RcpInv'
<1> SUFFICES ASSUME RcpInv, RecvFwd
             PROVE  RcpInv'
  OBVIOUS
<1> DEFINE p == Head(fwd)
           s == Tail(fwd)
<1>1. /\ fwd \in Seq(DataPacket) /\ fwd # <<>> /\ back \in Seq(Answer)
      /\ fid \in Nat /\ num_received \in Nat /\ delivered \in Nat /\ numpkts \in Nat
      /\ num_sent \in Nat /\ is_active \in BOOLEAN
  BY DEF RecvFwd, RcpInv, NetsTyped, NumbersTyped, SourceTyped
<1>2. /\ fwd' = s /\ s \in Seq(DataPacket) /\ p \in DataPacket /\ p = fwd[1] /\ 1 \in 1 .. Len(fwd)
      /\ p.fid \in Nat
      /\ UNCHANGED <<pairVars, state, num_sent, num_resent, timers, countVars, earlySyn>>
  <2>1. fwd' = s /\ UNCHANGED <<pairVars, state, num_sent, num_resent, timers, countVars, earlySyn>>
    BY DEF RecvFwd, boundVars
  <2>2. s \in Seq(DataPacket) /\ p \in DataPacket /\ p = fwd[1] /\ 1 \in 1 .. Len(fwd)
    BY <1>1, TailFacts
  <2> QED
    BY <2>1, <2>2 DEF DataPacket
<1>3. NetsFit(s, back)
  BY <1>1, LossKeeps DEF RcpInv
<1>4. p.fid <= fid
  BY <1>2 DEF RcpInv, NetsFit, RecvFits, Old
<1>5. SourceTyped' /\ TimersFit'
  BY <1>2 DEF RcpInv, SourceTyped, TimersFit, pairVars, countVars
<1> USE DEF pairVars, countVars
<1>6. CASE ~ Listens
  <2>1. UNCHANGED <<recvVars, back>>
    BY <1>6 DEF RecvFwd
  <2> QED
    BY <1>1, <1>2, <1>3, <2>1, NetKeeps
<1>7. CASE Listens /\ (recv_syn \/ recv_ref)
  <2> DEFINE a == [fid |-> p.fid, type |-> IF p.type = "SYN" THEN "SYNACK" ELSE "REFACK",
                   count |-> IF p.type = "SYN" THEN num_received ELSE 0]
  <2>1. /\ back' = Append(back, a)
        /\ p.type \in {"SYN", "REF"}
        /\ p.type = "REF" => running /\ running' = running /\ p.fid = fid
        /\ p.type = "SYN" => running' = TRUE
        /\ num_received' = num_received /\ delivered' = delivered
    BY <1>7 DEF Listens, recv_syn, recv_ref, Reply, recvVars
  <2>2. /\ a \in Answer /\ a.fid = p.fid /\ a.count \in Nat /\ a.count <= num_received
        /\ a.type \in {"SYNACK", "REFACK"} /\ (a.type = "SYNACK" <=> p.type = "SYN")
    BY <1>1, <1>2 DEF Answer
  <2> HIDE DEF a
  <2>3. running' \in BOOLEAN
    BY <2>1 DEF RcpInv, NumbersTyped
  <2>4. NumbersTyped'
    BY <1>2, <2>1, <2>3 DEF RcpInv, NumbersTyped
  <2>5. NetsTyped'
    BY <1>1, <1>2, <2>1, <2>2, AppendFacts DEF NetsTyped
  <2>6. /\ Old(back', fid)
        /\ is_active => CountsUpTo(back', fid, delivered) /\ FinCountsUpTo(back', fid, numpkts)
        /\ None(back, fid, "FINACK") => None(back', fid, "FINACK")
        /\ None(back, fid, "SYNACK") /\ (p.type = "REF" \/ p.fid # fid) => None(back', fid, "SYNACK")
    <3>1. is_active => num_received <= delivered /\ CountsUpTo(back, fid, delivered)
                       /\ FinCountsUpTo(back, fid, numpkts)
      BY <1>3 DEF NetsFit, RecvFits, CountsFit
    <3>2. Old(back, fid)
      BY <1>3 DEF NetsFit, RecvFits
    <3> QED
      BY <1>1, <1>4, <2>1, <2>2, <3>1, <3>2, BackAppendKeeps
  <2>7. RecvFits(fwd, back)'
    <3>1. ~ is_active /\ p.type = "SYN" => NoOwn(s, fid)
      BY <1>1, <1>2, TailKeeps DEF RcpInv, NetsFit, RecvFits
    <3> QED
      BY <1>2, <1>3, <2>1, <2>6, <3>1 DEF NetsFit, RecvFits
  <2>8. SynsFit(fwd, back)'
    <3> SUFFICES ASSUME earlySyn = 0, is_active
                 PROVE  /\ state = "SYNSENT" => OneSyn(s, fid)
                        /\ None(back', fid, "SYNACK") \/ NoSyn(s)
                        /\ state = "SYNSENT" \/ NoSyn(s)
      BY <1>2 DEF SynsFit
    <3>1. /\ state = "SYNSENT" => OneSyn(s, fid)
          /\ None(back, fid, "SYNACK") \/ NoSyn(s)
          /\ state = "SYNSENT" \/ NoSyn(s)
      BY <1>3 DEF NetsFit, SynsFit
    <3>2. p.type = "SYN" /\ p.fid = fid => NoSyn(s)
      <4>1. state = "SYNSENT" => OneSyn(fwd, fid)
        BY DEF RcpInv, NetsFit, SynsFit
      <4> QED
        BY <1>1, <3>1, <4>1, TailKeeps
    <3> QED
      BY <2>1, <2>6, <3>1, <3>2
  <2>9. CountsFit(fwd, back)'
    BY <1>2, <1>3, <2>1, <2>6 DEF NetsFit, CountsFit
  <2> QED
    BY <1>5, <2>4, <2>5, <2>7, <2>8, <2>9 DEF RcpInv, NetsFit
<1>8. CASE Listens /\ (recv_data("DATA", "ACK") \/ recv_data("FIN", "FINACK"))
  <2> DEFINE a == [fid |-> fid, type |-> IF p.type = "DATA" THEN "ACK" ELSE "FINACK",
                   count |-> num_received + 1]
  <2>1. /\ back' = Append(back, a)
        /\ p.type \in {"DATA", "FIN"} /\ running /\ p.fid = fid /\ Own(p, fid)
        /\ running' = running
        /\ num_received' = num_received + 1 /\ delivered' = delivered + 1
    BY <1>8 DEF Listens, recv_data, Reply, Own
  <2>2. /\ a \in Answer /\ a.fid = fid /\ a.count = num_received + 1
        /\ a.type \in {"ACK", "FINACK"} /\ (a.type = "FINACK" <=> p.type = "FIN")
    BY <1>1, <2>1 DEF Answer
  <2> HIDE DEF a
  <2>3. is_active
    BY <1>2, <2>1 DEF RcpInv, NetsFit, RecvFits, NoOwn
  <2>4. NumbersTyped'
    BY <1>1, <1>2, <2>1 DEF RcpInv, NumbersTyped
  <2>5. NetsTyped'
    BY <1>1, <1>2, <2>1, <2>2, AppendFacts DEF NetsTyped
  <2>6. state # "SYNSENT" /\ NoSyn(s)
    <3>1. SynsFirst(fwd, fid) /\ (state = "SYNSENT" => NoOwn(fwd, fid))
      BY <2>3 DEF RcpInv, NetsFit, RecvFits
    <3>2. NoSyn(s)
      BY <1>1, <2>1, <3>1, TailKeeps
    <3>3. state # "SYNSENT"
      BY <1>2, <2>1, <3>1 DEF NoOwn
    <3> QED
      BY <3>2, <3>3
  <2>7. num_received <= delivered /\ CountsUpTo(back, fid, delivered) /\ Old(back, fid)
    BY <1>3, <2>3 DEF NetsFit, RecvFits
  <2>8. CountsUpTo(back, fid, delivered + 1)
    <3>1. \A i \in 1 .. Len(back) : back[i] \in Answer
      BY <1>1
    <3>2. \A i \in 1 .. Len(back) : back[i].count \in Nat
      BY <3>1 DEF Answer
    <3> QED
      BY <1>1, <2>7, <3>2 DEF CountsUpTo
  <2>9. /\ FinFits(fwd, fid, num_received, numpkts) /\ FinCountsUpTo(back, fid, numpkts)
        /\ state = "RUNNING" =>
              /\ AllFit(fwd, fid, num_received, num_sent) /\ num_sent < numpkts
              /\ None(fwd, fid, "FIN") /\ None(back, fid, "FINACK")
        /\ num_acked < numpkts
    BY <2>3 DEF RcpInv, NetsFit, CountsFit
  <2>10. /\ FinFits(s, fid, num_received + 1, numpkts)
         /\ state = "RUNNING" => AllFit(s, fid, num_received + 1, num_sent)
         /\ p.type = "FIN" => num_received + 1 <= numpkts
    <3>1. num_received + 1 \in Nat
      BY <1>1
    <3> QED
      BY <1>1, <2>1, <2>9, <3>1, FitsTail
  <2>11. /\ Old(back', fid) /\ CountsUpTo(back', fid, delivered')
         /\ FinCountsUpTo(back', fid, numpkts)
         /\ state = "RUNNING" => None(back', fid, "FINACK")
    <3>1. num_received + 1 <= delivered + 1
      BY <1>1, <2>7
    <3>2. state = "RUNNING" => p.type # "FIN"
      BY <1>2, <2>1, <2>9 DEF None
    <3> QED
      BY <1>1, <2>1, <2>2, <2>7, <2>8, <2>9, <2>10, <3>1, <3>2, BackAppendKeeps
  <2>12. RecvFits(fwd, back)'
    BY <1>1, <1>2, <1>3, <2>1, <2>3, <2>6, <2>7, <2>11 DEF NetsFit, RecvFits
  <2>13. SynsFit(fwd, back)'
    BY <1>2, <2>6 DEF SynsFit
  <2>14. CountsFit(fwd, back)'
    <3>1. state \in {"SYNSENT", "RUNNING"} => state = "RUNNING" /\ None(s, fid, "FIN")
      BY <1>3, <2>6 DEF NetsFit, CountsFit
    <3>2. state \in {"INACT", "SYNSENT"} => num_sent = 0 /\ num_acked = 0
      BY DEF RcpInv, NetsFit, CountsFit
    <3> QED
      BY <1>2, <2>1, <2>9, <2>10, <2>11, <3>1, <3>2 DEF CountsFit
  <2> QED
    BY <1>5, <2>4, <2>5, <2>12, <2>13, <2>14 DEF RcpInv, NetsFit
<1> QED
  BY <1>6, <1>7, <1>8 DEF RecvFwd

\* A transfer ends when all of its packets have been counted.
LEMMA AnswerEnds ==
    ASSUME RcpInv, RecvBack, is_active, ~ is_active'
    PROVE  delivered >= numpkts /\ stop
<1>1. Head(back).fid = fid /\ (recv_ack \/ recv_finack) /\ stop
  BY DEF RecvBack, recv_synack, recv_ack, recv_finack, recv_refack, pairVars
<1>2. Head(back).count \in Nat /\ Head(back).count <= delivered
  BY <1>1, AnswerFits DEF RecvBack, RcpInv, NetsTyped
<1>3. AllAcked(Head(back).count) \/ FinAcked(Head(back).count)
  BY <1>1 DEF recv_ack, recv_finack, pairVars
<1>4. numpkts \in Nat /\ delivered \in Nat
  BY DEF RcpInv, NumbersTyped
<1> QED
  BY <1>1, <1>2, <1>3, <1>4 DEF AllAcked, FinAcked

\* The source takes the next answer, the others being under way.
LEMMA RecvBackKeeps == RcpInv /\ RecvBack => RcpInv'
<1> SUFFICES ASSUME RcpInv, RecvBack
             PROVE  RcpInv'
  OBVIOUS
<1>1. /\ fwd \in Seq(DataPacket) /\ back \in Seq(Answer) /\ back # <<>>
      /\ numpkts \in Nat /\ delivered \in Nat /\ num_acked \in Nat
  BY DEF RecvBack, RcpInv, NetsTyped, NumbersTyped
<1>2. back' \in Seq(Answer) /\ NetsFit(fwd, back') /\ UNCHANGED earlySyn
  BY <1>1, TailFacts, LossKeeps DEF RecvBack, RcpInv, boundVars
<1>3. CASE UNCHANGED <<pairVars, sendVars, countVars, recvVars>>
  BY <1>1, <1>2, <1>3, NetKeeps DEF sendVars
<1>4. CASE state # "INACT" /\ Head(back).fid = fid
  <2>1. is_active /\ num_acked < numpkts
    BY <1>4 DEF RcpInv, TimersFit, NetsFit, CountsFit
  <2>2. /\ Head(back).count \in Nat
        /\ Head(back).count <= delivered
        /\ Head(back).type = "FINACK" => Head(back).count <= numpkts
        /\ Head(back).type = "SYNACK" /\ earlySyn = 0 => NoSyn(fwd)
    BY <1>1, <1>4, <2>1, AnswerFits DEF RcpInv
  <2>3. state = "SYNSENT" => delivered = 0 /\ num_acked = 0
    BY DEF RcpInv, NetsFit, RecvFits, CountsFit
  <2>4. CASE stop
    <3>1. delivered >= numpkts /\ numpkts > 0
      BY <2>1, <2>4, AnswerEnds DEF stop, RcpInv, TimersFit
    <3>2. NoSyn(fwd)
      BY <1>1, <2>1, <3>1 DEF RcpInv, NetsFit, RecvFits
    <3>3. SynsLast(fwd, fid)
      BY <1>1, <3>2, LastSyns DEF RcpInv, NumbersTyped
    <3> QED
      BY <1>2, <2>1, <2>4, <3>3, StopKeeps
  <2>5. CASE recv_synack
    <3>1. UNCHANGED <<pairVars, recvVars, num_to_retransmit, num_acked, ref_seqno, earlySyn>>
      BY <1>2, <2>5 DEF recv_synack, countVars
    <3>2. CASE state = "SYNSENT"
      <4>1. timeout("RUNNING", timers \ {"ref"})
        BY <2>5, <3>2 DEF recv_synack, start
      <4>2. timers \ {"ref"} \in SUBSET timers /\ "ref" \notin timers \ {"ref"}
        OBVIOUS
      <4>3. earlySyn = 0 => NoSyn(fwd)
        BY <2>2, <2>5 DEF recv_synack
      <4> QED
        BY <1>1, <1>2, <2>1, <3>1, <3>2, <4>1, <4>2, <4>3, TimeoutKeeps
    <3>3. CASE UNCHANGED sendVars
      BY <1>1, <1>2, <2>5, <3>3, NetKeeps DEF recv_synack, sendVars
    <3> QED
      BY <2>5, <3>2, <3>3 DEF recv_synack
  <2>6. CASE recv_ack /\ ~ AllAcked(Head(back).count)
    <3>1. /\ num_acked' = Head(back).count /\ rate_change
          /\ UNCHANGED <<pairVars, num_to_retransmit, ref_seqno, recvVars>>
      BY <2>6 DEF recv_ack
    <3>2. num_acked' \in Nat /\ num_acked' < numpkts /\ (state = "SYNSENT" => num_acked' = 0)
      BY <1>1, <2>2, <2>3, <2>6, <3>1 DEF AllAcked
    <3> QED
      BY <1>2, <2>1, <3>1, <3>2, RateChangeKeeps
  <2>7. CASE recv_finack /\ ~ FinAcked(Head(back).count)
    <3>1. /\ num_acked' = Head(back).count
          /\ UNCHANGED <<pairVars, sendVars, num_to_retransmit, ref_seqno, recvVars>>
      BY <2>7 DEF recv_finack
    <3>2. num_acked' \in Nat /\ num_acked' < numpkts /\ (state = "SYNSENT" => num_acked' = 0)
      BY <1>1, <2>2, <2>3, <2>7, <3>1 DEF recv_finack, FinAcked
    <3> QED
      BY <1>2, <2>1, <3>1, <3>2, AnswerKeeps DEF sendVars
  <2>8. CASE recv_refack
    <3>1. rate_change /\ UNCHANGED <<pairVars, countVars, recvVars>>
      BY <2>8 DEF recv_refack
    <3>2. num_acked' \in Nat /\ num_acked' < numpkts /\ (state = "SYNSENT" => num_acked' = 0)
      BY <1>1, <2>1, <2>3, <3>1 DEF countVars
    <3> QED
      BY <1>2, <2>1, <3>1, <3>2, RateChangeKeeps DEF countVars
  <2> QED
    BY <1>4, <2>4, <2>5, <2>6, <2>7, <2>8 DEF RecvBack, recv_ack, recv_finack
<1> QED
  BY <1>3, <1>4 DEF RecvBack

LEMMA NextRcpInv == RcpInv /\ StopWhen # "always" /\ [Next]_vars => RcpInv'
<1> SUFFICES ASSUME RcpInv, StopWhen # "always", [Next]_vars
             PROVE  RcpInv'
  OBVIOUS
<1>1. CASE UNCHANGED vars
  <2>1. UNCHANGED <<pairVars, state, num_sent, num_resent, timers, countVars, recvVars, fwd, back, earlySyn>>
    BY <1>1 DEF vars, sendVars, boundVars, pairVars, countVars, recvVars
  <2> QED
    BY <2>1, NetKeeps DEF RcpInv, NetsTyped
<1> QED
  BY <1>1, StartKeeps, ScriptStopKeeps, LoseKeeps, RefTimeoutKeeps, DataTimeoutKeeps,
     RtoTimeoutKeeps, ProbeKeeps, RecvKeeps, RecvBackKeeps DEF Next

LEMMA RcpInvHolds == StopWhen # "always" => (Spec => []RcpInv)
<1> SUFFICES ASSUME StopWhen # "always" PROVE Spec => []RcpInv
  OBVIOUS
<1>1. Init => RcpInv
  BY InitRcpInv
<1>2. RcpInv /\ [Next]_vars => RcpInv'
  BY NextRcpInv
<1> QED
  BY <1>1, <1>2, PTL DEF Spec

\* Only StartTransfer makes a transfer active, and only a stop or an answer ends it.
LEMMA Ends ==
    ASSUME RcpInv, [Next]_vars, is_active, ~ is_active'
    PROVE  Stop \/ (RecvBack /\ delivered >= numpkts /\ stop)
<1>1. Stop \/ RecvBack
  <2>1. ~ StartTransfer
    BY DEF StartTransfer
  <2>2. ~ (Lose \/ RefTimeout \/ DataTimeout \/ RtoTimeout \/ Probe \/ RecvFwd) /\ ~ UNCHANGED vars
    BY DEF Lose, RefTimeout, DataTimeout, RtoTimeout, Probe, RecvFwd, vars, pairVars
  <2> QED
    BY <2>1, <2>2 DEF Next
<1> QED
  BY <1>1, AnswerEnds
-----------------------------------------------------------------------------
(* A source that gives up on its SYN *)

\* Which of the packets s, or the answers, are of transfer f and of the type.
OfType(s, f, type) == {i \in 1 .. Len(s) : s[i].fid = f /\ s[i].type = type}

\* The tries of a transfer that are under way, as a SYN or its SYNACK.
TriesUnderWay ==
    Cardinality(OfType(fwd, fid, "SYN")) + Cardinality(OfType(back, fid, "SYNACK"))

\* While the source waits for a SYNACK each try is under way or lost.
TriesInv ==
    /\ losses \in Nat
    /\ state = "INACT" => ref_seqno = 0
    /\ state = "SYNSENT" => ref_seqno <= losses + TriesUnderWay

\* A packet of the type is one more of them.
LEMMA OfTypeAppend ==
    ASSUME NEW S, NEW s \in Seq(S), NEW e \in S, NEW f, NEW type
    PROVE  /\ Cardinality(OfType(s, f, type)) \in Nat
           /\ Cardinality(OfType(Append(s, e), f, type)) =
                  Cardinality(OfType(s, f, type))
                      + (IF e.fid = f /\ e.type = type THEN 1 ELSE 0)
<1> DEFINE t == Append(s, e)
           T == OfType(s, f, type)
           U == OfType(t, f, type)
<1>1. /\ Len(s) \in Nat /\ Len(t) = Len(s) + 1
      /\ \A i \in 1 .. Len(s) : t[i] = s[i]
      /\ t[Len(s) + 1] = e
  BY AppendFacts
<1> HIDE DEF t
<1>2. IsFiniteSet(T) /\ Cardinality(T) \in Nat
  <2>1. IsFiniteSet(1 .. Len(s)) /\ T \in SUBSET (1 .. Len(s))
    BY <1>1, FS_Interval DEF OfType
  <2> QED
    BY <2>1, FS_Subset, FS_CardinalityType
<1>3. ASSUME e.fid = f, e.type = type PROVE Cardinality(U) = Cardinality(T) + 1
  <2>1. U = T \cup {Len(s) + 1}
    BY <1>1, <1>3 DEF OfType
  <2>2. Len(s) + 1 \notin T
    BY <1>1 DEF OfType
  <2> HIDE DEF T, U
  <2> QED
    BY <1>2, <2>1, <2>2, FS_AddElement
<1>4. ASSUME ~ (e.fid = f /\ e.type = type) PROVE Cardinality(U) = Cardinality(T)
  <2>1. U = T
    BY <1>1, <1>4 DEF OfType
  <2> HIDE DEF T, U
  <2> QED
    BY <2>1
<1> HIDE DEF T, U
<1>5. Cardinality(U) = Cardinality(T) + (IF e.fid = f /\ e.type = type THEN 1 ELSE 0)
  BY <1>2, <1>3, <1>4
<1> QED
  BY <1>2, <1>5 DEF t, T, U

\* When the first packet is taken there is one less if it is of the type.
LEMMA OfTypeTail ==
    ASSUME NEW S, NEW s \in Seq(S), s # <<>>, NEW f, NEW type
    PROVE  /\ Cardinality(OfType(Tail(s), f, type)) \in Nat
           /\ Cardinality(OfType(s, f, type)) =
                  Cardinality(OfType(Tail(s), f, type))
                      + (IF Head(s).fid = f /\ Head(s).type = type THEN 1 ELSE 0)
<1> DEFINE t == Tail(s)
           U == OfType(t, f, type)
           T == {i \in 2 .. Len(s) : s[i].fid = f /\ s[i].type = type}
           shift == [i \in U |-> i + 1]
<1>1. /\ Len(s) \in Nat /\ Len(s) > 0 /\ Head(s) = s[1] /\ Len(t) = Len(s) - 1
      /\ \A i \in 1 .. Len(t) : t[i] = s[i + 1]
  BY TailFacts
<1> HIDE DEF t
<1>2. U \subseteq 1 .. Len(t) /\ \A i \in U : t[i] = s[i + 1]
  BY <1>1 DEF OfType
<1>3. shift \in Bijection(U, T)
  <2>1. shift \in [U -> T]
    BY <1>1, <1>2 DEF OfType
  <2>2. \A i, j \in U : shift[i] = shift[j] => i = j
    BY <1>1, <1>2
  <2>3. \A j \in T : \E i \in U : shift[i] = j
    <3> SUFFICES ASSUME NEW j \in T
                 PROVE  \E i \in U : shift[i] = j
      OBVIOUS
    <3>1. j - 1 \in 1 .. Len(t) /\ t[j - 1] = s[j]
      BY <1>1
    <3>2. j - 1 \in U
      BY <3>1 DEF OfType
    <3>3. shift[j - 1] = j
      BY <3>1, <3>2
    <3> QED
      BY <3>2, <3>3
  <2> QED
    BY <2>1, <2>2, <2>3 DEF Bijection, Injection, IsInjective, Surjection
<1>4. IsFiniteSet(U) /\ Cardinality(U) \in Nat
  <2>1. Len(t) \in Nat
    BY <1>1
  <2> HIDE DEF U
  <2>2. IsFiniteSet(1 .. Len(t)) /\ U \in SUBSET (1 .. Len(t))
    BY <1>2, <2>1, FS_Interval
  <2> QED
    BY <2>2, FS_Subset, FS_CardinalityType
<1>5. IsFiniteSet(T) /\ Cardinality(T) = Cardinality(U)
  <2> HIDE DEF T, U, shift
  <2>1. ExistsBijection(U, T)
    BY <1>3 DEF ExistsBijection
  <2> QED
    BY <1>4, <2>1, FS_Bijection
<1> DEFINE V == OfType(s, f, type)
<1>6. ASSUME Head(s).fid = f, Head(s).type = type PROVE Cardinality(V) = Cardinality(U) + 1
  <2>1. V = T \cup {1}
    BY <1>1, <1>6 DEF OfType
  <2>2. 1 \notin T
    OBVIOUS
  <2> HIDE DEF T, U, V
  <2> QED
    BY <1>4, <1>5, <2>1, <2>2, FS_AddElement
<1>7. ASSUME ~ (Head(s).fid = f /\ Head(s).type = type) PROVE Cardinality(V) = Cardinality(U)
  <2>1. V = T
    BY <1>1, <1>7 DEF OfType
  <2> HIDE DEF T, U, V
  <2> QED
    BY <1>5, <2>1
<1> HIDE DEF T, U, V, shift
<1>8. Cardinality(V) = Cardinality(U) + (IF Head(s).fid = f /\ Head(s).type = type THEN 1 ELSE 0)
  BY <1>4, <1>6, <1>7
<1> QED
  BY <1>4, <1>8 DEF t, U, V

\* The tries under way are a number.
LEMMA TriesFacts ==
    ASSUME RcpInv
    PROVE  /\ fwd \in Seq(DataPacket) /\ back \in Seq(Answer) /\ ref_seqno \in Nat /\ fid \in Nat
           /\ \A f, type : /\ Cardinality(OfType(fwd, f, type)) \in Nat
                           /\ Cardinality(OfType(back, f, type)) \in Nat
<1>1. fwd \in Seq(DataPacket) /\ back \in Seq(Answer) /\ ref_seqno \in Nat /\ fid \in Nat
  BY DEF RcpInv, NetsTyped, NumbersTyped
<1>2. PICK p \in DataPacket : p = [fid |-> 0, type |-> "SYN"]
  BY DEF DataPacket
<1>3. PICK a \in Answer : a = [fid |-> 0, type |-> "ACK", count |-> 0]
  BY DEF Answer
<1> QED
  BY <1>1, <1>2, <1>3, OfTypeAppend

\* Each step takes a try, answers one, loses one or leaves them alone.
LEMMA NextTriesInv == RcpInv /\ TriesInv /\ [Next]_vars => TriesInv'
<1> SUFFICES ASSUME RcpInv, TriesInv, [Next]_vars
             PROVE  TriesInv'
  OBVIOUS
<1>1. /\ fwd \in Seq(DataPacket) /\ back \in Seq(Answer) /\ ref_seqno \in Nat /\ fid \in Nat
      /\ losses \in Nat
      /\ \A f, type : /\ Cardinality(OfType(fwd, f, type)) \in Nat
                      /\ Cardinality(OfType(back, f, type)) \in Nat
  BY TriesFacts DEF TriesInv
<1>0. losses \in Nat /\ ref_seqno \in Nat
  BY <1>1
<1> PICK a \in Nat, b \in Nat : /\ a = Cardinality(OfType(fwd, fid, "SYN"))
                               /\ b = Cardinality(OfType(back, fid, "SYNACK"))
  BY <1>1
<1>15. TriesUnderWay = a + b
  BY DEF TriesUnderWay
<1>16. state = "SYNSENT" => ref_seqno <= losses + (a + b)
  BY <1>15 DEF TriesInv
<1>2. ASSUME stop, losses' = losses PROVE TriesInv'
  BY <1>1, <1>2 DEF stop, TriesInv
<1>3. ASSUME state' \notin {"INACT", "SYNSENT"}, losses' = losses PROVE TriesInv'
  BY <1>1, <1>3 DEF TriesInv
<1>4. ASSUME UNCHANGED <<state, ref_seqno, losses, fid>>,
             NEW n \in Nat, TriesUnderWay' = n, state = "SYNSENT" => n >= a + b
      PROVE  TriesInv'
  <2>1. state = "SYNSENT" => ref_seqno <= losses + n
    BY <1>0, <1>4, <1>16
  <2> QED
    BY <1>0, <1>4, <2>1 DEF TriesInv
<1>5. CASE StartTransfer
  <2> DEFINE p == [fid |-> fid + 1, type |-> "SYN"]
  <2>1. /\ p \in DataPacket /\ p.fid = fid + 1 /\ p.type = "SYN" /\ fwd' = Append(fwd, p)
        /\ back' = back /\ fid' = fid + 1 /\ state' = "SYNSENT" /\ losses' = losses
    BY <1>1, <1>5 DEF StartTransfer, DataPacket
  <2>2. ref_seqno' = 1
    BY <1>5 DEF StartTransfer, RcpInv, TimersFit, TriesInv
  <2> HIDE DEF p
  <2>3. PICK n \in Nat : TriesUnderWay' = n /\ n >= 1
    <3>1. PICK c \in Nat, d \in Nat : /\ c = Cardinality(OfType(fwd, fid + 1, "SYN"))
                                      /\ d = Cardinality(OfType(back, fid + 1, "SYNACK"))
      BY <1>1
    <3>2. Cardinality(OfType(fwd', fid + 1, "SYN")) = c + 1
      BY <1>1, <2>1, <3>1, OfTypeAppend
    <3>3. TriesUnderWay' = (c + 1) + d
      BY <2>1, <3>1, <3>2 DEF TriesUnderWay
    <3> QED
      BY <3>3
  <2>4. ref_seqno' <= losses' + n
    BY <1>0, <2>1, <2>2, <2>3
  <2> QED
    BY <1>0, <2>1, <2>3, <2>4 DEF TriesInv
<1>6. CASE Stop
  BY <1>2, <1>6 DEF Stop, boundVars
<1>7. CASE Lose
  <2>1. /\ losses' = losses + 1 /\ UNCHANGED <<state, ref_seqno, fid>>
    BY <1>7 DEF Lose, pairVars, countVars
  <2>2. PICK n \in Nat : TriesUnderWay' = n /\ n + 1 >= a + b
    <3>1. CASE fwd # <<>> /\ fwd' = Tail(fwd) /\ UNCHANGED back
      <4>1. PICK c \in Nat : /\ c = Cardinality(OfType(Tail(fwd), fid, "SYN"))
                             /\ a = c + 1 \/ a = c + 0
        BY <1>1, <3>1, OfTypeTail
      <4>2. TriesUnderWay' = c + b
        BY <2>1, <3>1, <4>1 DEF TriesUnderWay
      <4> QED
        BY <4>1, <4>2
    <3>2. CASE back # <<>> /\ back' = Tail(back) /\ UNCHANGED fwd
      <4>1. PICK d \in Nat : /\ d = Cardinality(OfType(Tail(back), fid, "SYNACK"))
                             /\ b = d + 1 \/ b = d + 0
        BY <1>1, <3>2, OfTypeTail
      <4>2. TriesUnderWay' = a + d
        BY <2>1, <3>2, <4>1 DEF TriesUnderWay
      <4> QED
        BY <4>1, <4>2
    <3> QED
      BY <1>7, <3>1, <3>2 DEF Lose
  <2>3. state = "SYNSENT" => ref_seqno <= (losses + 1) + n
    BY <1>0, <1>16, <2>2
  <2> QED
    BY <1>0, <2>1, <2>2, <2>3 DEF TriesInv
<1>8. CASE RefTimeout
  <2> DEFINE p == [fid |-> fid, type |-> "SYN"]
  <2>1. /\ p \in DataPacket /\ p.fid = fid /\ p.type = "SYN" /\ fwd' = Append(fwd, p)
        /\ ref_seqno' = ref_seqno + 1 /\ state = "SYNSENT"
        /\ UNCHANGED <<back, fid, state, losses>>
    BY <1>1, <1>8 DEF RefTimeout, Send, DataPacket, pairVars
  <2> HIDE DEF p
  <2>2. TriesUnderWay' = (a + 1) + b
    <3>1. Cardinality(OfType(fwd', fid, "SYN")) = a + 1
      BY <1>1, <2>1, OfTypeAppend
    <3> QED
      BY <2>1, <3>1 DEF TriesUnderWay
  <2>3. ref_seqno + 1 <= losses + ((a + 1) + b)
    <3>1. ref_seqno <= losses + (a + b)
      BY <1>16, <2>1
    <3> QED
      BY <1>0, <3>1
  <2>4. ref_seqno' <= losses' + TriesUnderWay' /\ losses' \in Nat /\ state' = "SYNSENT"
    BY <1>0, <2>1, <2>2, <2>3
  <2> QED
    BY <2>4 DEF TriesInv
<1>9. CASE Probe
  <2> DEFINE p == [fid |-> fid, type |-> "REF"]
  <2>1. /\ p \in DataPacket /\ p.type # "SYN" /\ fwd' = Append(fwd, p)
        /\ UNCHANGED <<back, fid, state, ref_seqno, losses>>
    BY <1>1, <1>9 DEF Probe, Send, DataPacket, pairVars, countVars
  <2> HIDE DEF p
  <2>2. TriesUnderWay' = a + b
    <3>1. Cardinality(OfType(fwd', fid, "SYN")) = a + 0
      BY <1>1, <2>1, OfTypeAppend
    <3> QED
      BY <2>1, <3>1 DEF TriesUnderWay
  <2> QED
    BY <1>4, <2>1, <2>2
<1>10. CASE DataTimeout
  BY <1>3, <1>10 DEF DataTimeout, timeout, boundVars
<1>11. CASE RtoTimeout
  BY <1>3, <1>11 DEF RtoTimeout
<1>12. CASE RecvFwd
  <2> DEFINE p == Head(fwd)
             t == Tail(fwd)
  <2>1. /\ fwd # <<>> /\ fwd' = t /\ UNCHANGED <<fid, state, ref_seqno, losses>>
    BY <1>12 DEF RecvFwd, pairVars, countVars, boundVars
  <2>2. \A type : Cardinality(OfType(t, fid, type)) \in Nat
    BY <1>1, <2>1, OfTypeTail
  <2>3. CASE p.type = "SYN"
    <3>1. recv_syn
      BY <1>12, <2>3 DEF RecvFwd, Listens, recv_data, recv_ref
    <3> DEFINE q == [fid |-> p.fid, type |-> "SYNACK", count |-> num_received]
    <3>2. q \in Answer /\ q.fid = p.fid /\ q.type = "SYNACK" /\ back' = Append(back, q)
      <4>1. p \in DataPacket /\ num_received \in Nat
        BY <1>1, <2>1, TailFacts DEF RcpInv, NumbersTyped
      <4> QED
        BY <3>1, <4>1 DEF recv_syn, Reply, Answer, DataPacket
    <3> HIDE DEF q
    <3>3. TriesUnderWay' = a + b
      <4>1. PICK c \in Nat : /\ c = Cardinality(OfType(t, fid, "SYN"))
                             /\ a = c + (IF p.fid = fid THEN 1 ELSE 0)
        BY <1>1, <2>1, <2>2, <2>3, OfTypeTail
      <4>2. Cardinality(OfType(back', fid, "SYNACK")) = b + (IF p.fid = fid THEN 1 ELSE 0)
        BY <1>1, <3>2, OfTypeAppend
      <4> HIDE DEF p, t
      <4>3. TriesUnderWay' = c + (b + (IF p.fid = fid THEN 1 ELSE 0))
        BY <2>1, <4>1, <4>2 DEF TriesUnderWay
      <4> QED
        BY <4>1, <4>3
    <3> QED
      BY <1>4, <2>1, <3>3
  <2>4. CASE p.type # "SYN"
    <3>1. Cardinality(OfType(t, fid, "SYN")) = a
      <4>1. PICK c \in Nat : c = Cardinality(OfType(t, fid, "SYN")) /\ a = c + 0
        BY <1>1, <2>1, <2>2, <2>4, OfTypeTail
      <4> QED
        BY <4>1
    <3>2. back' = back \/ \E q \in Answer : back' = Append(back, q)
      <4>1. p \in DataPacket /\ num_received \in Nat
        BY <1>1, <2>1, TailFacts DEF RcpInv, NumbersTyped
      <4> QED
        BY <1>12, <2>4, <4>1 DEF RecvFwd, recv_syn, recv_data, recv_ref, Reply, Answer, DataPacket
    <3>3. PICK d \in Nat : d = Cardinality(OfType(back', fid, "SYNACK")) /\ d >= b
      <4>1. CASE back' = back
        BY <4>1
      <4>2. ASSUME NEW q \in Answer, back' = Append(back, q)
            PROVE  \/ Cardinality(OfType(back', fid, "SYNACK")) = b + 1
                   \/ Cardinality(OfType(back', fid, "SYNACK")) = b + 0
        BY <1>1, <4>2, OfTypeAppend
      <4> QED
        BY <3>2, <4>1, <4>2
    <3>4. TriesUnderWay' = a + d
      BY <2>1, <3>1, <3>3 DEF TriesUnderWay
    <3> QED
      BY <1>4, <2>1, <3>3, <3>4
  <2> QED
    BY <2>3, <2>4
<1>13. CASE RecvBack
  <2>1. back # <<>> /\ back' = Tail(back) /\ losses' = losses
    BY <1>13 DEF RecvBack, boundVars
  <2>2. CASE stop
    BY <1>2, <2>1, <2>2
  <2>3. CASE state \notin {"INACT", "SYNSENT"} /\ ~ stop
    <3>1. state' \notin {"INACT", "SYNSENT"}
      BY <1>13, <2>3 DEF RecvBack, recv_synack, recv_ack, recv_finack, recv_refack, rate_change,
         timeout, sendVars
    <3> QED
      BY <1>3, <2>1, <3>1
  <2>4. CASE state = "INACT"
    <3>1. UNCHANGED <<state, ref_seqno, fid>>
      BY <1>13, <2>4 DEF RecvBack, pairVars, sendVars, countVars
    <3> QED
      BY <1>0, <2>1, <2>4, <3>1 DEF TriesInv
  <2>5. CASE state = "SYNSENT" /\ ~ stop
    <3>1. CASE Head(back).fid = fid /\ Head(back).type = "SYNACK"
      <4>1. start
        BY <1>13, <2>5, <3>1 DEF RecvBack, recv_synack, recv_ack, recv_finack, recv_refack
      <4> QED
        BY <1>3, <2>1, <4>1 DEF start, timeout
    <3>2. CASE ~ (Head(back).fid = fid /\ Head(back).type = "SYNACK")
      <4>1. UNCHANGED <<state, ref_seqno, fid, fwd>>
        BY <1>13, <2>5, <3>2 DEF RecvBack, recv_synack, recv_ack, recv_finack, recv_refack,
           rate_change, pairVars, sendVars, countVars
      <4>2. Cardinality(OfType(back', fid, "SYNACK")) = b
        <5>1. PICK d \in Nat : d = Cardinality(OfType(Tail(back), fid, "SYNACK")) /\ b = d + 0
          BY <1>1, <2>1, <3>2, OfTypeTail
        <5> QED
          BY <2>1, <5>1
      <4>3. TriesUnderWay' = a + b
        BY <4>1, <4>2 DEF TriesUnderWay
      <4> QED
        BY <1>4, <2>1, <4>1, <4>3
    <3> QED
      BY <3>1, <3>2
  <2> QED
    BY <2>2, <2>3, <2>4, <2>5
<1>14. CASE UNCHANGED vars
  <2>1. UNCHANGED <<state, ref_seqno, losses, fid, fwd, back>>
    BY <1>14 DEF vars, pairVars, sendVars, countVars, boundVars
  <2>2. TriesUnderWay' = a + b
    BY <2>1 DEF TriesUnderWay
  <2> QED
    BY <1>4, <2>1, <2>2
<1> QED
  BY <1>5, <1>6, <1>7, <1>8, <1>9, <1>10, <1>11, <1>12, <1>13, <1>14 DEF Next

LEMMA TriesInvHolds == StopWhen # "always" => (Spec => [](RcpInv /\ TriesInv))
<1> SUFFICES ASSUME StopWhen # "always" PROVE Spec => [](RcpInv /\ TriesInv)
  OBVIOUS
<1>1. Init => TriesInv
  BY DEF Init, TriesInv
<1>2. RcpInv /\ TriesInv /\ [Next]_vars => TriesInv'
  BY NextTriesInv
<1> QED
  BY <1>1, <1>2, RcpInvHolds, PTL DEF Spec
-----------------------------------------------------------------------------
(* Theorems *)

\* ref_timeout never exits: whichever of several SYNs is answered, no SYN timer
\* outlives the wait for it.
THEOREM SynTimerAlwaysOnTime == StopWhen # "always" => (Spec => []SynTimerOnTime)
<1> SUFFICES ASSUME StopWhen # "always" PROVE Spec => []SynTimerOnTime
  OBVIOUS
<1>1. RcpInv => SynTimerOnTime
  BY DEF RcpInv, TimersFit, SynTimerOnTime
<1> QED
  BY <1>1, RcpInvHolds, PTL

\* The unsigned size of a retransmission never wraps, however many packets are
\* lost or sent twice and however many transfers use the agents.
THEOREM NeverOverruns == StopWhen # "always" => (Spec => []NoOverrun)
<1> SUFFICES ASSUME StopWhen # "always" PROVE Spec => []NoOverrun
  OBVIOUS
<1>1. RcpInv => NoOverrun
  BY DEF RcpInv, TimersFit, NetsFit, CountsFit, NoOverrun
<1> QED
  BY <1>1, RcpInvHolds, PTL

\* A transfer always has a timer, or the source has given up on its SYN.
THEOREM AlwaysHasTimer == StopWhen # "always" => (Spec => []NeverStuck)
<1> SUFFICES ASSUME StopWhen # "always" PROVE Spec => []NeverStuck
  OBVIOUS
<1>1. RcpInv => NeverStuck
  BY DEF RcpInv, SourceTyped, SourceState, TimersFit, NeverStuck
<1> QED
  BY <1>1, RcpInvHolds, PTL

\* A source that has given up on its SYN, with nothing under way, has lost a packet
\* for each of its tries: early SYN timers do not bring this on, however many.
THEOREM GivesUpOnlyForLosses == StopWhen # "always" => (Spec => []GivesUpForLosses)
<1> SUFFICES ASSUME StopWhen # "always" PROVE Spec => []GivesUpForLosses
  OBVIOUS
<1>1. RcpInv /\ TriesInv => GivesUpForLosses
  <2> SUFFICES ASSUME RcpInv, TriesInv, GaveUp
               PROVE  losses >= SynTries
    BY DEF GivesUpForLosses
  <2>1. ref_seqno >= SynTries
    BY DEF GaveUp, RcpInv, TimersFit
  <2>2. TriesUnderWay = 0
    <3>1. OfType(fwd, fid, "SYN") = {} /\ OfType(back, fid, "SYNACK") = {}
      BY DEF GaveUp, OfType
    <3> QED
      BY <3>1, FS_EmptySet DEF TriesUnderWay
  <2>3. ref_seqno <= losses
    BY <2>2, TriesFacts DEF GaveUp, TriesInv
  <2> QED
    BY <2>1, <2>3, TriesFacts, RcpAssumption DEF TriesInv
<1> QED
  BY <1>1, TriesInvHolds, PTL

\* Whatever of the last transfer is lost, sent twice or late, a transfer starts
\* from scratch when the last one was stopped cleanly or not at all.
THEOREM AlwaysStartsFromScratch == StopWhen # "always" => (Spec => []StartsFromScratch)
<1> SUFFICES ASSUME StopWhen # "always" PROVE Spec => []StartsFromScratch
  OBVIOUS
<1>1. RcpInv => StartsFromScratch
  BY DEF RcpInv, NetsFit, RecvFits, CountsFit, StartsFromScratch
<1> QED
  BY <1>1, RcpInvHolds, PTL

\* A transfer that is not stopped ends only when the receiver has counted as
\* many of its own packets as it has.
THEOREM DoneIsDelivered == StopWhen # "always" => (Spec => DoneMeansDelivered)
<1> SUFFICES ASSUME StopWhen # "always" PROVE Spec => DoneMeansDelivered
  OBVIOUS
<1>1. RcpInv /\ [Next]_vars =>
          [is_active /\ ~ is_active' /\ ~ Stop => delivered >= numpkts]_vars
  BY Ends
<1> QED
  BY <1>1, RcpInvHolds, PTL DEF Spec, DoneMeansDelivered

\* Every step is a step of Transfer, or is not seen by the script.
LEMMA NextRefines ==
    RcpInv /\ StopWhen # "always" /\ [Next]_vars => [Abstract!Next]_(Abstract!vars)
<1> SUFFICES ASSUME RcpInv, StopWhen # "always", [Next]_vars
             PROVE  [Abstract!Next]_(Abstract!vars)
  OBVIOUS
<1>1. is_active \in BOOLEAN /\ numpkts \in Nat /\ delivered \in Nat /\ Arrived \in Nat
  BY DEF RcpInv, NumbersTyped, Arrived
<1>2. ASSUME UNCHANGED <<pairVars, delivered>>
      PROVE  UNCHANGED Abstract!vars
  BY <1>2 DEF pairVars, Arrived, Abstract!vars
<1>3. CASE StartTransfer
  <2>1. Arrived' = 0
    <3>1. delivered' = 0 /\ numpkts' \in Nat \ {0}
      BY <1>3, RcpAssumption DEF StartTransfer
    <3> QED
      BY <3>1 DEF Arrived
  <2>2. Abstract!Start
    BY <1>3, <2>1 DEF StartTransfer, Abstract!Start
  <2> QED
    BY <2>2 DEF Abstract!Next
<1>4. CASE RecvFwd
  <2>1. /\ UNCHANGED pairVars
        /\ delivered' = delivered \/ delivered' = delivered + 1
    BY <1>4 DEF RecvFwd, recv_syn, recv_data, recv_ref, recvVars
  <2>2. CASE delivered' = delivered
    BY <1>2, <2>1, <2>2
  <2>3. CASE delivered' = delivered + 1
    <3>1. CASE delivered < numpkts
      <4>1. Arrived < numpkts /\ Arrived' = Arrived + 1
        BY <1>1, <2>1, <2>3, <3>1 DEF Arrived, pairVars
      <4>2. Abstract!Arrive
        BY <2>1, <4>1 DEF pairVars, Abstract!Arrive
      <4> QED
        BY <4>2 DEF Abstract!Next
    <3>2. CASE ~ (delivered < numpkts)
      <4>1. Arrived' = Arrived
        BY <1>1, <2>1, <2>3, <3>2 DEF Arrived, pairVars
      <4> QED
        BY <2>1, <4>1 DEF pairVars, Abstract!vars
    <3> QED
      BY <3>1, <3>2
  <2> QED
    BY <2>1, <2>2, <2>3
<1>5. CASE is_active /\ ~ is_active'
  <2>1. stop /\ (Stop \/ delivered >= numpkts)
    BY <1>5, Ends DEF Stop
  <2>2. Abstract!End
    BY <2>1 DEF stop, Arrived, Abstract!End
  <2>3. CASE Stop
    <3>1. Abstract!Stop
      BY <1>5, <2>2, <2>3 DEF Stop, Abstract!Stop
    <3> QED
      BY <3>1 DEF Abstract!Next
  <2>4. CASE delivered >= numpkts
    <3>1. Arrived = numpkts
      BY <1>1, <2>4 DEF Arrived
    <3>2. Abstract!Done
      BY <1>5, <2>2, <3>1 DEF Abstract!Done
    <3> QED
      BY <3>2 DEF Abstract!Next
  <2> QED
    BY <2>1, <2>3, <2>4
<1>6. CASE Lose \/ RefTimeout \/ DataTimeout \/ RtoTimeout \/ Probe \/ UNCHANGED vars
  <2>1. UNCHANGED <<pairVars, delivered>>
    BY <1>6 DEF Lose, RefTimeout, DataTimeout, RtoTimeout, Probe, vars, recvVars
  <2> QED
    BY <1>2, <2>1
<1>7. CASE Stop
  BY <1>5, <1>7 DEF Stop, stop
<1>8. CASE RecvBack
  <2>1. stop \/ UNCHANGED <<pairVars, delivered>>
    BY <1>8 DEF RecvBack, recv_synack, recv_ack, recv_finack, recv_refack, recvVars
  <2>2. is_active \/ UNCHANGED <<pairVars, delivered>>
    BY <1>8 DEF RecvBack, RcpInv, TimersFit, recvVars
  <2>3. CASE UNCHANGED <<pairVars, delivered>>
    BY <1>2, <2>3
  <2>4. CASE is_active /\ stop
    BY <1>5, <2>4 DEF stop
  <2> QED
    BY <2>1, <2>2, <2>3, <2>4
<1> QED
  BY <1>3, <1>4, <1>6, <1>7, <1>8 DEF Next

\* However many packets are lost, sent twice or late, and wherever transfers are
\* stopped cleanly, the script sees nothing but a sequence of whole transfers.
THEOREM ConnectionIsSafe == StopWhen # "always" => (Spec => Abstract!Spec)
<1> SUFFICES ASSUME StopWhen # "always" PROVE Spec => Abstract!Spec
  OBVIOUS
<1>1. Init => Abstract!Init
  BY DEF Init, Arrived, Abstract!Init
<1>2. RcpInv /\ [Next]_vars => [Abstract!Next]_(Abstract!vars)
  BY NextRefines
<1> QED
  BY <1>1, <1>2, RcpInvHolds, PTL DEF Spec, Abstract!Spec
=============================================================================
