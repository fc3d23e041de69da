-------------------------- MODULE SpercTransferProofs --------------------------
(***************************************************************************)
(* Proofs about the transfers of SpercHost: what the counters of the two    *)
(* agents, the packets between them and the timers of the source have to do *)
(* with each other.                                                        *)
(*                                                                         *)
(* This holds in every transfer that starts with clean counters (Fresh).    *)
(* The first one does, whatever is lost, early or stopped; every other one  *)
(* does as long as one packet at most is lost and no timer is early and no  *)
(* transfer is stopped (OrderInv).                                         *)
(***************************************************************************)
EXTENDS SpercHostProofs

\* A packet of transfer f that the receiver counts.
IsData(p, f) == p.fid = f /\ p.type # "SYN"

\* The packets of s are of transfer f or of an earlier one.
Old(s, f) == \A k \in 1 .. Len(s) : s[k].fid <= f

\* The n packets received and the data of f in s are not more than max.
DataFits(s, f, n, max) ==
    /\ n <= max
    /\ \A k \in 1 .. Len(s) : IsData(s[k], f) => n + Len(s) - k + 1 <= max

\* The acknowledgements of f in s acknowledge no more than n packets.
AnswersFit(s, f, n) == \A k \in 1 .. Len(s) : s[k].fid = f => s[k].count <= n

NetsFit == Old(dataNet, fid) /\ Old(ackNet, fid)

\* What the receiver has counted, what it has acknowledged, and what the source
\* makes of it.
CountsFit ==
    /\ delivered = num_received
    /\ num_acked <= num_received
    /\ AnswersFit(ackNet, fid, num_received)
    /\ ~ send_ctrl_fin => num_acked < numpkts
    /\ send_ctrl_fin /\ ~ stop_requested =>
          num_received >= numpkts /\ "data" \notin timers /\ "rto" \notin timers
    /\ stop_requested => send_ctrl_fin
    /\ limiting = "init" => ~ send_ctrl_fin
    /\ ~ stop_requested => num_to_retransmit <= numpkts

\* Until the source has sent all its packets once, no packet is a duplicate.
SentFits ==
    state \in {"INACT", "SYNSENT", "SYNACK_RECVD", "RUNNING"} =>
        DataFits(dataNet, fid, num_received, num_sent)

\* The timer that a source in each state waits for.
TimersFit ==
    ~ send_ctrl_fin =>
       /\ state = "INACT" => "jitter" \in timers
       /\ state = "SYNSENT" => "syn" \in timers
       /\ state = "RUNNING" => "data" \in timers
       /\ state \in {"FINSENT", "RETRANSMIT"} => {"data", "rto"} \cap timers # {}

TransferInv == is_active => CountsFit /\ SentFits /\ TimersFit

\* The counters are clean before a transfer starts.
Fresh ==
    ~ is_active /\ fid < MaxTransfers =>
        num_received = 0 /\ num_acked = 0 /\ ~ send_ctrl_fin

\* The packets of s are of transfer f, all of the given type if yes and none if not.
NetIs(s, f, type, yes) ==
    \A k \in 1 .. Len(s) : s[k].fid = f /\ (s[k].type = type <=> yes)

\* The acknowledgements of s count to n without a gap.
InOrder(s, n) == \A k \in 1 .. Len(s) : s[k].count = n - Len(s) + k

Quiet == dataNet = <<>> /\ ackNet = <<>>

AcksInOrder ==
    /\ num_acked + Len(ackNet) <= num_received
    /\ InOrder(ackNet, num_received)

\* What is under way is what the source has sent and not seen acknowledged.
SendingOrder ==
    /\ num_received + Len(dataNet) <= num_sent
    /\ num_sent <= Len(dataNet) + Len(ackNet) + num_acked + losses

\* The one lost packet is made up for by one packet.
RetransmitOrder ==
    /\ losses = 1
    /\ num_to_retransmit = 1
    /\ num_acked = numpkts - 1
    /\ Len(dataNet) + Len(ackNet) = num_resent
    /\ num_received + Len(dataNet) >= num_acked + num_resent

ActiveOrder ==
    /\ NetIs(dataNet, fid, "SYN", state = "SYNSENT")
    /\ NetIs(ackNet, fid, "SYNACK", state = "SYNSENT")
    /\ send_ctrl_fin \/ state \in {"INACT", "SYNACK_RECVD"} => Quiet
    /\ state = "SYNSENT" => Len(dataNet) + Len(ackNet) <= 1
    /\ state \in {"RUNNING", "FINSENT", "RETRANSMIT"} => AcksInOrder
    /\ state \in {"RUNNING", "FINSENT"} => SendingOrder
    /\ state = "FINSENT" => num_sent = numpkts
    /\ state = "RETRANSMIT" /\ ~ send_ctrl_fin => RetransmitOrder

\* Nothing outlives a transfer, and while one is active the network holds what its
\* counters say.
OrderInv ==
    /\ is_active => ActiveOrder
    /\ ~ is_active => Quiet /\ num_received = 0 /\ num_acked = 0 /\ ~ send_ctrl_fin

FewLosses == ~ AllowStop /\ losses <= 1 /\ spurious = 0

Calm == MaxTransfers <= 1 \/ FewLosses

ConnectionInv ==
    /\ HostInv
    /\ stop_requested => AllowStop
    /\ Calm => NetsFit /\ TransferInv /\ Fresh
    /\ FewLosses => OrderInv
-----------------------------------------------------------------------------
(* The network *)

\* A new packet of data is one more than was sent before.
LEMMA DataFitsAppend ==
    ASSUME NEW s \in Seq(Packet), NEW p \in Packet, NEW f, NEW n \in Int, NEW max \in Int,
           DataFits(s, f, n, max)
    PROVE  DataFits(Append(s, p), f, n, max + 1)
<1> DEFINE t == Append(s, p)
<1>1. /\ Len(s) \in Nat /\ Len(t) = Len(s) + 1
      /\ \A k \in 1 .. Len(s) : t[k] = s[k]
  BY AppendFacts
<1> HIDE DEF t
<1>2. ASSUME NEW k \in 1 .. Len(t), IsData(t[k], f)
      PROVE  n + Len(t) - k + 1 <= max + 1
  <2>1. CASE k \in 1 .. Len(s)
    BY <1>1, <1>2, <2>1 DEF DataFits
  <2>2. CASE k = Len(s) + 1
    BY <1>1, <2>2 DEF DataFits
  <2> QED
    BY <1>1, <2>1, <2>2
<1> QED
  BY <1>1, <1>2 DEF DataFits, t

\* A SYN before the first packet of data is none.
LEMMA DataFitsSyn ==
    ASSUME NEW s \in Seq(Packet), NEW p \in Packet, NEW f, NEW n \in Nat,
           p.type = "SYN", DataFits(s, f, n, 0)
    PROVE  DataFits(Append(s, p), f, n, 0)
<1> DEFINE t == Append(s, p)
<1>1. /\ Len(s) \in Nat /\ Len(t) = Len(s) + 1
      /\ \A k \in 1 .. Len(s) : t[k] = s[k]
      /\ t[Len(s) + 1] = p
  BY AppendFacts
<1> HIDE DEF t
<1>2. ASSUME NEW k \in 1 .. Len(t) PROVE ~ IsData(t[k], f)
  <2>1. CASE k \in 1 .. Len(s)
    BY <1>1, <2>1 DEF DataFits
  <2>2. CASE k = Len(s) + 1
    BY <1>1, <2>2 DEF IsData
  <2> QED
    BY <1>1, <2>1, <2>2
<1> QED
  BY <1>1, <1>2 DEF DataFits, t

\* A packet that leaves the network leaves what was sent, and may be received.
LEMMA DataFitsTail ==
    ASSUME NEW s \in Seq(Packet), s # <<>>, NEW f, NEW n \in Nat, NEW max \in Int,
           DataFits(s, f, n, max)
    PROVE  /\ DataFits(Tail(s), f, n, max)
           /\ IsData(Head(s), f) => DataFits(Tail(s), f, n + 1, max)
<1> DEFINE t == Tail(s)
<1>1. /\ Len(s) \in Nat /\ Len(s) > 0 /\ Head(s) = s[1] /\ Len(t) = Len(s) - 1
      /\ \A k \in 1 .. Len(t) : t[k] = s[k + 1]
  BY TailFacts
<1> HIDE DEF t
<1>2. ASSUME NEW k \in 1 .. Len(t), IsData(t[k], f)
      PROVE  n + Len(t) - k + 1 <= max
  <2>1. k + 1 \in 1 .. Len(s) /\ t[k] = s[k + 1]
    BY <1>1
  <2>2. n + Len(s) - (k + 1) + 1 <= max
    BY <1>2, <2>1 DEF DataFits
  <2> QED
    BY <1>1, <2>2
<1>3. IsData(Head(s), f) => n + Len(s) <= max
  <2>1. 1 \in 1 .. Len(s)
    BY <1>1
  <2>2. IsData(Head(s), f) => n + Len(s) - 1 + 1 <= max
    BY <1>1, <2>1 DEF DataFits
  <2> QED
    BY <1>1, <2>2
<1>4. IsData(Head(s), f) => /\ n + 1 <= max
                            /\ \A k \in 1 .. Len(t) : n + 1 + Len(t) - k + 1 <= max
  BY <1>1, <1>3
<1> QED
  BY <1>2, <1>4 DEF DataFits, t

\* No packet of a transfer is there before it starts.
LEMMA DataFitsNew ==
    ASSUME NEW s \in Seq(Packet), NEW f \in Nat, Old(s, f)
    PROVE  DataFits(s, f + 1, 0, 0)
<1>1. ASSUME NEW k \in 1 .. Len(s) PROVE ~ IsData(s[k], f + 1)
  <2>1. s[k] \in Packet /\ s[k].fid <= f
    BY DEF Old
  <2> QED
    BY <2>1 DEF IsData, Packet
<1> QED
  BY <1>1 DEF DataFits

LEMMA OldAppend ==
    ASSUME NEW S, NEW s \in Seq(S), NEW p \in S, NEW f \in Nat, Old(s, f), p.fid = f
    PROVE  Old(Append(s, p), f)
BY AppendFacts DEF Old

LEMMA OldTail ==
    ASSUME NEW S, NEW s \in Seq(S), s # <<>>, NEW f, Old(s, f)
    PROVE  Old(Tail(s), f)
<1>1. /\ Len(s) \in Nat /\ Len(Tail(s)) = Len(s) - 1
      /\ \A k \in 1 .. Len(Tail(s)) : Tail(s)[k] = s[k + 1]
  BY TailFacts
<1>2. \A k \in 1 .. Len(Tail(s)) : k + 1 \in 1 .. Len(s)
  BY <1>1
<1> QED
  BY <1>1, <1>2 DEF Old

LEMMA AnswersFitAppend ==
    ASSUME NEW s \in Seq(Ack), NEW a \in Ack, NEW f, NEW n \in Nat, NEW m \in Nat,
           AnswersFit(s, f, n), n <= m, a.count <= m
    PROVE  AnswersFit(Append(s, a), f, m)
<1> DEFINE t == Append(s, a)
<1>1. /\ Len(s) \in Nat /\ Len(t) = Len(s) + 1
      /\ \A k \in 1 .. Len(s) : t[k] = s[k]
      /\ t[Len(s) + 1] = a
  BY AppendFacts
<1>2. \A k \in 1 .. Len(s) : s[k].count \in Nat
  <2>1. \A k \in 1 .. Len(s) : s[k] \in Ack
    OBVIOUS
  <2> QED
    BY <2>1 DEF Ack
<1> HIDE DEF t
<1>3. ASSUME NEW k \in 1 .. Len(t), t[k].fid = f PROVE t[k].count <= m
  <2>1. CASE k \in 1 .. Len(s)
    BY <1>1, <1>2, <1>3, <2>1 DEF AnswersFit
  <2>2. CASE k = Len(s) + 1
    BY <1>1, <2>2
  <2> QED
    BY <1>1, <2>1, <2>2
<1> QED
  BY <1>3 DEF AnswersFit, t

LEMMA AnswersFitTail ==
    ASSUME NEW s \in Seq(Ack), s # <<>>, NEW f, NEW n, AnswersFit(s, f, n)
    PROVE  /\ AnswersFit(Tail(s), f, n)
           /\ Head(s).fid = f => Head(s).count <= n
<1>1. /\ Len(s) \in Nat /\ Len(s) > 0 /\ Head(s) = s[1] /\ Len(Tail(s)) = Len(s) - 1
      /\ \A k \in 1 .. Len(Tail(s)) : Tail(s)[k] = s[k + 1]
  BY TailFacts
<1>2. 1 \in 1 .. Len(s) /\ \A k \in 1 .. Len(Tail(s)) : k + 1 \in 1 .. Len(s)
  BY <1>1
<1>3. Head(s).fid = f => Head(s).count <= n
  BY <1>1, <1>2 DEF AnswersFit
<1>4. AnswersFit(Tail(s), f, n)
  BY <1>1, <1>2 DEF AnswersFit
<1> QED
  BY <1>3, <1>4

LEMMA AnswersFitNew ==
    ASSUME NEW s \in Seq(Ack), NEW f \in Nat, Old(s, f), NEW n
    PROVE  AnswersFit(s, f + 1, n)
<1>1. \A k \in 1 .. Len(s) : s[k].fid \in Int /\ s[k].fid <= f
  <2>1. \A k \in 1 .. Len(s) : s[k] \in Ack
    OBVIOUS
  <2> QED
    BY <2>1 DEF Ack, Old
<1> QED
  BY <1>1 DEF AnswersFit-----------------------------------------------------------------------------
(* The source within a transfer *)

\* The types of what the steps below compute with.
LEMMA HostFacts ==
    ASSUME HostInv
    PROVE  /\ fid \in Nat /\ numpkts \in Nat /\ numpkts < UINT
           /\ num_sent \in Nat /\ num_to_retransmit \in Nat /\ num_resent \in Nat
           /\ num_acked \in Nat /\ num_received \in Nat /\ delivered \in Nat
           /\ losses \in Nat /\ spurious \in Nat
           /\ dataNet \in Seq(Packet) /\ ackNet \in Seq(Ack)
           /\ is_active \in BOOLEAN /\ send_ctrl_fin \in BOOLEAN
           /\ stop_requested \in BOOLEAN
           /\ state \in State
           /\ is_active => fid > 0 /\ numpkts > 0 /\ fid \in 1 .. MaxTransfers
           /\ state \in {"INACT", "SYNSENT", "SYNACK_RECVD"} => num_sent = 0
           /\ state = "RUNNING" => num_sent < numpkts
<1>1. /\ fid \in 0 .. MaxTransfers /\ numpkts \in Sizes \cup {0}
      /\ num_sent \in 0 .. UINT - 1 /\ num_to_retransmit \in 0 .. UINT - 1
      /\ num_resent \in 0 .. UINT - 1
      /\ num_acked \in Nat /\ num_received \in Nat /\ delivered \in Nat
      /\ losses \in 0 .. MaxLosses /\ spurious \in 0 .. MaxSpurious
  BY DEF HostInv, TypeOK
<1>2. /\ dataNet \in Seq(Packet) /\ ackNet \in Seq(Ack) /\ state \in State
      /\ is_active \in BOOLEAN /\ send_ctrl_fin \in BOOLEAN /\ stop_requested \in BOOLEAN
  BY DEF HostInv, TypeOK
<1>3. /\ is_active => fid > 0 /\ numpkts > 0
      /\ state \in {"INACT", "SYNSENT", "SYNACK_RECVD"} => num_sent = 0
      /\ state = "RUNNING" => num_sent < numpkts
  BY DEF HostInv, PairFits, SourceFits
<1> QED
  BY <1>1, <1>2, <1>3, SizeAssumption, BoundAssumption

\* A transfer whose data has ended, and that was not stopped, has sent it all.
LEMMA EndedState ==
    ASSUME HostInv, is_active, CountsFit, SentFits, send_ctrl_fin, ~ stop_requested
    PROVE  state \in {"FINSENT", "RETRANSMIT"} /\ num_received >= numpkts
<1>1. num_received >= numpkts
  BY DEF CountsFit
<1>2. CASE state \in {"INACT", "SYNSENT", "SYNACK_RECVD", "RUNNING"}
  <2>1. num_received <= num_sent
    BY <1>2 DEF SentFits, DataFits
  <2>2. num_sent < numpkts
    BY <1>2, HostFacts
  <2> QED
    BY <1>1, <2>1, <2>2, HostFacts
<1> QED
  BY <1>1, <1>2, HostFacts DEF State

\* The source changes no count of the receiver.
LEMMA CountsKeep ==
    ASSUME CountsFit,
           UNCHANGED <<delivered, num_received, num_acked, ackNet, fid, numpkts,
                       send_ctrl_fin, stop_requested, num_to_retransmit>>,
           limiting' = "init" => limiting = "init",
           send_ctrl_fin /\ ~ stop_requested => "data" \notin timers' /\ "rto" \notin timers'
    PROVE  CountsFit'
BY DEF CountsFit

\* What timeout() sends.
LEMMA TimeoutSends ==
    ASSUME HostInv, is_active, SentFits, Old(dataNet, fid),
           NEW st, NEW ts, timeout(st, ts),
           st = "RUNNING" => state \in {"INACT", "SYNSENT", "SYNACK_RECVD", "RUNNING"},
           UNCHANGED <<fid, num_received>>
    PROVE  SentFits' /\ Old(dataNet', fid')
<1>1. \E type \in {"DATA", "FIN"} : Send(type)
  BY DEF timeout
<1>2. PICK type \in {"DATA", "FIN"} : Send(type)
  BY <1>1
<1> DEFINE p == [fid |-> fid, type |-> type]
<1>3. p \in Packet /\ p.fid = fid
  BY HostFacts DEF Packet
<1>4. dataNet' = Append(dataNet, p)
  BY <1>2 DEF Send
<1> HIDE DEF p
<1>5. Old(dataNet', fid')
  <2>1. Old(Append(dataNet, p), fid)
    BY <1>3, HostFacts, OldAppend
  <2> QED
    BY <1>4, <2>1
<1>6. CASE st = "RUNNING"
  <2>1. num_sent' = num_sent + 1
    BY <1>6 DEF timeout
  <2>2. DataFits(dataNet, fid, num_received, num_sent)
    BY <1>6 DEF SentFits
  <2>3. DataFits(Append(dataNet, p), fid, num_received, num_sent + 1)
    BY <1>3, <2>2, HostFacts, DataFitsAppend
  <2>4. DataFits(dataNet', fid', num_received', num_sent')
    BY <1>4, <2>1, <2>3
  <2> QED
    BY <1>5, <2>4 DEF SentFits
<1>7. CASE st # "RUNNING"
  <2>1. state' = "RETRANSMIT"
    BY <1>7 DEF timeout
  <2> QED
    BY <1>5, <2>1 DEF SentFits
<1> QED
  BY <1>6, <1>7

\* A new rate makes a source send that has not sent all, and leaves any other alone.
LEMMA UseRateSends ==
    ASSUME HostInv, is_active, CountsFit, SentFits, TimersFit, Old(dataNet, fid),
           NEW r, UseRate(r, timers \cup {"ctrl"}),
           UNCHANGED <<fid, numpkts, num_to_retransmit, num_received, send_ctrl_fin>>
    PROVE  /\ SentFits' /\ Old(dataNet', fid') /\ TimersFit'
           /\ send_ctrl_fin /\ ~ stop_requested =>
                 "data" \notin timers' /\ "rto" \notin timers'
<1> DEFINE ts == timers \cup {"ctrl"}
<1>1. /\ Parts /\ fid > 0 /\ numpkts > 0
  BY HostInvParts, HostFacts
<1>2. /\ SourceTyped' /\ SourceFits'
      /\ SourceMoves(ts)
      /\ state' = "RUNNING" /\ timers' # ts => "data" \in timers'
  BY <1>1, UseRateKeeps DEF Parts
<1>3. SentFits' /\ Old(dataNet', fid')
  <2>1. CASE \E st, us : /\ timeout(st, us)
                         /\ st = "RUNNING" =>
                               state \in {"INACT", "SYNSENT", "SYNACK_RECVD", "RUNNING"}
    BY <2>1, TimeoutSends
  <2>2. CASE UNCHANGED dataVars
    BY <2>2 DEF SentFits, dataVars
  <2>3. \/ state = "RUNNING" /\ timeout("RUNNING", ts \ {"data"})
        \/ state = "SYNACK_RECVD" /\ timeout("RUNNING", ts)
        \/ UNCHANGED dataVars
    BY DEF UseRate, rate_change, start
  <2> QED
    BY <2>1, <2>2, <2>3
<1>4. TimersFit'
  <2>1. CASE /\ state' \in {"RUNNING", "FINSENT"}
             /\ state' = "RUNNING" => "data" \in timers'
             /\ ({"data", "rto"} \cap timers') # {}
    BY <2>1 DEF TimersFit
  <2>2. CASE timers' \in {ts, ts \cup {"data"}} /\ UNCHANGED dataVars
    BY <2>2 DEF TimersFit, dataVars
  <2> QED
    BY <1>2, <2>1, <2>2 DEF SourceMoves
<1>5. ASSUME send_ctrl_fin, ~ stop_requested
      PROVE  "data" \notin timers' /\ "rto" \notin timers'
  <2>1. state \in {"FINSENT", "RETRANSMIT"}
    BY <1>5, EndedState
  <2>2. timers' = ts
    BY <2>1 DEF UseRate, rate_change
  <2> QED
    BY <1>5, <2>2 DEF CountsFit
<1> QED
  BY <1>3, <1>4, <1>5
-----------------------------------------------------------------------------
(* Every step within a transfer keeps TransferInv *)

\* A step that changes nothing the invariant speaks of.
LEMMA OtherSteps ==
    ASSUME NetsFit, TransferInv,
           UNCHANGED <<is_active, fid, numpkts, state, limiting, num_sent,
                       num_to_retransmit, num_acked, timers, send_ctrl_fin,
                       stop_requested, num_received, delivered, dataNet, ackNet>>
    PROVE  NetsFit' /\ TransferInv'
<1>1. NetsFit'
  BY DEF NetsFit
<1>2. TransferInv'
  BY DEF TransferInv, CountsFit, SentFits, TimersFit
<1> QED
  BY <1>1, <1>2

LEMMA StartFits ==
    ASSUME HostInv, NetsFit, Fresh, StartTransfer
    PROVE  NetsFit' /\ TransferInv'
<1>1. /\ ~ is_active /\ fid < MaxTransfers
      /\ fid' = fid + 1 /\ numpkts' \in Sizes /\ delivered' = 0
      /\ timers' = timers \cup {"jitter"}
      /\ UNCHANGED <<state, num_sent, num_to_retransmit, num_acked, send_ctrl_fin,
                     stop_requested, num_received, dataNet, ackNet>>
  BY DEF StartTransfer, dataVars, finVars, countVars
<1>2. /\ num_received = 0 /\ num_acked = 0 /\ ~ send_ctrl_fin /\ ~ stop_requested
      /\ state = "INACT" /\ num_sent = 0 /\ num_to_retransmit = 0
      /\ numpkts' \in Nat /\ numpkts' > 0
      /\ "data" \notin timers /\ "rto" \notin timers
  BY <1>1, HostFacts, SizeAssumption DEF Fresh, HostInv, PairFits, SourceFits
<1>3. /\ Old(dataNet, fid + 1) /\ Old(ackNet, fid + 1)
      /\ DataFits(dataNet, fid + 1, 0, 0) /\ AnswersFit(ackNet, fid + 1, 0)
  <2>1. \A k \in 1 .. Len(dataNet) : dataNet[k] \in Packet
    BY HostFacts
  <2>2. \A k \in 1 .. Len(ackNet) : ackNet[k] \in Ack
    BY HostFacts
  <2>3. /\ \A k \in 1 .. Len(dataNet) : dataNet[k].fid \in Int
        /\ \A k \in 1 .. Len(ackNet) : ackNet[k].fid \in Int
    BY <2>1, <2>2 DEF Packet, Ack
  <2>4. fid \in Nat /\ Old(dataNet, fid) /\ Old(ackNet, fid)
    BY HostFacts DEF NetsFit
  <2>5. Old(dataNet, fid + 1) /\ Old(ackNet, fid + 1)
    BY <2>3, <2>4 DEF Old
  <2> QED
    BY <2>4, <2>5, HostFacts, DataFitsNew, AnswersFitNew
<1>4. NetsFit'
  BY <1>1, <1>3 DEF NetsFit
<1>5. CountsFit'
  BY <1>1, <1>2, <1>3 DEF CountsFit
<1>6. SentFits' /\ TimersFit'
  BY <1>1, <1>2, <1>3 DEF SentFits, TimersFit
<1> QED
  BY <1>4, <1>5, <1>6 DEF TransferInv

LEMMA StopFits ==
    ASSUME HostInv, NetsFit, TransferInv, Stop
    PROVE  NetsFit' /\ TransferInv'
<1>1. NetsFit'
  BY DEF Stop, ResetAgents, NetsFit, pairVars, dataVars
<1>2. CASE FinishesAtOnce /\ ~ send_ctrl_fin
  BY <1>1, <1>2 DEF Stop, ResetAgents, TransferInv
<1>3. CASE ~ (FinishesAtOnce /\ ~ send_ctrl_fin)
  <2>1. /\ is_active /\ stop_requested' = TRUE /\ send_ctrl_fin' = TRUE
        /\ UNCHANGED <<is_active, fid, numpkts, state, num_sent, num_acked, limiting,
                       num_received, delivered, dataNet, ackNet>>
    BY <1>3 DEF Stop, pairVars, dataVars, recvVars, countVars
  <2>2. CountsFit /\ SentFits /\ limiting # "init"
    BY <1>3, <2>1 DEF TransferInv, CountsFit, FinishesAtOnce
  <2>3. CountsFit' /\ SentFits' /\ TimersFit'
    BY <2>1, <2>2 DEF CountsFit, SentFits, TimersFit
  <2> QED
    BY <1>1, <2>3 DEF TransferInv
<1> QED
  BY <1>2, <1>3

LEMMA LoseFits ==
    ASSUME HostInv, NetsFit, TransferInv, Lose
    PROVE  NetsFit' /\ TransferInv'
<1>1. /\ UNCHANGED <<is_active, fid, numpkts, state, limiting, num_sent,
                     num_to_retransmit, num_acked, timers, send_ctrl_fin,
                     stop_requested, num_received, delivered>>
      /\ \/ dataNet # <<>> /\ dataNet' = Tail(dataNet) /\ ackNet' = ackNet
         \/ ackNet # <<>> /\ ackNet' = Tail(ackNet) /\ dataNet' = dataNet
  BY DEF Lose, pairVars, finVars, recvVars, countVars
<1>2. NetsFit'
  <2>1. dataNet # <<>> => Old(Tail(dataNet), fid)
    BY HostFacts, OldTail DEF NetsFit
  <2>2. ackNet # <<>> => Old(Tail(ackNet), fid)
    BY HostFacts, OldTail DEF NetsFit
  <2> QED
    BY <1>1, <2>1, <2>2 DEF NetsFit
<1>3. ASSUME is_active PROVE CountsFit' /\ SentFits' /\ TimersFit'
  <2>1. CountsFit /\ SentFits /\ TimersFit
    BY <1>3 DEF TransferInv
  <2>2. ackNet # <<>> => AnswersFit(Tail(ackNet), fid, num_received)
    BY <2>1, HostFacts, AnswersFitTail DEF CountsFit
  <2>3. CountsFit'
    BY <1>1, <2>1, <2>2 DEF CountsFit
  <2>4. dataNet # <<>> /\ DataFits(dataNet, fid, num_received, num_sent) =>
            DataFits(Tail(dataNet), fid, num_received, num_sent)
    BY HostFacts, DataFitsTail
  <2>5. SentFits'
    BY <1>1, <2>1, <2>4 DEF SentFits
  <2>6. TimersFit'
    BY <1>1, <2>1 DEF TimersFit
  <2> QED
    BY <2>3, <2>5, <2>6
<1> QED
  BY <1>1, <1>2, <1>3 DEF TransferInv

\* A SYN, the first or a later one, is no data.
LEMMA SynSends ==
    ASSUME HostInv, is_active, NetsFit, SentFits, Send("SYN"),
           state \in {"INACT", "SYNSENT"}, state' = "SYNSENT",
           UNCHANGED <<fid, num_received, num_sent>>
    PROVE  SentFits' /\ Old(dataNet', fid')
<1> DEFINE p == [fid |-> fid, type |-> "SYN"]
<1>1. p \in Packet /\ p.fid = fid /\ p.type = "SYN"
  BY HostFacts DEF Packet
<1>2. dataNet' = Append(dataNet, p)
  BY DEF Send
<1> HIDE DEF p
<1>3. Old(Append(dataNet, p), fid)
  BY <1>1, HostFacts, OldAppend DEF NetsFit
<1>4. num_sent = 0 /\ DataFits(dataNet, fid, num_received, 0)
  BY HostFacts DEF SentFits
<1>5. DataFits(Append(dataNet, p), fid, num_received, 0)
  BY <1>1, <1>4, HostFacts, DataFitsSyn
<1> QED
  BY <1>2, <1>3, <1>4, <1>5 DEF SentFits

LEMMA SendFirstFits ==
    ASSUME HostInv, NetsFit, TransferInv, SendFirst
    PROVE  NetsFit' /\ TransferInv'
<1> DEFINE ts == timers \ {"jitter"}
<1>1. /\ is_active /\ state = "INACT" /\ Parts
  BY HostInvParts DEF SendFirst, HostInv, PairFits
<1>2. /\ CountsFit /\ SentFits /\ TimersFit
      /\ "data" \notin timers /\ "rto" \notin timers /\ ts \in SUBSET Timer
  BY <1>1 DEF TransferInv, HostInv, SourceFits, TypeOK
<1>3. UNCHANGED <<is_active, fid, numpkts, limiting, num_to_retransmit, num_acked,
                  send_ctrl_fin, stop_requested, num_received, delivered, ackNet>>
  BY DEF SendFirst, pairVars, recvVars, countVars
<1>4. /\ Old(dataNet', fid') /\ SentFits' /\ TimersFit'
      /\ send_ctrl_fin => stop_requested
  <2>1. send_ctrl_fin => stop_requested
    BY <1>1, <1>2, EndedState
  <2>2. CASE limiting = "sperc"
    <3>1. /\ Send("SYN") /\ state' = "SYNSENT" /\ timers' = ts \cup {"syn"}
          /\ num_sent' = num_sent
      BY <2>2 DEF SendFirst, StartSynTimer
    <3>2. SentFits' /\ Old(dataNet', fid')
      BY <1>1, <1>2, <1>3, <3>1, SynSends
    <3> QED
      BY <2>1, <3>1, <3>2 DEF TimersFit
  <2>3. CASE limiting # "sperc"
    <3>1. start(ts)
      BY <2>3 DEF SendFirst
    <3>2. /\ state' \in {"RUNNING", "FINSENT"}
          /\ state' = "RUNNING" => "data" \in timers'
          /\ ({"data", "rto"} \cap timers') # {}
      BY <1>1, <1>2, <1>3, <3>1, HostFacts, StartKeeps DEF Parts
    <3>3. SentFits' /\ Old(dataNet', fid')
      BY <1>1, <1>2, <1>3, <3>1, TimeoutSends DEF start, NetsFit
    <3> QED
      BY <2>1, <3>2, <3>3 DEF TimersFit
  <2> QED
    BY <2>2, <2>3
<1>5. CountsFit'
  BY <1>2, <1>3, <1>4, CountsKeep
<1> QED
  BY <1>3, <1>4, <1>5 DEF TransferInv, NetsFit

LEMMA SynTimeoutFits ==
    ASSUME HostInv, NetsFit, TransferInv, syn_retransmit_timeout
    PROVE  NetsFit' /\ TransferInv'
<1>1. /\ UNCHANGED <<is_active, fid, numpkts, state, limiting, num_sent,
                     num_to_retransmit, num_acked, send_ctrl_fin, stop_requested,
                     num_received, delivered, ackNet>>
      /\ timers' \subseteq timers
      /\ state = "SYNSENT" => Send("SYN") /\ timers' = timers
      /\ state # "SYNSENT" => timers' = timers \ {"syn"} /\ dataNet' = dataNet
  BY DEF syn_retransmit_timeout, pairVars, finVars, recvVars, countVars
<1>2. ASSUME is_active PROVE CountsFit' /\ SentFits' /\ TimersFit' /\ Old(dataNet', fid')
  <2>1. CountsFit /\ SentFits /\ TimersFit
    BY <1>2 DEF TransferInv
  <2>2. CountsFit' /\ TimersFit'
    BY <1>1, <2>1 DEF CountsFit, TimersFit
  <2>3. SentFits' /\ Old(dataNet', fid')
    <3>1. CASE state = "SYNSENT"
      BY <1>1, <1>2, <2>1, <3>1, SynSends
    <3>2. CASE state # "SYNSENT"
      BY <1>1, <2>1, <3>2 DEF SentFits, NetsFit
    <3> QED
      BY <3>1, <3>2
  <2> QED
    BY <2>2, <2>3
<1>3. ~ is_active => state # "SYNSENT"
  BY DEF HostInv, PairFits
<1> QED
  BY <1>1, <1>2, <1>3 DEF TransferInv, NetsFit

LEMMA DataTimeoutFits ==
    ASSUME HostInv, NetsFit, TransferInv, data_timeout
    PROVE  NetsFit' /\ TransferInv'
<1> DEFINE ts == timers \ {"data"}
<1>1. /\ UNCHANGED <<is_active, fid, numpkts, limiting, num_to_retransmit, num_acked,
                     send_ctrl_fin, stop_requested, num_received, delivered, ackNet>>
      /\ "data" \in timers /\ timeout(state, ts)
  BY DEF data_timeout, pairVars, finVars, recvVars, countVars
<1>2. /\ state \in {"RUNNING", "RETRANSMIT"} /\ is_active
      /\ state = "RUNNING" => num_sent < numpkts
      /\ state = "RETRANSMIT" => num_resent < num_to_retransmit
      /\ ts \in SUBSET Timer /\ "data" \notin ts /\ "rto" \notin ts
      /\ Parts
  BY <1>1, HostInvParts DEF HostInv, SourceFits, PairFits, TypeOK
<1>3. CountsFit /\ SentFits /\ TimersFit
  BY <1>2 DEF TransferInv
<1>4. SentFits' /\ Old(dataNet', fid')
  BY <1>1, <1>2, <1>3, TimeoutSends DEF NetsFit
<1>5. /\ state' \in {"RUNNING", "FINSENT", "RETRANSMIT"}
      /\ state' = "RUNNING" => "data" \in timers'
      /\ ({"data", "rto"} \cap timers') # {}
  BY <1>1, <1>2, HostFacts, TimeoutKeeps DEF Parts
<1>6. CountsFit'
  BY <1>1, <1>3, CountsKeep DEF CountsFit
<1> QED
  BY <1>1, <1>4, <1>5, <1>6 DEF TransferInv, NetsFit, TimersFit

\* The number of packets that a source still waits for.
LEMMA MissingPackets ==
    ASSUME HostInv, is_active, CountsFit, ~ send_ctrl_fin
    PROVE  /\ Minus(numpkts, num_acked) = numpkts - num_acked
           /\ Minus(numpkts, num_acked) \in 1 .. numpkts
<1>1. /\ num_acked \in Nat /\ numpkts \in Nat /\ num_acked < numpkts /\ numpkts < UINT
  BY HostFacts DEF CountsFit
<1>2. Minus(numpkts, num_acked) = numpkts - num_acked
  BY <1>1, MinusExact
<1> QED
  BY <1>1, <1>2

LEMMA RtoFits ==
    ASSUME HostInv, NetsFit, TransferInv, retrans_timeout
    PROVE  NetsFit' /\ TransferInv'
<1>1. /\ UNCHANGED <<is_active, fid, numpkts, limiting, num_acked, num_sent, dataNet,
                     send_ctrl_fin, stop_requested, num_received, delivered, ackNet>>
      /\ "rto" \in timers /\ state' = "RETRANSMIT"
      /\ num_to_retransmit' = Minus(numpkts, num_acked)
      /\ timers' = (timers \ {"rto"}) \cup RetransmitTimer(num_to_retransmit')
  BY DEF retrans_timeout, pairVars, finVars, recvVars
<1>2. is_active /\ CountsFit
  BY <1>1 DEF HostInv, SourceFits, PairFits, TransferInv
<1>3. ~ stop_requested => ~ send_ctrl_fin
  BY <1>1, <1>2 DEF CountsFit
<1>4. ~ send_ctrl_fin => num_to_retransmit' \in 1 .. numpkts /\ "data" \in timers'
  <2>1. ~ send_ctrl_fin => Minus(numpkts, num_acked) \in 1 .. numpkts
    BY <1>2, MissingPackets
  <2>2. numpkts \in Nat
    BY HostFacts
  <2>3. ~ send_ctrl_fin => num_to_retransmit' > 0
    BY <1>1, <2>1, <2>2
  <2> QED
    BY <1>1, <2>1, <2>3 DEF RetransmitTimer
<1>5. CountsFit'
  <2>1. ~ stop_requested => num_to_retransmit' <= numpkts
    BY <1>3, <1>4, HostFacts
  <2> QED
    BY <1>1, <1>2, <1>3, <2>1 DEF CountsFit
<1>6. SentFits' /\ TimersFit'
  BY <1>1, <1>4 DEF SentFits, TimersFit
<1> QED
  BY <1>1, <1>5, <1>6 DEF TransferInv, NetsFit

LEMMA CtrlAtSourceFits ==
    ASSUME HostInv, NetsFit, TransferInv, NEW r \in Rates, recv_ctrl_at_source(r)
    PROVE  NetsFit' /\ TransferInv'
<1>1. /\ UNCHANGED <<is_active, fid, numpkts, num_acked, num_to_retransmit,
                     send_ctrl_fin, stop_requested, num_received, delivered, ackNet>>
      /\ UseRate(r, timers \cup {"ctrl"})
      /\ limiting' = NewLimiting(r)
  BY DEF recv_ctrl_at_source, pairVars, recvVars, countVars
<1>2. is_active
  <2>1. ctrlRev # <<>>
    BY DEF recv_ctrl_at_source
  <2>2. outstanding = 1 /\ nextctrl = <<>>
    BY <2>1, HostInvParts, OneControl DEF Parts
  <2> QED
    BY <2>2, HostInvParts, OneControl DEF Parts, Held
<1>3. CountsFit /\ SentFits /\ TimersFit
  BY <1>2 DEF TransferInv
<1>4. /\ SentFits' /\ Old(dataNet', fid') /\ TimersFit'
      /\ send_ctrl_fin /\ ~ stop_requested => "data" \notin timers' /\ "rto" \notin timers'
  BY <1>1, <1>2, <1>3, UseRateSends DEF NetsFit
<1>5. limiting' = "init" => limiting = "init"
  BY <1>1 DEF NewLimiting
<1>6. CountsFit'
  BY <1>1, <1>3, <1>4, <1>5, CountsKeep
<1> QED
  BY <1>1, <1>4, <1>6 DEF TransferInv, NetsFit

\* The trickle rate of an exit packet may make the source send once more, but
\* the transfer is over.
LEMMA ExitSends ==
    ASSUME HostInv, Old(dataNet, fid), recv_exit_at_source
    PROVE  is_active /\ Old(dataNet', fid) /\ dataNet' \in Seq(Packet)
<1>1. ctrlRev # <<>>
  BY DEF recv_exit_at_source
<1>2. outstanding = 1 /\ nextctrl = <<>>
  BY <1>1, HostInvParts, OneControl DEF Parts
<1>3. is_active
  BY <1>2, HostInvParts, OneControl DEF Parts, Held
<1>4. \/ dataNet' = dataNet
      \/ \E type \in {"DATA", "FIN"} : Send(type)
  BY DEF recv_exit_at_source
<1>5. ASSUME NEW type \in {"DATA", "FIN"}, Send(type)
      PROVE  Old(dataNet', fid) /\ dataNet' \in Seq(Packet)
  <2> DEFINE p == [fid |-> fid, type |-> type]
  <2>1. p \in Packet /\ p.fid = fid
    BY <1>3, HostFacts DEF Packet
  <2>2. dataNet' = Append(dataNet, p)
    BY <1>5 DEF Send
  <2> HIDE DEF p
  <2> QED
    BY <2>1, <2>2, HostFacts, OldAppend, AppendFacts
<1> QED
  BY <1>3, <1>4, <1>5, HostFacts

LEMMA ExitFits ==
    ASSUME HostInv, NetsFit, TransferInv, recv_exit_at_source
    PROVE  NetsFit' /\ TransferInv'
<1>1. /\ ResetAgents /\ ackNet' = ackNet
  BY DEF recv_exit_at_source
<1>2. Old(dataNet', fid)
  BY ExitSends DEF NetsFit
<1> QED
  BY <1>1, <1>2 DEF ResetAgents, TransferInv, NetsFit

LEMMA DataAtDestFits ==
    ASSUME HostInv, NetsFit, TransferInv, recv_data_at_dest
    PROVE  NetsFit' /\ TransferInv'
<1> DEFINE p == Head(dataNet)
           n == num_received + (IF p.type = "SYN" THEN 0 ELSE 1)
           a == [fid |-> fid, type |-> AckType(p.type), count |-> n]
<1>1. /\ UNCHANGED <<is_active, fid, numpkts, state, limiting, num_sent,
                     num_to_retransmit, num_acked, timers, send_ctrl_fin, stop_requested>>
      /\ dataNet # <<>> /\ dataNet' = Tail(dataNet)
  BY DEF recv_data_at_dest, pairVars, finVars, countVars
<1>2. p \in Packet
  BY <1>1, HostFacts, TailFacts
<1>3. Old(dataNet', fid')
  BY <1>1, HostFacts, OldTail DEF NetsFit
<1>4. CASE p.fid # fid
  <2>1. UNCHANGED <<num_received, delivered, ackNet>>
    BY <1>4 DEF recv_data_at_dest
  <2>2. ASSUME is_active PROVE SentFits'
    <3>1. DataFits(dataNet, fid, num_received, num_sent) =>
              DataFits(Tail(dataNet), fid, num_received, num_sent)
      BY <1>1, HostFacts, DataFitsTail
    <3> QED
      BY <1>1, <2>1, <2>2, <3>1 DEF TransferInv, SentFits
  <2>3. is_active => CountsFit' /\ TimersFit'
    BY <1>1, <2>1 DEF TransferInv, CountsFit, TimersFit
  <2> QED
    BY <1>1, <1>3, <2>1, <2>2, <2>3 DEF TransferInv, NetsFit
<1>5. CASE p.fid = fid
  <2>1. num_received' = n /\ ackNet' = Append(ackNet, a)
    BY <1>5 DEF recv_data_at_dest
  <2>2. delivered' = delivered + (IF p.type = "SYN" THEN 0 ELSE 1)
    BY <1>5 DEF recv_data_at_dest
  <2>3. n \in Nat /\ n >= num_received
        /\ (p.type = "SYN" => n = num_received)
        /\ (p.type # "SYN" => n = num_received + 1)
    BY HostFacts
  <2>4. a \in Ack /\ a.fid = fid /\ a.count = n
    <3>1. p.type \in {"SYN", "DATA", "FIN"} /\ fid \in 1 .. MaxTransfers
      BY <1>2, <1>5 DEF Packet
    <3>2. AckType(p.type) \in {"SYNACK", "ACK", "FINACK"}
      BY <3>1 DEF AckType
    <3> QED
      BY <2>3, <3>1, <3>2 DEF Ack
  <2> HIDE DEF a, n
  <2>5. Old(ackNet', fid')
    <3>1. Old(Append(ackNet, a), fid)
      BY <2>4, HostFacts, OldAppend DEF NetsFit
    <3> QED
      BY <1>1, <2>1, <3>1
  <2>6. ASSUME is_active PROVE CountsFit' /\ SentFits' /\ TimersFit'
    <3>1. CountsFit /\ SentFits /\ TimersFit
      BY <2>6 DEF TransferInv
    <3>2. AnswersFit(Append(ackNet, a), fid, n)
      BY <2>3, <2>4, <3>1, HostFacts, AnswersFitAppend DEF CountsFit
    <3>3. delivered' = num_received'
      BY <2>1, <2>2, <2>3, <3>1 DEF CountsFit
    <3>4. num_acked <= n /\ (num_received >= numpkts => n >= numpkts)
      BY <2>3, <3>1, HostFacts DEF CountsFit
    <3>5. CountsFit'
      BY <1>1, <2>1, <3>1, <3>2, <3>3, <3>4 DEF CountsFit
    <3>6. DataFits(dataNet, fid, num_received, num_sent) =>
              DataFits(Tail(dataNet), fid, n, num_sent)
      BY <1>1, <1>5, <2>3, HostFacts, DataFitsTail DEF IsData
    <3>7. SentFits' /\ TimersFit'
      BY <1>1, <2>1, <3>1, <3>6 DEF SentFits, TimersFit
    <3> QED
      BY <3>5, <3>7
  <2> QED
    BY <1>1, <1>3, <2>5, <2>6 DEF TransferInv, NetsFit
<1> QED
  BY <1>4, <1>5

\* What is left of the acknowledgements when one arrives.
LEMMA AckArrives ==
    ASSUME HostInv, NetsFit, TransferInv, ackNet # <<>>
    PROVE  /\ Head(ackNet) \in Ack /\ Tail(ackNet) \in Seq(Ack)
           /\ Head(ackNet).count \in Nat
           /\ Old(Tail(ackNet), fid)
           /\ is_active => AnswersFit(Tail(ackNet), fid, num_received)
           /\ is_active /\ Head(ackNet).fid = fid => Head(ackNet).count <= num_received
<1>1. Head(ackNet) \in Ack /\ Tail(ackNet) \in Seq(Ack)
  BY HostFacts, TailFacts
<1>2. Head(ackNet).count \in Nat
  BY <1>1 DEF Ack
<1>3. Old(Tail(ackNet), fid)
  BY HostFacts, OldTail DEF NetsFit
<1>4. is_active => AnswersFit(ackNet, fid, num_received)
  BY DEF TransferInv, CountsFit
<1> QED
  BY <1>1, <1>2, <1>3, <1>4, HostFacts, AnswersFitTail

LEMMA SpuriousAckFits ==
    ASSUME HostInv, NetsFit, TransferInv, recv_spurious_ack
    PROVE  NetsFit' /\ TransferInv'
<1>1. /\ UNCHANGED <<is_active, fid, numpkts, state, limiting, num_sent,
                     num_to_retransmit, num_acked, timers, send_ctrl_fin,
                     stop_requested, num_received, delivered, dataNet>>
      /\ ackNet # <<>> /\ ackNet' = Tail(ackNet)
  BY DEF recv_spurious_ack, pairVars, dataVars, finVars, recvVars, countVars
<1>2. NetsFit'
  BY <1>1, AckArrives DEF NetsFit
<1>3. is_active => AnswersFit(ackNet', fid', num_received')
  BY <1>1, AckArrives
<1> QED
  BY <1>1, <1>2, <1>3 DEF TransferInv, CountsFit, SentFits, TimersFit

LEMMA SynackFits ==
    ASSUME HostInv, NetsFit, TransferInv, recv_synack
    PROVE  NetsFit' /\ TransferInv'
<1>1. /\ UNCHANGED <<is_active, fid, numpkts, limiting, num_to_retransmit, num_acked,
                     send_ctrl_fin, stop_requested, num_received, delivered>>
      /\ ackNet # <<>> /\ ackNet' = Tail(ackNet)
  BY DEF recv_synack, pairVars, finVars, recvVars, countVars
<1>2. Old(ackNet', fid')
  BY <1>1, AckArrives
<1>3. is_active => AnswersFit(ackNet', fid', num_received')
  BY <1>1, AckArrives
<1>4. CASE UNCHANGED <<dataVars, timers>>
  <2>1. UNCHANGED <<state, num_sent, dataNet, timers>>
    BY <1>4 DEF dataVars
  <2> QED
    BY <1>1, <1>2, <1>3, <2>1 DEF NetsFit, TransferInv, CountsFit, SentFits, TimersFit
<1>5. CASE /\ state = "SYNSENT" /\ state' = "SYNACK_RECVD"
           /\ UNCHANGED <<num_sent, num_resent, dataNet, timers>>
  BY <1>1, <1>2, <1>3, <1>5 DEF NetsFit, TransferInv, CountsFit, SentFits, TimersFit
<1>6. CASE state = "SYNSENT" /\ start(timers)
  <2>1. is_active /\ "data" \notin timers /\ "rto" \notin timers /\ timers \in SUBSET Timer
        /\ Parts
    BY <1>6, HostInvParts DEF HostInv, PairFits, SourceFits, TypeOK
  <2>2. CountsFit /\ SentFits /\ TimersFit
    BY <2>1 DEF TransferInv
  <2>3. SentFits' /\ Old(dataNet', fid')
    BY <1>1, <1>6, <2>1, <2>2, TimeoutSends DEF start, NetsFit
  <2>4. /\ state' \in {"RUNNING", "FINSENT"}
        /\ state' = "RUNNING" => "data" \in timers'
        /\ ({"data", "rto"} \cap timers') # {}
    BY <1>1, <1>6, <2>1, HostFacts, StartKeeps DEF Parts
  <2>5. send_ctrl_fin => stop_requested
    BY <1>6, <2>1, <2>2, EndedState
  <2>6. CountsFit'
    BY <1>1, <1>3, <2>1, <2>2, <2>5 DEF CountsFit
  <2> QED
    BY <1>2, <2>3, <2>4, <2>6 DEF NetsFit, TransferInv, TimersFit
<1> QED
  BY <1>4, <1>5, <1>6 DEF recv_synack

LEMMA AckFits ==
    ASSUME HostInv, NetsFit, TransferInv, recv_ack
    PROVE  NetsFit' /\ TransferInv'
<1> DEFINE count == Head(ackNet).count
           over  == AllAcked(count) /\ ~ send_ctrl_fin
<1>1. /\ ackNet # <<>> /\ ackNet' = Tail(ackNet) /\ Head(ackNet).fid = fid
      /\ fid' = fid /\ dataNet' = dataNet
  BY DEF recv_ack, ResetAgents, pairVars, dataVars
<1>2. NetsFit'
  BY <1>1, AckArrives DEF NetsFit
<1>3. CASE over /\ FinishesAtOnce
  BY <1>2, <1>3 DEF recv_ack, ResetAgents, TransferInv
<1>4. CASE ~ (over /\ FinishesAtOnce)
  <2>1. /\ num_acked' = count
        /\ send_ctrl_fin' = (send_ctrl_fin \/ over)
        /\ timers' = IF over THEN stop_data(timers) ELSE timers
        /\ UNCHANGED <<is_active, fid, numpkts, state, limiting, num_sent,
                       num_to_retransmit, num_received, delivered, dataNet, stop_requested>>
    BY <1>4 DEF recv_ack, pairVars, dataVars, recvVars
  <2>2. ASSUME is_active PROVE CountsFit' /\ SentFits' /\ TimersFit'
    <3>1. CountsFit /\ SentFits /\ TimersFit
      BY <2>2 DEF TransferInv
    <3>2. /\ count \in Nat /\ count <= num_received
          /\ AnswersFit(ackNet', fid', num_received')
      BY <1>1, <2>1, <2>2, AckArrives
    <3>3. CASE over
      <4>1. /\ count >= numpkts /\ limiting # "init" /\ send_ctrl_fin' = TRUE
            /\ timers' = stop_data(timers)
        BY <1>4, <2>1, <3>3 DEF AllAcked, FinishesAtOnce
      <4>2. num_received >= numpkts /\ "data" \notin timers' /\ "rto" \notin timers'
        BY <3>2, <4>1, HostFacts DEF stop_data
      <4> HIDE DEF count
      <4>3. CountsFit'
        BY <2>1, <3>1, <3>2, <4>1, <4>2 DEF CountsFit
      <4> QED
        BY <2>1, <3>1, <4>1, <4>3 DEF SentFits, TimersFit
    <3>4. CASE ~ over
      <4>1. /\ ~ send_ctrl_fin => count < numpkts
            /\ send_ctrl_fin' = send_ctrl_fin /\ timers' = timers
        BY <2>1, <3>2, <3>4, HostFacts DEF AllAcked
      <4> HIDE DEF count
      <4>2. CountsFit'
        BY <2>1, <3>1, <3>2, <4>1 DEF CountsFit
      <4> QED
        BY <2>1, <3>1, <4>1, <4>2 DEF SentFits, TimersFit
    <3> QED
      BY <3>3, <3>4
  <2> QED
    BY <1>2, <2>1, <2>2 DEF TransferInv
<1> QED
  BY <1>3, <1>4

\* Every step keeps the invariant of a transfer that starts with clean counters.
LEMMA NextTransferInv ==
    ASSUME HostInv, NetsFit, TransferInv, Fresh, [Next]_vars
    PROVE  NetsFit' /\ TransferInv'
<1>1. CASE \/ ctrl_timeout \/ recv_ctrl_at_dest \/ UNCHANGED vars
  <2>1. UNCHANGED <<is_active, fid, numpkts, state, limiting, num_sent,
                    num_to_retransmit, num_acked, timers, send_ctrl_fin,
                    stop_requested, num_received, delivered, dataNet, ackNet>>
    BY <1>1 DEF ctrl_timeout, recv_ctrl_at_dest, vars, pairVars, dataVars, finVars,
                recvVars, countVars
  <2> QED
    BY <2>1, OtherSteps
<1> QED
  BY <1>1, StartFits, StopFits, LoseFits, SendFirstFits, SynTimeoutFits, DataTimeoutFits,
     RtoFits, CtrlAtSourceFits, ExitFits, DataAtDestFits, SpuriousAckFits, SynackFits, AckFits
     DEF Next, RecvAck, RecvCtrlAtSource
-----------------------------------------------------------------------------
(* The network while few packets are lost *)

LEMMA NetIsTail ==
    ASSUME NEW S, NEW s \in Seq(S), s # <<>>, NEW f, NEW type, NEW yes,
           NetIs(s, f, type, yes)
    PROVE  /\ NetIs(Tail(s), f, type, yes)
           /\ Head(s).fid = f /\ (Head(s).type = type <=> yes)
<1>1. /\ Len(s) \in Nat /\ Len(s) > 0 /\ Head(s) = s[1] /\ Len(Tail(s)) = Len(s) - 1
      /\ \A k \in 1 .. Len(Tail(s)) : Tail(s)[k] = s[k + 1]
  BY TailFacts
<1>2. 1 \in 1 .. Len(s) /\ \A k \in 1 .. Len(Tail(s)) : k + 1 \in 1 .. Len(s)
  BY <1>1
<1>3. Head(s).fid = f /\ (Head(s).type = type <=> yes)
  BY <1>1, <1>2 DEF NetIs
<1>4. NetIs(Tail(s), f, type, yes)
  BY <1>1, <1>2 DEF NetIs
<1> QED
  BY <1>3, <1>4

LEMMA NetIsAppend ==
    ASSUME NEW S, NEW s \in Seq(S), NEW p \in S, NEW f, NEW type, NEW yes,
           NetIs(s, f, type, yes), p.fid = f, p.type = type <=> yes
    PROVE  NetIs(Append(s, p), f, type, yes)
<1> DEFINE t == Append(s, p)
<1>1. /\ Len(s) \in Nat /\ Len(t) = Len(s) + 1
      /\ \A k \in 1 .. Len(s) : t[k] = s[k]
      /\ t[Len(s) + 1] = p
  BY AppendFacts
<1> HIDE DEF t
<1>2. ASSUME NEW k \in 1 .. Len(t) PROVE t[k].fid = f /\ (t[k].type = type <=> yes)
  <2>1. CASE k \in 1 .. Len(s)
    BY <1>1, <2>1 DEF NetIs
  <2>2. CASE k = Len(s) + 1
    BY <1>1, <2>2
  <2> QED
    BY <1>1, <2>1, <2>2
<1> QED
  BY <1>2 DEF NetIs, t

LEMMA InOrderTail ==
    ASSUME NEW s \in Seq(Ack), s # <<>>, NEW n \in Int, InOrder(s, n)
    PROVE  InOrder(Tail(s), n) /\ Head(s).count = n - Len(s) + 1
<1>1. /\ Len(s) \in Nat /\ Len(s) > 0 /\ Head(s) = s[1] /\ Len(Tail(s)) = Len(s) - 1
      /\ \A k \in 1 .. Len(Tail(s)) : Tail(s)[k] = s[k + 1]
  BY TailFacts
<1>2. 1 \in 1 .. Len(s) /\ \A k \in 1 .. Len(Tail(s)) : k + 1 \in 1 .. Len(s)
  BY <1>1
<1>3. Head(s).count = n - Len(s) + 1
  BY <1>1, <1>2 DEF InOrder
<1>4. ASSUME NEW k \in 1 .. Len(Tail(s))
      PROVE  Tail(s)[k].count = n - Len(Tail(s)) + k
  <2>1. Tail(s)[k].count = n - Len(s) + (k + 1)
    BY <1>1, <1>2 DEF InOrder
  <2> QED
    BY <1>1, <2>1
<1> QED
  BY <1>3, <1>4 DEF InOrder

LEMMA InOrderAppend ==
    ASSUME NEW s \in Seq(Ack), NEW a \in Ack, NEW n \in Int, InOrder(s, n),
           a.count = n + 1
    PROVE  InOrder(Append(s, a), n + 1)
<1> DEFINE t == Append(s, a)
<1>1. /\ Len(s) \in Nat /\ Len(t) = Len(s) + 1
      /\ \A k \in 1 .. Len(s) : t[k] = s[k]
      /\ t[Len(s) + 1] = a
  BY AppendFacts
<1> HIDE DEF t
<1>2. ASSUME NEW k \in 1 .. Len(t) PROVE t[k].count = n + 1 - Len(t) + k
  <2>1. CASE k \in 1 .. Len(s)
    BY <1>1, <2>1 DEF InOrder
  <2>2. CASE k = Len(s) + 1
    BY <1>1, <2>2
  <2> QED
    BY <1>1, <2>1, <2>2
<1> QED
  BY <1>2 DEF InOrder, t

\* An empty network.
LEMMA QuietFacts ==
    ASSUME NEW f, NEW type, NEW yes, NEW n
    PROVE  /\ NetIs(<<>>, f, type, yes) /\ InOrder(<<>>, n) /\ Len(<<>>) = 0
BY DEF NetIs, InOrder

\* Two counts with sum at most one.
LEMMA OneOfTwo ==
    ASSUME NEW a \in Nat, NEW b \in Nat, a + b <= 1, b # 0
    PROVE  a = 0 /\ b = 1
OBVIOUS

\* The lengths of the two networks.
LEMMA NetLengths ==
    ASSUME HostInv
    PROVE  /\ Len(dataNet) \in Nat /\ Len(ackNet) \in Nat
           /\ dataNet = <<>> <=> Len(dataNet) = 0
           /\ ackNet = <<>> <=> Len(ackNet) = 0
           /\ dataNet # <<>> => Len(Tail(dataNet)) = Len(dataNet) - 1
           /\ ackNet # <<>> => Len(Tail(ackNet)) = Len(ackNet) - 1
BY HostFacts, NoneFacts, TailFacts

\* A transfer whose data has not ended, when few packets are lost.
Orderly ==
    /\ HostInv
    /\ TransferInv
    /\ OrderInv
    /\ FewLosses
    /\ ~ stop_requested

\* What a packet under way tells.
LEMMA BusyNet ==
    ASSUME Orderly, ~ Quiet
    PROVE  /\ is_active /\ ActiveOrder /\ ~ send_ctrl_fin
           /\ CountsFit /\ SentFits
           /\ state \notin {"INACT", "SYNACK_RECVD"}
BY DEF Orderly, OrderInv, ActiveOrder, TransferInv

LEMMA ResetOrder ==
    ASSUME ResetAgents, Quiet, UNCHANGED <<dataNet, ackNet>>
    PROVE  OrderInv'
BY DEF ResetAgents, ResetReceiver, OrderInv, Quiet

LEMMA StartOrder ==
    ASSUME Orderly, StartTransfer
    PROVE  OrderInv'
<1>1. /\ ~ is_active /\ is_active' /\ state' = state
      /\ UNCHANGED <<dataNet, ackNet, send_ctrl_fin>>
  BY DEF StartTransfer, dataVars, finVars
<1>2. Quiet /\ state = "INACT"
  BY <1>1 DEF Orderly, OrderInv, HostInv, PairFits, ActiveOrder
<1> QED
  BY <1>1, <1>2, QuietFacts DEF OrderInv, ActiveOrder, Quiet

LEMMA LoseOrder ==
    ASSUME Orderly, Lose, FewLosses'
    PROVE  OrderInv'
<1>1. /\ UNCHANGED <<is_active, fid, numpkts, state, num_sent, num_resent,
                     num_to_retransmit, num_acked, send_ctrl_fin, num_received>>
      /\ losses' = losses + 1
      /\ \/ dataNet # <<>> /\ dataNet' = Tail(dataNet) /\ ackNet' = ackNet
         \/ ackNet # <<>> /\ ackNet' = Tail(ackNet) /\ dataNet' = dataNet
  BY DEF Lose, pairVars, finVars, recvVars, countVars
<1>2. /\ losses = 0 /\ HostInv
      /\ is_active /\ ActiveOrder /\ ~ send_ctrl_fin
      /\ state \notin {"INACT", "SYNACK_RECVD"}
  <2>1. ~ Quiet /\ losses \in Nat /\ losses' <= 1 /\ HostInv
    BY <1>1, HostFacts DEF Quiet, FewLosses, Orderly
  <2> QED
    BY <1>1, <2>1, BusyNet
<1>3. state # "RETRANSMIT"
  BY <1>2 DEF ActiveOrder, RetransmitOrder
<1>4. /\ NetIs(dataNet', fid, "SYN", state = "SYNSENT")
      /\ NetIs(ackNet', fid, "SYNACK", state = "SYNSENT")
  <2>1. dataNet # <<>> => NetIs(Tail(dataNet), fid, "SYN", state = "SYNSENT")
    BY <1>2, HostFacts, NetIsTail DEF ActiveOrder
  <2>2. ackNet # <<>> => NetIs(Tail(ackNet), fid, "SYNACK", state = "SYNSENT")
    BY <1>2, HostFacts, NetIsTail DEF ActiveOrder
  <2> QED
    BY <1>1, <1>2, <2>1, <2>2 DEF ActiveOrder
<1>5. /\ Len(dataNet') \in Nat /\ Len(ackNet') \in Nat
      /\ Len(dataNet') + Len(ackNet') = Len(dataNet) + Len(ackNet) - 1
      /\ Len(dataNet') <= Len(dataNet) /\ Len(ackNet') <= Len(ackNet)
  BY <1>1, <1>2, NetLengths
<1>6. AcksInOrder => AcksInOrder'
  <2> SUFFICES ASSUME AcksInOrder PROVE AcksInOrder'
    OBVIOUS
  <2>1. ackNet # <<>> => InOrder(Tail(ackNet), num_received)
    BY <1>2, HostFacts, InOrderTail DEF AcksInOrder
  <2>2. InOrder(ackNet', num_received)
    BY <1>1, <2>1 DEF AcksInOrder
  <2>3. num_acked + Len(ackNet') <= num_received
    BY <1>2, <1>5, HostFacts, NetLengths DEF AcksInOrder
  <2> QED
    BY <1>1, <2>2, <2>3 DEF AcksInOrder
<1>7. SendingOrder => SendingOrder'
  <2>1. /\ num_received \in Nat /\ num_sent \in Nat /\ num_acked \in Nat
        /\ Len(dataNet) \in Nat /\ Len(ackNet) \in Nat
    BY <1>2, HostFacts, NetLengths
  <2>2. /\ UNCHANGED <<num_received, num_sent, num_acked>>
        /\ losses = 0 /\ losses' = 1
    BY <1>1, <1>2
  <2> QED
    BY <1>5, <2>1, <2>2 DEF SendingOrder
<1>8. state = "SYNSENT" => Len(dataNet') + Len(ackNet') <= 1
  BY <1>2, <1>5, NetLengths DEF ActiveOrder
<1>9. ActiveOrder'
  BY <1>1, <1>2, <1>3, <1>4, <1>6, <1>7, <1>8 DEF ActiveOrder
<1> QED
  BY <1>1, <1>2, <1>9 DEF OrderInv

\* A network with one packet of data in it.
LEMMA OneData ==
    ASSUME HostInv, is_active, NEW type \in {"DATA", "FIN"}, Send(type)
    PROVE  /\ Len(dataNet') = Len(dataNet) + 1
           /\ NetIs(dataNet, fid, "SYN", FALSE) => NetIs(dataNet', fid, "SYN", FALSE)
<1> DEFINE p == [fid |-> fid, type |-> type]
<1>1. p \in Packet /\ p.fid = fid /\ p.type # "SYN"
  BY HostFacts DEF Packet
<1>2. dataNet' = Append(dataNet, p)
  BY DEF Send
<1> HIDE DEF p
<1>3. Len(Append(dataNet, p)) = Len(dataNet) + 1
  BY <1>1, HostFacts, AppendFacts
<1>4. NetIs(dataNet, fid, "SYN", FALSE) => NetIs(Append(dataNet, p), fid, "SYN", FALSE)
  BY <1>1, HostFacts, NetIsAppend
<1> QED
  BY <1>2, <1>3, <1>4

\* The first packet of data finds an empty network.
LEMMA FirstSends ==
    ASSUME HostInv, is_active, dataNet = <<>>, ackNet' = <<>>, ~ send_ctrl_fin,
           num_sent = 0, num_received = 0, num_acked = 0,
           NEW ts, start(ts),
           UNCHANGED <<is_active, fid, numpkts, num_received, num_acked, losses, send_ctrl_fin>>
    PROVE  OrderInv'
<1>1. \E type \in {"DATA", "FIN"} : Send(type)
  BY DEF start, timeout
<1>2. /\ num_sent' = 1 /\ state' \in {"RUNNING", "FINSENT"}
      /\ state' = "FINSENT" => 0 >= Minus(numpkts, 1)
  BY DEF start, timeout
<1>3. /\ numpkts \in Nat /\ numpkts > 0 /\ numpkts < UINT /\ losses \in Nat
  BY HostFacts
<1>4. Minus(numpkts, 1) = numpkts - 1
  BY <1>3, MinusExact
<1>5. state' = "FINSENT" => num_sent' = numpkts'
  BY <1>2, <1>3, <1>4
<1>6. Len(dataNet') = 1 /\ NetIs(dataNet', fid, "SYN", FALSE)
  <2>1. Len(<<>>) = 0 /\ NetIs(<<>>, fid, "SYN", FALSE)
    BY QuietFacts
  <2>2. /\ Len(dataNet') = Len(dataNet) + 1
        /\ NetIs(dataNet, fid, "SYN", FALSE) => NetIs(dataNet', fid, "SYN", FALSE)
    BY <1>1, OneData
  <2>3. NetIs(dataNet', fid, "SYN", FALSE)
    BY <2>1, <2>2, Zenon
  <2>4. Len(dataNet) = 0
    BY <2>1, Zenon
  <2>5. Len(dataNet') = 1
    BY <2>2, <2>4
  <2> QED
    BY <2>3, <2>5
<1>7. /\ NetIs(ackNet', fid, "SYNACK", FALSE) /\ InOrder(ackNet', num_received')
      /\ Len(ackNet') = 0
  BY QuietFacts
<1>8. AcksInOrder' /\ SendingOrder'
  BY <1>2, <1>3, <1>6, <1>7 DEF AcksInOrder, SendingOrder
<1>9. ActiveOrder'
  BY <1>2, <1>5, <1>6, <1>7, <1>8 DEF ActiveOrder
<1> QED
  BY <1>9 DEF OrderInv

\* Every other packet of data is one more under way.
LEMMA MoreSends ==
    ASSUME Orderly, is_active, ~ send_ctrl_fin, state \in {"RUNNING", "RETRANSMIT"},
           NEW ts, timeout(state, ts),
           UNCHANGED <<is_active, fid, numpkts, num_to_retransmit, num_received,
                       num_acked, losses, send_ctrl_fin, ackNet>>
    PROVE  OrderInv'
<1>1. HostInv /\ ActiveOrder
  BY DEF Orderly, OrderInv
<1>2. \E type \in {"DATA", "FIN"} : Send(type)
  BY DEF timeout
<1>3. /\ NetIs(dataNet, fid, "SYN", FALSE) /\ NetIs(ackNet, fid, "SYNACK", FALSE)
      /\ AcksInOrder
  BY <1>1 DEF ActiveOrder
<1>4. Len(dataNet') = Len(dataNet) + 1 /\ NetIs(dataNet', fid, "SYN", FALSE)
  BY <1>1, <1>2, <1>3, OneData
<1>5. AcksInOrder'
  BY <1>3 DEF AcksInOrder
<1>6. /\ num_received \in Nat /\ num_sent \in Nat /\ num_acked \in Nat /\ losses \in Nat
      /\ num_resent \in Nat
      /\ Len(dataNet) \in Nat /\ Len(ackNet) \in Nat
  BY <1>1, HostFacts, NetLengths
<1>7. CASE state = "RUNNING"
  <2>1. /\ num_sent' = num_sent + 1 /\ state' \in {"RUNNING", "FINSENT"}
        /\ state' = "FINSENT" => num_sent >= Minus(numpkts, 1)
    BY <1>7 DEF timeout
  <2>2. /\ numpkts \in Nat /\ numpkts > 0 /\ numpkts < UINT /\ num_sent < numpkts
    BY <1>1, <1>7, HostFacts
  <2>3. Minus(numpkts, 1) = numpkts - 1
    BY <2>2, MinusExact
  <2>4. state' = "FINSENT" => num_sent' = numpkts'
    BY <1>6, <2>1, <2>2, <2>3
  <2>5. SendingOrder
    BY <1>1, <1>7 DEF ActiveOrder
  <2>6. SendingOrder'
    BY <1>4, <1>6, <2>1, <2>5 DEF SendingOrder
  <2>7. ActiveOrder'
    BY <1>3, <1>4, <1>5, <2>1, <2>4, <2>6 DEF ActiveOrder
  <2> QED
    BY <2>7 DEF OrderInv
<1>8. CASE state = "RETRANSMIT"
  <2>1. num_resent' = num_resent + 1 /\ state' = "RETRANSMIT"
    BY <1>8 DEF timeout
  <2>2. RetransmitOrder
    BY <1>1, <1>8 DEF ActiveOrder
  <2>3. RetransmitOrder'
    BY <1>4, <1>6, <2>1, <2>2 DEF RetransmitOrder
  <2>4. ActiveOrder'
    BY <1>3, <1>4, <1>5, <2>1, <2>3 DEF ActiveOrder
  <2> QED
    BY <2>4 DEF OrderInv
<1> QED
  BY <1>7, <1>8

\* A SYN finds an empty network.
LEMMA SynOrder ==
    ASSUME HostInv, is_active, Quiet, Send("SYN"), state' = "SYNSENT", ~ send_ctrl_fin,
           UNCHANGED <<is_active, fid, send_ctrl_fin, ackNet>>
    PROVE  OrderInv'
<1> DEFINE p == [fid |-> fid, type |-> "SYN"]
<1>1. p \in Packet /\ p.fid = fid /\ p.type = "SYN"
  BY HostFacts DEF Packet
<1>2. dataNet' = Append(dataNet, p)
  BY DEF Send
<1> HIDE DEF p
<1>3. Len(Append(dataNet, p)) = 1 /\ NetIs(Append(dataNet, p), fid, "SYN", TRUE)
  <2>1. Len(Append(dataNet, p)) = Len(dataNet) + 1
    BY <1>1, HostFacts, AppendFacts
  <2>2. Len(<<>>) = 0 /\ NetIs(<<>>, fid, "SYN", TRUE)
    BY QuietFacts
  <2>3. dataNet = <<>>
    BY DEF Quiet
  <2>4. NetIs(dataNet, fid, "SYN", TRUE) /\ Len(dataNet) = 0
    BY <2>2, <2>3, Zenon
  <2>5. NetIs(Append(dataNet, p), fid, "SYN", TRUE)
    BY <1>1, <2>4, HostFacts, NetIsAppend
  <2>6. Len(Append(dataNet, p)) = 1
    BY <2>1, <2>4
  <2> QED
    BY <2>5, <2>6
<1>4. NetIs(ackNet', fid, "SYNACK", TRUE) /\ Len(ackNet') = 0
  <2>1. ackNet' = <<>>
    BY DEF Quiet
  <2>2. NetIs(<<>>, fid, "SYNACK", TRUE) /\ Len(<<>>) = 0
    BY QuietFacts
  <2> QED
    BY <2>1, <2>2, Zenon
<1>5. ActiveOrder'
  <2>1. NetIs(dataNet', fid', "SYN", TRUE) /\ NetIs(ackNet', fid', "SYNACK", TRUE)
    BY <1>2, <1>3, <1>4, Zenon
  <2>2. Len(dataNet') + Len(ackNet') <= 1
    BY <1>2, <1>3, <1>4
  <2> QED
    BY <2>1, <2>2 DEF ActiveOrder
<1> QED
  BY <1>5 DEF OrderInv

\* Before its first packet of data a transfer has received nothing.
LEMMA NothingYet ==
    ASSUME Orderly, is_active, state \in {"INACT", "SYNSENT", "SYNACK_RECVD"}
    PROVE  /\ num_sent = 0 /\ num_received = 0 /\ num_acked = 0 /\ ~ send_ctrl_fin
<1>1. HostInv /\ CountsFit /\ SentFits /\ ~ stop_requested
  BY DEF Orderly, TransferInv
<1>2. num_sent = 0 /\ num_received <= num_sent /\ num_acked <= num_received
  BY <1>1, HostFacts DEF SentFits, DataFits, CountsFit
<1>3. ~ send_ctrl_fin
  BY <1>1, EndedState
<1> QED
  BY <1>1, <1>2, <1>3, HostFacts

LEMMA SendFirstOrder ==
    ASSUME Orderly, SendFirst
    PROVE  OrderInv'
<1>1. /\ HostInv /\ is_active /\ state = "INACT"
  BY DEF Orderly, SendFirst, HostInv, PairFits
<1>2. Quiet
  BY <1>1 DEF Orderly, OrderInv, ActiveOrder
<1>3. /\ num_sent = 0 /\ num_received = 0 /\ num_acked = 0 /\ ~ send_ctrl_fin
  BY <1>1, NothingYet
<1>4. UNCHANGED <<is_active, fid, numpkts, num_received, num_acked, losses, send_ctrl_fin, ackNet>>
  BY DEF SendFirst, pairVars, recvVars, countVars, boundVars
<1>5. CASE limiting = "sperc"
  <2>1. Send("SYN") /\ state' = "SYNSENT"
    BY <1>5 DEF SendFirst
  <2> QED
    BY <1>1, <1>2, <1>3, <1>4, <2>1, SynOrder
<1>6. CASE limiting # "sperc"
  <2>1. start(timers \ {"jitter"})
    BY <1>6 DEF SendFirst
  <2> QED
    BY <1>1, <1>2, <1>3, <1>4, <2>1, FirstSends DEF Quiet
<1> QED
  BY <1>5, <1>6

\* While no timer is early, the one that waits for an answer finds no packet.
LEMMA NoAnswer ==
    ASSUME Orderly, WaitsInVain, FewLosses'
    PROVE  Quiet
BY DEF Orderly, WaitsInVain, FewLosses, Quiet

LEMMA SynTimeoutOrder ==
    ASSUME Orderly, syn_retransmit_timeout, FewLosses'
    PROVE  OrderInv'
<1>1. UNCHANGED <<is_active, fid, numpkts, state, num_sent, num_resent, num_to_retransmit,
                  num_acked, losses, send_ctrl_fin, num_received, ackNet>>
  BY DEF syn_retransmit_timeout, pairVars, finVars, recvVars, countVars
<1>2. CASE state = "SYNSENT"
  <2>1. Send("SYN") /\ WaitsInVain /\ is_active /\ HostInv
    BY <1>2 DEF syn_retransmit_timeout, Orderly, HostInv, PairFits
  <2>2. Quiet /\ ~ send_ctrl_fin
    BY <1>2, <2>1, NoAnswer, NothingYet
  <2> QED
    BY <1>1, <1>2, <2>1, <2>2, SynOrder
<1>3. CASE state # "SYNSENT"
  <2>1. UNCHANGED dataNet
    BY <1>3 DEF syn_retransmit_timeout
  <2> QED
    BY <1>1, <2>1 DEF Orderly, OrderInv, ActiveOrder, AcksInOrder, SendingOrder,
       RetransmitOrder, Quiet
<1> QED
  BY <1>2, <1>3

LEMMA DataTimeoutOrder ==
    ASSUME Orderly, data_timeout
    PROVE  OrderInv'
<1>1. /\ UNCHANGED <<is_active, fid, numpkts, num_to_retransmit, num_received,
                     num_acked, losses, send_ctrl_fin, ackNet>>
      /\ "data" \in timers /\ timeout(state, timers \ {"data"})
  BY DEF data_timeout, pairVars, finVars, recvVars, countVars, boundVars
<1>2. state \in {"RUNNING", "RETRANSMIT"} /\ is_active
  BY <1>1 DEF Orderly, HostInv, SourceFits, PairFits
<1>3. ~ send_ctrl_fin
  BY <1>1, <1>2 DEF Orderly, TransferInv, CountsFit
<1> QED
  BY <1>1, <1>2, <1>3, MoreSends

LEMMA RtoOrder ==
    ASSUME Orderly, retrans_timeout, FewLosses'
    PROVE  OrderInv'
<1>1. /\ UNCHANGED <<is_active, fid, numpkts, num_sent, num_received, num_acked, losses,
                     send_ctrl_fin, dataNet, ackNet>>
      /\ "rto" \in timers /\ state' = "RETRANSMIT" /\ num_resent' = 0
      /\ num_to_retransmit' = Minus(numpkts, num_acked)
  BY DEF retrans_timeout, pairVars, finVars, recvVars, countVars
<1>2. Quiet
  BY NoAnswer DEF retrans_timeout
<1>3. /\ HostInv /\ is_active /\ state \in {"FINSENT", "RETRANSMIT"}
  BY <1>1 DEF Orderly, HostInv, SourceFits, PairFits
<1>4. ActiveOrder /\ CountsFit /\ ~ send_ctrl_fin
  BY <1>1, <1>3 DEF Orderly, OrderInv, TransferInv, CountsFit
<1>5. /\ num_received \in Nat /\ num_acked \in Nat /\ numpkts \in Nat /\ losses \in Nat
      /\ num_acked < numpkts /\ num_acked <= num_received /\ losses <= 1
  BY <1>3, <1>4, HostFacts DEF CountsFit, Orderly, FewLosses
<1>6. Len(dataNet) = 0 /\ Len(ackNet) = 0
  BY <1>2, QuietFacts DEF Quiet
<1>7. losses = 1 /\ num_acked = numpkts - 1
  <2>1. CASE state = "FINSENT"
    <3>1. SendingOrder /\ num_sent = numpkts
      BY <1>4, <2>1 DEF ActiveOrder
    <3> QED
      BY <1>5, <1>6, <3>1 DEF SendingOrder
  <2>2. CASE state = "RETRANSMIT"
    BY <1>4, <2>2 DEF ActiveOrder, RetransmitOrder
  <2> QED
    BY <1>3, <2>1, <2>2
<1>8. num_to_retransmit' = 1
  BY <1>1, <1>3, <1>4, <1>5, <1>7, MissingPackets
<1>9. RetransmitOrder'
  BY <1>1, <1>5, <1>6, <1>7, <1>8 DEF RetransmitOrder
<1>10. AcksInOrder'
  BY <1>1, <1>3, <1>4 DEF ActiveOrder, AcksInOrder
<1>11. ActiveOrder'
  BY <1>1, <1>2, <1>9, <1>10, QuietFacts DEF ActiveOrder, Quiet
<1> QED
  BY <1>1, <1>3, <1>11 DEF OrderInv

LEMMA UseRateOrder ==
    ASSUME Orderly, is_active, NEW r, UseRate(r, timers \cup {"ctrl"}),
           UNCHANGED <<is_active, fid, numpkts, num_to_retransmit, num_received,
                       num_acked, losses, send_ctrl_fin, ackNet>>
    PROVE  OrderInv'
<1>1. HostInv /\ CountsFit /\ SentFits /\ ActiveOrder /\ ~ stop_requested
  BY DEF Orderly, OrderInv, TransferInv
<1>2. \/ state = "RUNNING" /\ timeout(state, (timers \cup {"ctrl"}) \ {"data"})
      \/ state = "SYNACK_RECVD" /\ start(timers \cup {"ctrl"})
      \/ UNCHANGED dataVars
  BY DEF UseRate, rate_change
<1>3. CASE state = "RUNNING" /\ timeout(state, (timers \cup {"ctrl"}) \ {"data"})
  <2>1. ~ send_ctrl_fin
    BY <1>1, <1>3, EndedState
  <2> QED
    BY <1>3, <2>1, MoreSends
<1>4. CASE state = "SYNACK_RECVD" /\ start(timers \cup {"ctrl"})
  <2>1. Quiet
    BY <1>1, <1>4 DEF ActiveOrder
  <2> QED
    BY <1>1, <1>4, <2>1, NothingYet, FirstSends DEF Quiet
<1>5. CASE UNCHANGED dataVars
  BY <1>1, <1>5 DEF OrderInv, ActiveOrder, AcksInOrder, SendingOrder, RetransmitOrder,
     Quiet, dataVars
<1> QED
  BY <1>2, <1>3, <1>4, <1>5

LEMMA CtrlAtSourceOrder ==
    ASSUME Orderly, NEW r \in Rates, recv_ctrl_at_source(r)
    PROVE  OrderInv'
<1>1. is_active
  <2>1. ctrlRev # <<>> /\ Parts
    BY HostInvParts DEF recv_ctrl_at_source, Orderly
  <2>2. outstanding = 1 /\ nextctrl = <<>>
    BY <2>1, OneControl DEF Parts
  <2> QED
    BY <2>1, <2>2, OneControl DEF Parts, Held
<1> QED
  BY <1>1, UseRateOrder DEF recv_ctrl_at_source, pairVars, recvVars, countVars, boundVars

\* A transfer that was not stopped is over when its exit packet returns.
LEMMA ExitEnds ==
    ASSUME HostInv, TransferInv, NetsFit, recv_exit_at_source
    PROVE  /\ is_active /\ send_ctrl_fin
           /\ ~ stop_requested => /\ state \in {"FINSENT", "RETRANSMIT"}
                                  /\ num_received >= numpkts
<1>1. is_active
  BY ExitSends DEF NetsFit
<1>2. send_ctrl_fin
  BY HostInvParts, OneControl DEF recv_exit_at_source, Parts
<1> QED
  BY <1>1, <1>2, EndedState DEF TransferInv

LEMMA ExitOrder ==
    ASSUME Orderly, NetsFit, recv_exit_at_source
    PROVE  OrderInv'
<1>1. is_active /\ send_ctrl_fin /\ state \in {"FINSENT", "RETRANSMIT"}
  BY ExitEnds DEF Orderly
<1>2. Quiet
  BY <1>1 DEF Orderly, OrderInv, ActiveOrder
<1>3. ResetAgents /\ UNCHANGED <<dataNet, ackNet>>
  BY <1>1 DEF recv_exit_at_source
<1> QED
  BY <1>2, <1>3, ResetOrder

LEMMA DataAtDestOrder ==
    ASSUME Orderly, recv_data_at_dest
    PROVE  OrderInv'
<1> DEFINE p == Head(dataNet)
           n == num_received + (IF p.type = "SYN" THEN 0 ELSE 1)
           a == [fid |-> fid, type |-> AckType(p.type), count |-> n]
<1>1. /\ UNCHANGED <<is_active, fid, numpkts, state, num_sent, num_resent,
                     num_to_retransmit, num_acked, losses, send_ctrl_fin>>
      /\ dataNet # <<>> /\ dataNet' = Tail(dataNet)
  BY DEF recv_data_at_dest, pairVars, finVars, countVars, boundVars
<1>2. /\ HostInv /\ is_active /\ ActiveOrder /\ ~ send_ctrl_fin
      /\ state \notin {"INACT", "SYNACK_RECVD"}
  BY <1>1, BusyNet DEF Orderly, Quiet
<1>3. /\ p \in Packet /\ p.fid = fid /\ (p.type = "SYN" <=> state = "SYNSENT")
      /\ NetIs(dataNet', fid, "SYN", state = "SYNSENT")
  <2>1. NetIs(dataNet, fid, "SYN", state = "SYNSENT") /\ dataNet \in Seq(Packet)
    BY <1>2, HostFacts DEF ActiveOrder
  <2>2. /\ NetIs(Tail(dataNet), fid, "SYN", state = "SYNSENT")
        /\ p.fid = fid /\ (p.type = "SYN" <=> state = "SYNSENT")
    BY <1>1, <2>1, NetIsTail
  <2>3. p \in Packet
    BY <1>1, <2>1, TailFacts
  <2> HIDE DEF p
  <2> QED
    BY <1>1, <2>2, <2>3, Zenon
<1>4. num_received' = n /\ ackNet' = Append(ackNet, a)
  BY <1>3 DEF recv_data_at_dest
<1>5. /\ state = "SYNSENT" => n = num_received
      /\ state # "SYNSENT" => n = num_received + 1
      /\ n \in Nat
  BY <1>2, <1>3, HostFacts
<1>6. /\ a \in Ack /\ a.fid = fid /\ a.count = n
      /\ a.type = "SYNACK" <=> state = "SYNSENT"
  <2>1. p.type \in {"SYN", "DATA", "FIN"} /\ fid \in 1 .. MaxTransfers
    BY <1>3 DEF Packet
  <2>2. AckType(p.type) \in {"SYNACK", "ACK", "FINACK"}
        /\ (AckType(p.type) = "SYNACK" <=> p.type = "SYN")
    BY <2>1 DEF AckType
  <2> QED
    BY <1>3, <1>5, <2>1, <2>2 DEF Ack
<1> HIDE DEF a, n, p
<1>7. NetIs(ackNet', fid, "SYNACK", state = "SYNSENT")
  <2>1. NetIs(Append(ackNet, a), fid, "SYNACK", state = "SYNSENT")
    BY <1>2, <1>6, HostFacts, NetIsAppend DEF ActiveOrder
  <2> QED
    BY <1>4, <2>1
<1>8. /\ Len(dataNet') = Len(dataNet) - 1 /\ Len(ackNet') = Len(ackNet) + 1
      /\ Len(dataNet) \in Nat /\ Len(ackNet) \in Nat
  <2>1. Len(Append(ackNet, a)) = Len(ackNet) + 1
    BY <1>2, <1>6, HostFacts, AppendFacts
  <2> QED
    BY <1>1, <1>2, <1>4, <2>1, NetLengths
<1>9. /\ num_received \in Nat /\ num_sent \in Nat /\ num_acked \in Nat /\ losses \in Nat
      /\ num_resent \in Nat
  BY <1>2, HostFacts
<1>10. CASE state = "SYNSENT"
  <2>1. Len(dataNet') + Len(ackNet') <= 1
    BY <1>2, <1>8, <1>10 DEF ActiveOrder
  <2>2. ActiveOrder'
    BY <1>1, <1>2, <1>3, <1>7, <1>10, <2>1 DEF ActiveOrder
  <2> QED
    BY <1>1, <1>2, <2>2 DEF OrderInv
<1>11. CASE state # "SYNSENT"
  <2>1. state \in {"RUNNING", "FINSENT", "RETRANSMIT"} /\ num_received' = num_received + 1
    BY <1>2, <1>4, <1>5, <1>11, HostFacts DEF State
  <2>2. AcksInOrder
    BY <1>2, <2>1 DEF ActiveOrder
  <2>3. InOrder(Append(ackNet, a), num_received + 1)
    BY <1>2, <1>5, <1>6, <1>9, <1>11, <2>2, HostFacts, InOrderAppend DEF AcksInOrder
  <2>4. num_acked + Len(ackNet') <= num_received'
    BY <1>8, <1>9, <2>1, <2>2 DEF AcksInOrder
  <2>5. AcksInOrder'
    BY <1>1, <1>4, <2>1, <2>3, <2>4 DEF AcksInOrder
  <2>6. SendingOrder => SendingOrder'
    BY <1>1, <1>8, <1>9, <2>1 DEF SendingOrder
  <2>7. RetransmitOrder => RetransmitOrder'
    BY <1>1, <1>8, <1>9, <2>1 DEF RetransmitOrder
  <2>8. ActiveOrder'
    BY <1>1, <1>2, <1>3, <1>7, <1>11, <2>1, <2>5, <2>6, <2>7 DEF ActiveOrder
  <2> QED
    BY <1>1, <1>2, <2>8 DEF OrderInv
<1> QED
  BY <1>10, <1>11

LEMMA SynackOrder ==
    ASSUME Orderly, recv_synack
    PROVE  OrderInv'
<1>1. /\ UNCHANGED <<is_active, fid, numpkts, num_received, num_acked, losses, send_ctrl_fin>>
      /\ ackNet # <<>> /\ ackNet' = Tail(ackNet) /\ Head(ackNet).type = "SYNACK"
  BY DEF recv_synack, pairVars, finVars, recvVars, countVars, boundVars
<1>2. HostInv /\ is_active /\ ActiveOrder
  BY <1>1, BusyNet DEF Orderly, Quiet
<1>3. state = "SYNSENT"
  BY <1>1, <1>2, HostFacts, NetIsTail DEF ActiveOrder
<1>4. dataNet = <<>> /\ ackNet' = <<>>
  <2>1. /\ Len(dataNet) + Len(ackNet) <= 1 /\ Len(ackNet) # 0
        /\ Len(dataNet) \in Nat /\ Len(ackNet) \in Nat
    BY <1>1, <1>2, <1>3, NetLengths DEF ActiveOrder
  <2>2. Len(dataNet) = 0 /\ Len(ackNet) = 1
    BY <2>1, OneOfTwo
  <2> QED
    BY <1>1, <1>2, <2>2, HostFacts, NetLengths, OneFacts
<1>5. num_sent = 0 /\ num_received = 0 /\ num_acked = 0 /\ ~ send_ctrl_fin
  BY <1>2, <1>3, NothingYet
<1>6. CASE start(timers)
  BY <1>1, <1>2, <1>4, <1>5, <1>6, FirstSends
<1>7. CASE state' = "SYNACK_RECVD" /\ UNCHANGED dataNet
  <2>1. Quiet'
    BY <1>4, <1>7 DEF Quiet
  <2>2. /\ NetIs(<<>>, fid, "SYN", FALSE) /\ NetIs(<<>>, fid, "SYNACK", FALSE)
    BY QuietFacts
  <2>3. ActiveOrder'
    BY <1>1, <1>4, <1>7, <2>1, <2>2 DEF ActiveOrder
  <2> QED
    BY <1>1, <1>2, <2>3 DEF OrderInv
<1> QED
  BY <1>3, <1>6, <1>7 DEF recv_synack

LEMMA AckOrder ==
    ASSUME Orderly, recv_ack
    PROVE  OrderInv'
<1> DEFINE count == Head(ackNet).count
           over  == AllAcked(count) /\ ~ send_ctrl_fin
<1>1. /\ ackNet # <<>> /\ ackNet' = Tail(ackNet) /\ dataNet' = dataNet
      /\ Head(ackNet).type # "SYNACK" /\ losses' = losses
  BY DEF recv_ack, ResetAgents, dataVars, boundVars
<1>2. /\ HostInv /\ is_active /\ ActiveOrder /\ ~ send_ctrl_fin
      /\ state \notin {"INACT", "SYNACK_RECVD"}
  BY <1>1, BusyNet DEF Orderly, Quiet
<1>3. /\ state # "SYNSENT" /\ NetIs(ackNet', fid, "SYNACK", state = "SYNSENT")
  <2>1. NetIs(ackNet, fid, "SYNACK", state = "SYNSENT") /\ ackNet \in Seq(Ack)
    BY <1>2, HostFacts DEF ActiveOrder
  <2>2. /\ NetIs(Tail(ackNet), fid, "SYNACK", state = "SYNSENT")
        /\ Head(ackNet).type = "SYNACK" <=> state = "SYNSENT"
    BY <1>1, <2>1, NetIsTail
  <2> QED
    BY <1>1, <2>2, Zenon
<1>4. state \in {"RUNNING", "FINSENT", "RETRANSMIT"}
  BY <1>2, <1>3, HostFacts DEF State
<1>5. AcksInOrder
  BY <1>2, <1>4 DEF ActiveOrder
<1>6. InOrder(ackNet', num_received) /\ count = num_received - Len(ackNet) + 1
  BY <1>1, <1>2, <1>5, HostFacts, InOrderTail DEF AcksInOrder
<1>7. /\ Len(ackNet') = Len(ackNet) - 1 /\ Len(ackNet) > 0
      /\ Len(dataNet) \in Nat /\ Len(ackNet) \in Nat
  BY <1>1, <1>2, NetLengths
<1>8. /\ num_received \in Nat /\ num_sent \in Nat /\ num_acked \in Nat /\ losses \in Nat
      /\ num_resent \in Nat /\ num_to_retransmit \in Nat /\ numpkts \in Nat
      /\ num_sent <= numpkts /\ num_resent <= num_to_retransmit
  BY <1>2, HostFacts DEF HostInv, SourceFits
<1> HIDE DEF count
<1>9. over => Len(ackNet) = 1 /\ Len(dataNet) = 0
  <2> SUFFICES ASSUME over PROVE Len(ackNet) = 1 /\ Len(dataNet) = 0
    OBVIOUS
  <2>1. count >= numpkts
    BY DEF AllAcked
  <2>2. CASE state \in {"RUNNING", "FINSENT"}
    <3>1. SendingOrder
      BY <1>2, <2>2 DEF ActiveOrder
    <3> QED
      BY <1>6, <1>7, <1>8, <2>1, <3>1 DEF SendingOrder
  <2>3. CASE state = "RETRANSMIT"
    <3>1. RetransmitOrder
      BY <1>2, <2>3 DEF ActiveOrder
    <3> QED
      BY <1>7, <1>8, <3>1 DEF RetransmitOrder
  <2> QED
    BY <1>4, <2>2, <2>3
<1>10. over => Quiet'
  <2>1. over => ackNet' = <<>> /\ dataNet' = <<>>
    BY <1>1, <1>2, <1>9, HostFacts, NetLengths, OneFacts
  <2> QED
    BY <2>1 DEF Quiet
<1>11. CASE over /\ FinishesAtOnce
  <2>1. ResetAgents
    BY <1>11 DEF recv_ack, count
  <2> QED
    BY <1>10, <1>11, <2>1 DEF ResetAgents, ResetReceiver, OrderInv
<1>12. CASE ~ (over /\ FinishesAtOnce)
  <2>1. /\ num_acked' = count
        /\ send_ctrl_fin' = (send_ctrl_fin \/ over)
        /\ UNCHANGED <<is_active, fid, numpkts, state, num_sent, num_resent,
                       num_to_retransmit, num_received>>
    BY <1>12 DEF recv_ack, pairVars, dataVars, recvVars, count
  <2>2. AcksInOrder'
    BY <1>6, <1>7, <1>8, <2>1 DEF AcksInOrder
  <2>3. SendingOrder => SendingOrder'
    BY <1>1, <1>5, <1>6, <1>7, <1>8, <2>1 DEF SendingOrder, AcksInOrder
  <2>4. state = "RETRANSMIT" => over
    <3> SUFFICES ASSUME state = "RETRANSMIT" PROVE over
      OBVIOUS
    <3>1. RetransmitOrder
      BY <1>2 DEF ActiveOrder
    <3>2. count >= numpkts
      BY <1>6, <1>7, <1>8, <3>1 DEF RetransmitOrder
    <3> QED
      BY <1>2, <3>2 DEF AllAcked
  <2> HIDE DEF over
  <2>5. ActiveOrder'
    BY <1>1, <1>2, <1>3, <1>4, <1>10, <2>1, <2>2, <2>3, <2>4 DEF ActiveOrder
  <2> QED
    BY <1>2, <2>1, <2>5 DEF OrderInv
<1> QED
  BY <1>11, <1>12

\* Every step keeps the order of the network while few packets are lost.
LEMMA NextOrderInv ==
    ASSUME Orderly, NetsFit, [Next]_vars, FewLosses', ~ stop_requested'
    PROVE  OrderInv'
<1>1. CASE \/ ctrl_timeout \/ recv_ctrl_at_dest \/ UNCHANGED vars
  <2>1. UNCHANGED <<is_active, fid, numpkts, state, num_sent, num_to_retransmit, num_resent,
                    num_acked, send_ctrl_fin, num_received, dataNet, ackNet, losses>>
    BY <1>1 DEF ctrl_timeout, recv_ctrl_at_dest, vars, pairVars, dataVars, finVars,
                recvVars, countVars, boundVars
  <2> QED
    BY <2>1 DEF Orderly, OrderInv, ActiveOrder, AcksInOrder, SendingOrder,
                RetransmitOrder, Quiet
<1>2. CASE Stop
  BY <1>2 DEF Orderly, FewLosses, Stop
<1>3. CASE recv_spurious_ack
  <2>1. ackNet # <<>> /\ Head(ackNet).fid # fid
    BY <1>3 DEF recv_spurious_ack
  <2>2. HostInv /\ ActiveOrder
    BY <2>1, BusyNet DEF Orderly, Quiet
  <2>3. Head(ackNet).fid = fid
    BY <2>1, <2>2, HostFacts, NetIsTail DEF ActiveOrder
  <2> QED
    BY <2>1, <2>3
<1> QED
  BY <1>1, <1>2, <1>3, StartOrder, LoseOrder, SendFirstOrder, SynTimeoutOrder,
     DataTimeoutOrder, RtoOrder, CtrlAtSourceOrder, ExitOrder, DataAtDestOrder,
     SynackOrder, AckOrder
     DEF Next, RecvAck, RecvCtrlAtSource
-----------------------------------------------------------------------------
(* The invariant of a connection *)

\* What counts up, and who may ask for a stop.
LEMMA StepFacts ==
    ASSUME [Next]_vars
    PROVE  /\ fid' \in {fid, fid + 1}
           /\ losses' \in {losses, losses + 1}
           /\ spurious' \in {spurious, spurious + 1}
           /\ stop_requested' => stop_requested \/ AllowStop
<1> USE DEF pairVars, dataVars, finVars, ctrlVars, recvVars, countVars, boundVars
<1>1. CASE StartTransfer
  BY <1>1 DEF StartTransfer
<1>2. CASE Stop
  BY <1>2 DEF Stop, ResetAgents
<1>3. CASE Lose
  BY <1>3 DEF Lose
<1>4. CASE SendFirst
  BY <1>4 DEF SendFirst
<1>5. CASE syn_retransmit_timeout
  BY <1>5 DEF syn_retransmit_timeout, WaitsInVain
<1>6. CASE data_timeout
  BY <1>6 DEF data_timeout
<1>7. CASE retrans_timeout
  BY <1>7 DEF retrans_timeout, WaitsInVain
<1>8. CASE ctrl_timeout
  BY <1>8 DEF ctrl_timeout
<1>9. CASE recv_ctrl_at_dest
  BY <1>9 DEF recv_ctrl_at_dest
<1>10. CASE recv_exit_at_source
  BY <1>10 DEF recv_exit_at_source, ResetAgents
<1>11. CASE \E r \in Rates : recv_ctrl_at_source(r)
  BY <1>11 DEF recv_ctrl_at_source
<1>12. CASE recv_data_at_dest
  BY <1>12 DEF recv_data_at_dest
<1>13. CASE recv_spurious_ack
  BY <1>13 DEF recv_spurious_ack
<1>14. CASE recv_synack
  BY <1>14 DEF recv_synack
<1>15. CASE recv_ack
  BY <1>15 DEF recv_ack, ResetAgents
<1>16. CASE UNCHANGED vars
  BY <1>16 DEF vars
<1> QED
  BY <1>1, <1>2, <1>3, <1>4, <1>5, <1>6, <1>7, <1>8, <1>9, <1>10, <1>11, <1>12, <1>13,
     <1>14, <1>15, <1>16 DEF Next, RecvAck, RecvCtrlAtSource

\* Before the first transfer there is nothing that could arrive.
LEMMA NothingOld ==
    ASSUME HostInv, NetsFit, fid = 0
    PROVE  ~ is_active /\ dataNet = <<>> /\ ackNet = <<>>
<1>1. ~ is_active
  BY HostFacts
<1>2. ASSUME dataNet # <<>> PROVE FALSE
  <2>1. dataNet[1] \in Packet /\ dataNet[1].fid <= 0
    BY <1>2, HostFacts, NetLengths DEF NetsFit, Old
  <2> QED
    BY <2>1 DEF Packet
<1>3. ASSUME ackNet # <<>> PROVE FALSE
  <2>1. ackNet[1] \in Ack /\ ackNet[1].fid <= 0
    BY <1>3, HostFacts, NetLengths DEF NetsFit, Old
  <2> QED
    BY <2>1 DEF Ack
<1> QED
  BY <1>1, <1>2, <1>3

\* The first transfer starts with clean counters.
LEMMA FirstFresh ==
    ASSUME MaxTransfers <= 1, HostInv, HostInv', NetsFit, Fresh, [Next]_vars
    PROVE  Fresh'
<1> USE DEF pairVars, dataVars, finVars, ctrlVars, recvVars, countVars, boundVars
<1> SUFFICES ASSUME ~ is_active', fid' < MaxTransfers
             PROVE  num_received' = 0 /\ num_acked' = 0 /\ ~ send_ctrl_fin'
  BY DEF Fresh
<1>1. fid = 0 /\ fid < MaxTransfers
  <2>1. fid' \in 0 .. MaxTransfers
    BY DEF HostInv, TypeOK
  <2> QED
    BY <2>1, StepFacts, HostFacts, BoundAssumption
<1>2. ~ is_active /\ dataNet = <<>> /\ ackNet = <<>>
  BY <1>1, NothingOld
<1>3. num_received = 0 /\ num_acked = 0 /\ ~ send_ctrl_fin
  BY <1>1, <1>2 DEF Fresh
<1>4. CASE Lose \/ SendFirst \/ syn_retransmit_timeout \/ data_timeout \/ ctrl_timeout
  BY <1>3, <1>4 DEF Lose, SendFirst, syn_retransmit_timeout, data_timeout, ctrl_timeout
<1>5. CASE \/ retrans_timeout \/ recv_ctrl_at_dest \/ UNCHANGED vars
           \/ \E r \in Rates : recv_ctrl_at_source(r)
  BY <1>3, <1>5 DEF retrans_timeout, recv_ctrl_at_dest, recv_ctrl_at_source, vars
<1>6. CASE recv_exit_at_source
  BY <1>6 DEF recv_exit_at_source, ResetAgents, ResetReceiver
<1>7. CASE StartTransfer \/ Stop
  BY <1>2, <1>7 DEF StartTransfer, Stop
<1>8. CASE recv_data_at_dest \/ recv_spurious_ack \/ recv_synack \/ recv_ack
  BY <1>2, <1>8 DEF recv_data_at_dest, recv_spurious_ack, recv_synack, recv_ack
<1> QED
  BY <1>4, <1>5, <1>6, <1>7, <1>8 DEF Next, RecvAck, RecvCtrlAtSource

LEMMA InitConnectionInv == Init => ConnectionInv
<1> SUFFICES ASSUME Init PROVE ConnectionInv
  OBVIOUS
<1>1. HostInv
  BY InitHostInv
<1>2. NetsFit
  BY DEF Init, NetsFit, Old
<1> QED
  BY <1>1, <1>2 DEF Init, ConnectionInv, TransferInv, Fresh, OrderInv, Quiet

LEMMA NextConnectionInv == ConnectionInv /\ [Next]_vars => ConnectionInv'
<1> SUFFICES ASSUME ConnectionInv, [Next]_vars PROVE ConnectionInv'
  OBVIOUS
<1>1. HostInv /\ HostInv'
  BY NextHostInv DEF ConnectionInv
<1>2. stop_requested' => AllowStop
  BY StepFacts DEF ConnectionInv
<1>3. FewLosses' => FewLosses
  BY <1>1, StepFacts, HostFacts DEF FewLosses
<1>4. ASSUME Calm' PROVE NetsFit' /\ TransferInv' /\ Fresh'
  <2>1. NetsFit /\ TransferInv /\ Fresh
    BY <1>3, <1>4 DEF Calm, ConnectionInv
  <2>2. NetsFit' /\ TransferInv'
    BY <1>1, <2>1, NextTransferInv
  <2>3. CASE MaxTransfers <= 1
    BY <1>1, <2>1, <2>2, <2>3, FirstFresh
  <2>4. CASE FewLosses'
    <3>1. Orderly
      BY <1>3, <2>1, <2>4 DEF ConnectionInv, Orderly, FewLosses
    <3>2. OrderInv'
      BY <1>1, <1>2, <2>1, <2>4, <3>1, NextOrderInv DEF FewLosses
    <3> QED
      BY <2>2, <3>2 DEF OrderInv, Fresh
  <2> QED
    BY <1>4, <2>3, <2>4 DEF Calm
<1>5. ASSUME FewLosses' PROVE OrderInv'
  <2>1. Orderly /\ NetsFit
    BY <1>3, <1>5 DEF ConnectionInv, Orderly, FewLosses, Calm
  <2> QED
    BY <1>1, <1>2, <1>5, <2>1, NextOrderInv DEF FewLosses
<1> QED
  BY <1>1, <1>2, <1>4, <1>5 DEF ConnectionInv

LEMMA ConnectionInvHolds == Spec => []ConnectionInv
BY InitConnectionInv, NextConnectionInv, PTL DEF Spec

\* Every transfer of the connection starts with clean counters: there is only one,
\* or few packets are lost, no timer is early and no transfer is stopped.
CleanStarts ==
    \/ MaxTransfers <= 1
    \/ ~ AllowStop /\ MaxLosses <= 1 /\ MaxSpurious = 0

LEMMA AlwaysCalm ==
    ASSUME CleanStarts, ConnectionInv
    PROVE  HostInv /\ NetsFit /\ TransferInv
<1>1. losses \in 0 .. MaxLosses /\ spurious \in 0 .. MaxSpurious
  BY DEF ConnectionInv, HostInv, TypeOK
<1>2. Calm
  BY <1>1, BoundAssumption DEF CleanStarts, Calm, FewLosses
<1> QED
  BY <1>2 DEF ConnectionInv

\* How a transfer ends: by a stop without a control packet, after a stop was asked
\* for, or with all its data.
LEMMA Ends ==
    ASSUME HostInv, NetsFit, TransferInv, [Next]_vars, is_active, ~ is_active'
    PROVE  /\ ResetAgents
           /\ \/ Stop /\ FinishesAtOnce /\ ~ stop_requested
              \/ stop_requested
              \/ delivered >= numpkts
<1>1. CASE Stop
  BY <1>1 DEF Stop, pairVars
<1>2. CASE recv_exit_at_source
  BY <1>2, ExitEnds DEF recv_exit_at_source, TransferInv, CountsFit
<1>3. CASE recv_ack
  <2>1. /\ ResetAgents /\ AllAcked(Head(ackNet).count)
        /\ ackNet # <<>> /\ Head(ackNet).fid = fid
    BY <1>3 DEF recv_ack, pairVars
  <2>2. Head(ackNet).count \in Nat /\ Head(ackNet).count <= num_received
    BY <2>1, AckArrives
  <2>3. delivered = num_received
    BY DEF TransferInv, CountsFit
  <2>4. delivered >= numpkts
    <3>1. Head(ackNet).count >= numpkts
      BY <2>1 DEF AllAcked
    <3> HIDE DEF AllAcked
    <3> QED
      BY <2>2, <2>3, <3>1, HostFacts
  <2> QED
    BY <2>1, <2>4
<1>4. ~ StartTransfer /\ ~ Lose /\ ~ SendFirst /\ ~ syn_retransmit_timeout
  BY DEF StartTransfer, Lose, SendFirst, syn_retransmit_timeout, pairVars
<1>5. ~ data_timeout /\ ~ retrans_timeout /\ ~ ctrl_timeout
  BY DEF data_timeout, retrans_timeout, ctrl_timeout, pairVars
<1>6. ~ recv_ctrl_at_dest /\ ~ recv_data_at_dest /\ ~ recv_spurious_ack /\ ~ recv_synack
  BY DEF recv_ctrl_at_dest, recv_data_at_dest, recv_spurious_ack, recv_synack, pairVars
<1>7. ~ \E r \in Rates : recv_ctrl_at_source(r)
  BY DEF recv_ctrl_at_source, pairVars
<1>8. ~ UNCHANGED vars
  BY DEF vars, pairVars
<1> QED
  BY <1>1, <1>2, <1>3, <1>4, <1>5, <1>6, <1>7, <1>8 DEF Next, RecvAck, RecvCtrlAtSource

\* What the counters and the timers of a transfer come to.
LEMMA TransferFacts ==
    ASSUME HostInv, TransferInv
    PROVE  NeverStuck /\ (stop_requested \/ NoOverrun)
<1>1. NeverStuck
  <2> SUFFICES ASSUME is_active, ~ send_ctrl_fin PROVE NeverStuck
    BY DEF NeverStuck
  <2>1. TimersFit
    BY DEF TransferInv
  <2>2. state = "SYNACK_RECVD" => outstanding + Len(nextctrl) = 1
    BY DEF HostInv, PairFits, ControlFits, Held
  <2>3. state \in State
    BY HostFacts
  <2> QED
    BY <2>1, <2>2, <2>3 DEF State, TimersFit, NeverStuck
<1>2. ASSUME ~ stop_requested PROVE NoOverrun
  <2>1. num_sent <= numpkts /\ num_resent <= num_to_retransmit
    BY DEF HostInv, SourceFits
  <2>2. CASE is_active
    BY <1>2, <2>1, <2>2 DEF TransferInv, CountsFit, NoOverrun
  <2>3. CASE ~ is_active
    <3>1. num_to_retransmit = 0
      BY <2>3 DEF HostInv, PairFits, SourceFits
    <3> QED
      BY <2>1, <3>1, HostFacts DEF NoOverrun
  <2> QED
    BY <2>2, <2>3
<1> QED
  BY <1>1, <1>2
-----------------------------------------------------------------------------
(* Theorems *)

\* Where no transfer is stopped, whatever the length of the connection: as long as
\* one packet at most is lost and no timer is early, reset() is enough, and no
\* packet of a transfer is counted in the next one.
THEOREM TransfersStartFresh == ~ AllowStop => (Spec => []StartsFresh)
<1> SUFFICES ASSUME ~ AllowStop PROVE Spec => []StartsFresh
  OBVIOUS
<1>1. ConnectionInv => StartsFresh
  <2> SUFFICES ASSUME ConnectionInv, is_active, state = "INACT", losses <= 1, spurious = 0
               PROVE  num_received = 0 /\ num_acked = 0 /\ ~ send_ctrl_fin /\ Quiet
    BY DEF StartsFresh, Quiet
  <2>1. Orderly
    BY DEF ConnectionInv, Orderly, FewLosses, Calm
  <2>2. Quiet
    BY DEF ConnectionInv, FewLosses, OrderInv, ActiveOrder
  <2> QED
    BY <2>1, <2>2, NothingYet
<1> QED
  BY <1>1, ConnectionInvHolds, PTL

\* Where it starts clean, a transfer that is not stopped sends and retransmits no
\* more than its size, however many packets are lost and timers are early: the
\* unsigned difference of retrans_timeout does not wrap around.
THEOREM StopOrNoOverrun == CleanStarts => (Spec => [](stop_requested \/ NoOverrun))
<1> SUFFICES ASSUME CleanStarts PROVE Spec => [](stop_requested \/ NoOverrun)
  OBVIOUS
<1>1. ConnectionInv => stop_requested \/ NoOverrun
  BY AlwaysCalm, TransferFacts
<1> QED
  BY <1>1, ConnectionInvHolds, PTL

\* Where transfers are not stopped either, this is all there is to it.
THEOREM NeverOverruns == CleanStarts /\ ~ AllowStop => (Spec => []NoOverrun)
<1> SUFFICES ASSUME CleanStarts, ~ AllowStop PROVE Spec => []NoOverrun
  OBVIOUS
<1>1. ConnectionInv => ~ stop_requested
  BY DEF ConnectionInv
<1> QED
  BY <1>1, StopOrNoOverrun, ConnectionInvHolds, PTL

\* A source that waits for acknowledgements has a timer that will send again.
THEOREM AlwaysHasTimer == CleanStarts => (Spec => []NeverStuck)
<1> SUFFICES ASSUME CleanStarts PROVE Spec => []NeverStuck
  OBVIOUS
<1>1. ConnectionInv => NeverStuck
  BY AlwaysCalm, TransferFacts
<1> QED
  BY <1>1, ConnectionInvHolds, PTL

\* Where no transfer is stopped and each starts clean, a transfer ends only when
\* the receiver has counted as many packets as it has.
THEOREM DoneIsDelivered == CleanStarts /\ ~ AllowStop => (Spec => DoneMeansDelivered)
<1> SUFFICES ASSUME CleanStarts, ~ AllowStop PROVE Spec => DoneMeansDelivered
  OBVIOUS
<1>1. ConnectionInv /\ [Next]_vars =>
          [is_active /\ ~ is_active' /\ ~ stop_requested => delivered >= numpkts]_vars
  <2> SUFFICES ASSUME ConnectionInv, [Next]_vars, is_active, ~ is_active', ~ stop_requested
               PROVE  delivered >= numpkts
    OBVIOUS
  <2>1. HostInv /\ NetsFit /\ TransferInv
    BY AlwaysCalm
  <2>2. ~ Stop
    BY DEF Stop
  <2> QED
    BY <2>1, <2>2, Ends
<1> QED
  BY <1>1, ConnectionInvHolds, PTL DEF Spec, DoneMeansDelivered
-----------------------------------------------------------------------------
(* Refinement of the abstract connection *)

\* A step that the script does not see.
LEMMA Unseen ==
    ASSUME UNCHANGED <<is_active, fid, numpkts, delivered, stop_requested, FinishesAtOnce>>
    PROVE  UNCHANGED Abstract!vars
BY DEF Arrived, StopWorks, Abstract!vars

\* A transfer that starts.
LEMMA StartRefines ==
    ASSUME StartTransfer
    PROVE  Abstract!Start
<1>1. /\ ~ is_active /\ is_active' /\ fid' = fid + 1 /\ numpkts' \in Sizes
      /\ delivered' = 0 /\ stop_requested' = stop_requested
  BY DEF StartTransfer, finVars
<1>2. Arrived' = 0
  <2>1. numpkts' \in Nat \ {0}
    BY <1>1, SizeAssumption
  <2> QED
    BY <1>1, <2>1 DEF Arrived
<1>3. StopWorks' \in IF AllowStop THEN {"asks", "at once"} ELSE {"never"}
  BY <1>1 DEF StopWorks
<1> QED
  BY <1>1, <1>2, <1>3 DEF Abstract!Start

\* A packet that arrives.
LEMMA ArriveRefines ==
    ASSUME HostInv, recv_data_at_dest
    PROVE  Abstract!Arrive \/ UNCHANGED Abstract!vars
<1>1. /\ UNCHANGED <<is_active, fid, numpkts, stop_requested, limiting>>
      /\ delivered' \in {delivered, delivered + 1}
  BY HostFacts DEF recv_data_at_dest, pairVars, finVars
<1>2. UNCHANGED FinishesAtOnce
  BY <1>1 DEF FinishesAtOnce
<1>3. CASE delivered' = delivered
  BY <1>1, <1>2, <1>3, Unseen
<1>4. CASE delivered' = delivered + 1
  <2>1. UNCHANGED StopWorks
    BY <1>1, <1>2 DEF StopWorks
  <2>2. delivered \in Nat /\ numpkts \in Nat
    BY HostFacts
  <2>3. CASE delivered < numpkts
    <3>1. Arrived < numpkts /\ Arrived' = Arrived + 1
      BY <1>1, <1>4, <2>2, <2>3 DEF Arrived
    <3> QED
      BY <1>1, <2>1, <3>1 DEF Abstract!Arrive
  <2>4. CASE ~ (delivered < numpkts)
    <3>1. Arrived' = Arrived
      BY <1>1, <1>4, <2>2, <2>4 DEF Arrived
    <3> QED
      BY <1>1, <2>1, <3>1 DEF Abstract!vars
  <2> QED
    BY <2>3, <2>4
<1> QED
  BY <1>1, <1>3, <1>4

\* A transfer that ends.
LEMMA EndRefines ==
    ASSUME HostInv, NetsFit, TransferInv, [Next]_vars, is_active, ~ is_active'
    PROVE  Abstract!Stop \/ Abstract!Done
<1>1. /\ ResetAgents
      /\ \/ Stop /\ FinishesAtOnce /\ ~ stop_requested
         \/ stop_requested
         \/ delivered >= numpkts
  BY Ends
<1>2. Abstract!End
  BY <1>1 DEF ResetAgents, Arrived, StopWorks, Abstract!End
<1>3. CASE Stop /\ FinishesAtOnce /\ ~ stop_requested
  BY <1>2, <1>3 DEF Stop, StopWorks, Abstract!Stop
<1>4. CASE stop_requested
  BY <1>2, <1>4 DEF Abstract!Done
<1>5. CASE delivered >= numpkts
  <2>1. Arrived = numpkts
    BY <1>5, HostFacts DEF Arrived
  <2> QED
    BY <1>2, <2>1 DEF Abstract!Done
<1> QED
  BY <1>1, <1>3, <1>4, <1>5

\* A stop that asks for the end: a transfer at the initial rate has not come to it.
LEMMA AskRefines ==
    ASSUME HostInv, TransferInv, Stop, is_active'
    PROVE  Abstract!Stop
<1>1. /\ is_active /\ AllowStop /\ ~ stop_requested /\ stop_requested' = TRUE
      /\ UNCHANGED <<is_active, fid, numpkts, delivered, limiting>>
      /\ ~ (FinishesAtOnce /\ ~ send_ctrl_fin)
  BY DEF Stop, ResetAgents, pairVars, recvVars
<1>2. ~ FinishesAtOnce
  BY <1>1 DEF TransferInv, CountsFit, FinishesAtOnce
<1>3. StopWorks = "asks" /\ UNCHANGED StopWorks /\ UNCHANGED Arrived
  BY <1>1, <1>2 DEF StopWorks, FinishesAtOnce, Arrived
<1> QED
  BY <1>1, <1>3 DEF Abstract!Stop

\* Every step is a step of Transfer, or is not seen by the script.
LEMMA NextRefines ==
    ASSUME HostInv, NetsFit, TransferInv, [Next]_vars
    PROVE  [Abstract!Next]_(Abstract!vars)
<1>1. CASE StartTransfer
  BY <1>1, StartRefines DEF Abstract!Next
<1>2. CASE recv_data_at_dest
  BY <1>2, ArriveRefines DEF Abstract!Next
<1>3. CASE is_active /\ ~ is_active'
  BY <1>3, EndRefines DEF Abstract!Next
<1>4. CASE Stop /\ is_active'
  BY <1>4, AskRefines DEF Abstract!Next
<1>5. CASE Stop /\ ~ is_active'
  BY <1>3, <1>5 DEF Stop
<1>6. CASE recv_exit_at_source
  BY <1>3, <1>6, ExitSends DEF NetsFit, recv_exit_at_source, ResetAgents
<1>7. CASE recv_ack
  <2>1. CASE UNCHANGED <<pairVars, delivered, stop_requested, limiting>>
    BY <2>1, Unseen DEF pairVars, FinishesAtOnce
  <2>2. CASE FinishesAtOnce /\ ResetAgents
    <3>1. is_active /\ ~ is_active'
      BY <2>2 DEF FinishesAtOnce, HostInv, PairFits, ResetAgents
    <3> QED
      BY <1>3, <3>1
  <2> QED
    BY <1>7, <2>1, <2>2 DEF recv_ack, recvVars
<1>8. ASSUME NEW r \in Rates, recv_ctrl_at_source(r)
      PROVE  UNCHANGED Abstract!vars
  <2>1. /\ UNCHANGED <<is_active, fid, numpkts, delivered, stop_requested>>
        /\ limiting' = NewLimiting(r)
    BY <1>8 DEF recv_ctrl_at_source, pairVars, recvVars
  <2>2. UNCHANGED FinishesAtOnce
    BY <2>1 DEF NewLimiting, FinishesAtOnce
  <2> QED
    BY <2>1, <2>2, Unseen
<1>9. CASE \/ Lose \/ SendFirst \/ syn_retransmit_timeout \/ data_timeout \/ retrans_timeout
           \/ ctrl_timeout \/ recv_ctrl_at_dest \/ recv_spurious_ack \/ recv_synack
           \/ UNCHANGED vars
  <2>1. UNCHANGED <<is_active, fid, numpkts, delivered, stop_requested, limiting>>
    BY <1>9 DEF Lose, SendFirst, syn_retransmit_timeout, data_timeout, retrans_timeout,
       ctrl_timeout, recv_ctrl_at_dest, recv_spurious_ack, recv_synack, vars, pairVars,
       finVars, recvVars
  <2> QED
    BY <2>1, Unseen DEF FinishesAtOnce
<1> QED
  BY <1>1, <1>2, <1>4, <1>5, <1>6, <1>7, <1>8, <1>9 DEF Next, RecvAck, RecvCtrlAtSource

\* However many packets of a first transfer are lost, sent twice or late, and wherever
\* it is stopped, the script sees no more than the abstract connection shows it: a
\* transfer that ends by a stop or with all its data.  So it is with every transfer of
\* a connection that loses one packet and stops none.
THEOREM ConnectionIsSafe == CleanStarts => (Spec => ImplementsTransferSafely)
<1> SUFFICES ASSUME CleanStarts PROVE Spec => ImplementsTransferSafely
  OBVIOUS
<1>1. Init => Abstract!Init
  BY DEF Init, Arrived, StopWorks, Abstract!Init
<1>2. ConnectionInv /\ [Next]_vars => [Abstract!Next]_(Abstract!vars)
  BY AlwaysCalm, NextRefines
<1> QED
  BY <1>1, <1>2, ConnectionInvHolds, PTL DEF Spec, Abstract!Spec, ImplementsTransferSafely

\* Clean counters at the start are all that a transfer needs, in any connection and
\* whatever is lost, early or stopped in it.
THEOREM CleanCountersSuffice ==
    Spec /\ []Fresh => /\ ImplementsTransferSafely
                       /\ []NeverStuck
                       /\ [](stop_requested \/ NoOverrun)
<1> DEFINE Inv == HostInv /\ NetsFit /\ TransferInv
<1>1. Init => Inv
  BY InitConnectionInv, InitHostInv DEF Init, NetsFit, Old, TransferInv
<1>2. Inv /\ Fresh /\ [Next]_vars => Inv'
  BY NextHostInv, NextTransferInv
<1>3. Init => Abstract!Init
  BY DEF Init, Arrived, StopWorks, Abstract!Init
<1>4. Inv /\ [Next]_vars => [Abstract!Next]_(Abstract!vars)
  BY NextRefines
<1>5. Inv => NeverStuck /\ (stop_requested \/ NoOverrun)
  BY TransferFacts
<1> HIDE DEF Inv
<1> QED
  BY <1>1, <1>2, <1>3, <1>4, <1>5, PTL DEF Spec, Abstract!Spec, ImplementsTransferSafely
=============================================================================
