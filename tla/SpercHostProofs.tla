---------------------------- MODULE SpercHostProofs ----------------------------
(***************************************************************************)
(* Proofs about SpercHost.                                                 *)
(*                                                                         *)
(* HostInv is inductive for any number of transfers, stops, losses and     *)
(* early timers.                                                           *)
(***************************************************************************)
EXTENDS SpercHost, FiniteSetTheorems, SequenceTheorems, TLAPS

Held == outstanding + Len(nextctrl)

\* What the source has sent in each state, and which timer runs in which.
SourceFits ==
    /\ "data" \in timers => \/ state = "RUNNING"
                            \/ state = "RETRANSMIT" /\ num_resent < num_to_retransmit
    /\ "rto" \in timers => state \in {"FINSENT", "RETRANSMIT"} /\ "data" \notin timers
    /\ state \in {"INACT", "SYNSENT", "SYNACK_RECVD"} => num_sent = 0
    /\ state = "RUNNING" => num_sent < numpkts
    /\ num_sent <= numpkts
    /\ num_resent <= num_to_retransmit
    /\ state = "INACT" => num_to_retransmit = 0

\* What the pair and the source know of each other.
PairFits ==
    /\ is_active => fid > 0 /\ numpkts > 0
    /\ state # "INACT" => is_active
    /\ ~ is_active => limiting = "sperc" /\ ~ stop_requested
    /\ state \in {"SYNSENT", "SYNACK_RECVD"} => limiting # "init"
    /\ "jitter" \in timers => is_active /\ state = "INACT" /\ Held = 0

\* The control packet of an active transfer exists once it has been sent, and
\* is an exit packet only if the transfer has ended.
ControlFits ==
    /\ ControlInTurn
    /\ is_active /\ state # "INACT" /\ limiting # "init" => Held = 1
    /\ \A i \in 1 .. Len(ctrlFwd) : ctrlFwd[i].exit => send_ctrl_fin
    /\ \A i \in 1 .. Len(ctrlRev) : ctrlRev[i].exit => send_ctrl_fin
    /\ \A i \in 1 .. Len(nextctrl) : nextctrl[i].exit => send_ctrl_fin

HostInv == TypeOK /\ SourceFits /\ PairFits /\ ControlFits

-----------------------------------------------------------------------------
(* Sequences, and unsigned subtraction *)

\* What Append makes of a network.
LEMMA AppendFacts ==
    ASSUME NEW S, NEW s \in Seq(S), NEW e \in S
    PROVE  /\ Append(s, e) \in Seq(S)
           /\ Len(Append(s, e)) = Len(s) + 1
           /\ \A i \in 1 .. Len(s) : Append(s, e)[i] = s[i]
           /\ Append(s, e)[Len(s) + 1] = e
OBVIOUS

\* What is left of a network when its first packet is taken.
LEMMA TailFacts ==
    ASSUME NEW S, NEW s \in Seq(S), s # <<>>
    PROVE  /\ Len(s) > 0
           /\ Head(s) \in S
           /\ Head(s) = s[1]
           /\ Tail(s) \in Seq(S)
           /\ Len(Tail(s)) = Len(s) - 1
           /\ \A i \in 1 .. Len(Tail(s)) : Tail(s)[i] = s[i + 1]
OBVIOUS

\* A sequence of length one.
LEMMA OneFacts ==
    ASSUME NEW S, NEW s \in Seq(S), Len(s) = 1
    PROVE  s = <<s[1]>> /\ s[1] \in S /\ Head(s) = s[1] /\ Tail(s) = <<>>
<1>1. s[1] \in S /\ Head(s) = s[1]
  OBVIOUS
<1>2. s = <<s[1]>>
  <2>1. <<s[1]>> \in Seq(S) /\ Len(<<s[1]>>) = 1 /\ <<s[1]>>[1] = s[1]
    BY <1>1
  <2>2. \A i \in 1 .. Len(s) : s[i] = <<s[1]>>[i]
    BY <2>1
  <2> QED
    BY <2>1, <2>2, SeqEqual
<1>3. Tail(s) = <<>>
  <2>1. s # <<>>
    OBVIOUS
  <2>2. Tail(s) \in Seq(S) /\ Len(Tail(s)) = 0
    BY <2>1, TailFacts
  <2> QED
    BY <2>2, EmptySeq
<1> QED
  BY <1>1, <1>2, <1>3

\* A sequence of length zero.
LEMMA NoneFacts ==
    ASSUME NEW S, NEW s \in Seq(S)
    PROVE  Len(s) \in Nat /\ (s = <<>> <=> Len(s) = 0)
OBVIOUS

\* A difference of counters is a counter.
LEMMA MinusType ==
    ASSUME NEW a \in Int, NEW b \in Int
    PROVE  Minus(a, b) \in 0 .. UINT - 1
BY SizeAssumption DEF Minus

\* It is the exact difference when that is a counter.
LEMMA MinusExact ==
    ASSUME NEW a \in Nat, NEW b \in Nat, b <= a, a < UINT
    PROVE  Minus(a, b) = a - b
BY SizeAssumption DEF Minus

-----------------------------------------------------------------------------
(* The type invariant in three parts, each within reach of one prover *)

NumbersTyped ==
    /\ fid \in 0 .. MaxTransfers
    /\ numpkts \in Sizes \cup {0}
    /\ limiting \in Mode
    /\ num_to_retransmit \in 0 .. UINT - 1
    /\ rate \in Nat
    /\ outstanding \in Nat
    /\ num_acked \in Nat
    /\ num_received \in Nat
    /\ delivered \in Nat
    /\ losses \in 0 .. MaxLosses
    /\ spurious \in 0 .. MaxSpurious

FlagsTyped ==
    /\ is_active \in BOOLEAN
    /\ send_ctrl_fin \in BOOLEAN
    /\ stop_requested \in BOOLEAN
    /\ ctrl_fin_sent \in BOOLEAN

NetsTyped ==
    /\ nextctrl \in Seq(CtrlPacket)
    /\ ackNet \in Seq(Ack)
    /\ ctrlFwd \in Seq(CtrlPacket)
    /\ ctrlRev \in Seq(CtrlPacket)

\* What the data side of the source changes.
SourceTyped ==
    /\ state \in State
    /\ timers \in SUBSET Timer
    /\ num_sent \in 0 .. UINT - 1
    /\ num_resent \in 0 .. UINT - 1
    /\ dataNet \in Seq(Packet)

Parts ==
    /\ NumbersTyped
    /\ FlagsTyped
    /\ NetsTyped
    /\ SourceTyped
    /\ SourceFits
    /\ PairFits
    /\ ControlFits

LEMMA HostInvParts == (HostInv <=> Parts) /\ (HostInv' <=> Parts')
BY Zenon DEF HostInv, Parts, TypeOK, NumbersTyped, FlagsTyped, NetsTyped, SourceTyped

LEMMA InitHostInv == Init => HostInv
<1> SUFFICES ASSUME Init PROVE HostInv
  OBVIOUS
<1>1. NumbersTyped
  BY SizeAssumption, BoundAssumption DEF Init, NumbersTyped, Mode
<1>2. FlagsTyped
  BY DEF Init, FlagsTyped
<1>3. NetsTyped
  BY DEF Init, NetsTyped
<1>4. SourceTyped
  BY SizeAssumption DEF Init, SourceTyped, State
<1>5. SourceFits /\ PairFits
  BY DEF Init, SourceFits, PairFits
<1>6. ControlFits
  BY DEF Init, ControlFits, ControlInTurn, Held
<1> QED
  BY <1>1, <1>2, <1>3, <1>4, <1>5, <1>6, HostInvParts DEF Parts
-----------------------------------------------------------------------------
(* The data side of the source *)

\* The pending timers other than those of the data.
OtherTimers == timers \ {"data", "rto"}

\* timeout() keeps the data side of the source in order, whoever calls it.
LEMMA TimeoutKeeps ==
    ASSUME NEW st \in {"RUNNING", "RETRANSMIT"}, NEW ts \in SUBSET Timer,
           NumbersTyped, SourceTyped, SourceFits, fid > 0,
           "data" \notin ts, "rto" \notin ts,
           st = "RUNNING" => num_sent < numpkts,
           st = "RETRANSMIT" => num_resent < num_to_retransmit,
           timeout(st, ts), UNCHANGED <<fid, numpkts, num_to_retransmit>>
    PROVE  /\ SourceTyped'
           /\ SourceFits'
           /\ state' \in {"RUNNING", "FINSENT", "RETRANSMIT"}
           /\ st = "RUNNING" => state' \in {"RUNNING", "FINSENT"}
           /\ OtherTimers' = ts
           /\ state' = "RUNNING" => "data" \in timers'
           /\ ({"data", "rto"} \cap timers') # {}
<1>3. numpkts < UINT /\ numpkts \in Nat
  BY SizeAssumption DEF NumbersTyped
<1>1. Minus(numpkts, 1) \in Int /\ (numpkts > 0 => Minus(numpkts, 1) = numpkts - 1)
  <2>1. Minus(numpkts, 1) \in 0 .. UINT - 1
    BY <1>3, MinusType
  <2>2. numpkts > 0 => Minus(numpkts, 1) = numpkts - 1
    BY <1>3, MinusExact
  <2> QED
    BY <2>1, <2>2, SizeAssumption
<1>2. /\ Minus(num_to_retransmit, 1) \in Int
      /\ num_to_retransmit > 0 => Minus(num_to_retransmit, 1) = num_to_retransmit - 1
  <2>1. num_to_retransmit \in Nat /\ num_to_retransmit < UINT
    BY SizeAssumption DEF NumbersTyped
  <2>2. Minus(num_to_retransmit, 1) \in 0 .. UINT - 1
    BY <2>1, MinusType
  <2>3. num_to_retransmit > 0 => Minus(num_to_retransmit, 1) = num_to_retransmit - 1
    BY <2>1, MinusExact
  <2> QED
    BY <2>2, <2>3, SizeAssumption
<1>4. ASSUME NEW type \in {"SYN", "DATA", "FIN"}, Send(type)
      PROVE  dataNet' \in Seq(Packet)
  BY <1>4, BoundAssumption, AppendFacts DEF Send, Packet, NumbersTyped, SourceTyped
<1>5. CASE /\ st = "RUNNING"
           /\ num_sent < Minus(numpkts, 1)
           /\ Send("DATA")
           /\ num_sent' = num_sent + 1
           /\ state' = st
           /\ timers' = ts \cup {"data"}
           /\ UNCHANGED num_resent
  <2>1. dataNet' \in Seq(Packet)
    BY <1>4, <1>5
  <2>4. timers' \in SUBSET Timer
    BY <1>5 DEF Timer
  <2>5. /\ state' \in State
        /\ num_sent' \in 0 .. UINT - 1
        /\ num_resent' \in 0 .. UINT - 1
    BY <1>1, <1>3, <1>5, SizeAssumption DEF SourceTyped, NumbersTyped, State
  <2>2. SourceTyped'
    BY <2>1, <2>4, <2>5 DEF SourceTyped
  <2>3. SourceFits'
    BY <1>1, <1>3, <1>5 DEF SourceTyped, SourceFits
  <2> QED
    BY <1>5, <2>2, <2>3 DEF OtherTimers
<1>6. CASE /\ st = "RUNNING"
           /\ num_sent >= Minus(numpkts, 1)
           /\ Send("FIN")
           /\ num_sent' = num_sent + 1
           /\ state' = "FINSENT"
           /\ timers' = (ts \ {"data"}) \cup {"rto"}
           /\ UNCHANGED num_resent
  <2>1. dataNet' \in Seq(Packet)
    BY <1>4, <1>6
  <2>4. timers' \in SUBSET Timer
    BY <1>6 DEF Timer
  <2>5. /\ state' \in State
        /\ num_sent' \in 0 .. UINT - 1
        /\ num_resent' \in 0 .. UINT - 1
    BY <1>1, <1>3, <1>6, SizeAssumption DEF SourceTyped, NumbersTyped, State
  <2>2. SourceTyped'
    BY <2>1, <2>4, <2>5 DEF SourceTyped
  <2>3. SourceFits'
    BY <1>1, <1>3, <1>6 DEF SourceTyped, SourceFits
  <2> QED
    BY <1>6, <2>2, <2>3 DEF OtherTimers
<1>7. CASE /\ st = "RETRANSMIT"
           /\ num_resent <= Minus(num_to_retransmit, 1)
           /\ Send("DATA")
           /\ num_resent' = num_resent + 1
           /\ state' = st
           /\ timers' = IF num_resent < Minus(num_to_retransmit, 1)
                        THEN ts \cup {"data"}
                        ELSE (ts \ {"data"}) \cup {"rto"}
           /\ UNCHANGED num_sent
  <2>1. dataNet' \in Seq(Packet)
    BY <1>4, <1>7
  <2>4. timers' \in SUBSET Timer
    BY <1>7 DEF Timer
  <2>5. /\ state' \in State
        /\ num_sent' \in 0 .. UINT - 1
        /\ num_resent' \in 0 .. UINT - 1
    BY <1>2, <1>7, SizeAssumption DEF SourceTyped, NumbersTyped, State
  <2>2. SourceTyped'
    BY <2>1, <2>4, <2>5 DEF SourceTyped
  <2>3. SourceFits'
    BY <1>2, <1>7 DEF SourceTyped, SourceFits, NumbersTyped
  <2> QED
    BY <1>7, <2>2, <2>3 DEF OtherTimers
<1> QED
  BY <1>5, <1>6, <1>7 DEF timeout

\* A rate either makes the source send a packet or leaves it the timers ts.
SourceMoves(ts) ==
    \/ /\ state \in {"RUNNING", "SYNACK_RECVD"}
       /\ state' \in {"RUNNING", "FINSENT"}
       /\ state' = "RUNNING" => "data" \in timers'
       /\ ({"data", "rto"} \cap timers') # {}
    \/ timers' \in {ts, ts \cup {"data"}} /\ UNCHANGED dataVars

\* start() keeps the data side of a source that has not sent yet in order.
LEMMA StartKeeps ==
    ASSUME NEW ts \in SUBSET Timer, NumbersTyped, SourceTyped, SourceFits,
           fid > 0, numpkts > 0, state \in {"INACT", "SYNSENT", "SYNACK_RECVD"},
           "data" \notin ts, "rto" \notin ts,
           start(ts), UNCHANGED <<fid, numpkts, num_to_retransmit>>
    PROVE  /\ SourceTyped' /\ SourceFits'
           /\ state' \in {"RUNNING", "FINSENT"}
           /\ OtherTimers' = ts
           /\ state' = "RUNNING" => "data" \in timers'
           /\ ({"data", "rto"} \cap timers') # {}
<1>1. num_sent < numpkts
  BY DEF SourceFits
<1> QED
  BY <1>1, TimeoutKeeps DEF start

\* rate_change() keeps the data side of the source in order.
LEMMA RateChangeKeeps ==
    ASSUME NEW ts \in SUBSET Timer, NumbersTyped, SourceTyped, SourceFits, fid > 0,
           "data" \in ts <=> "data" \in timers, "rto" \in ts <=> "rto" \in timers,
           rate_change(ts), UNCHANGED <<fid, numpkts, num_to_retransmit>>
    PROVE  /\ SourceTyped' /\ SourceFits'
           /\ OtherTimers' = ts \ {"data", "rto"}
           /\ SourceMoves(ts)
           /\ state' = "RUNNING" => "data" \in timers'
<1>1. CASE state = "RUNNING" /\ timeout(state, ts \ {"data"})
  <2>1. "rto" \notin ts /\ num_sent < numpkts
    BY <1>1 DEF SourceFits
  <2>2. /\ SourceTyped' /\ SourceFits'
        /\ state' \in {"RUNNING", "FINSENT"}
        /\ OtherTimers' = ts \ {"data"}
        /\ state' = "RUNNING" => "data" \in timers'
        /\ ({"data", "rto"} \cap timers') # {}
    BY <1>1, <2>1, TimeoutKeeps
  <2> QED
    BY <1>1, <2>1, <2>2 DEF SourceMoves
<1>2. CASE state = "RUNNING" /\ timers' = ts \cup {"data"} /\ UNCHANGED dataVars
  <2>1. timers' \in SUBSET Timer
    BY <1>2 DEF Timer
  <2> QED
    BY <1>2, <2>1 DEF SourceTyped, SourceFits, SourceMoves, OtherTimers, dataVars
<1>3. CASE state # "RUNNING" /\ timers' = ts /\ UNCHANGED dataVars
  BY <1>3 DEF SourceTyped, SourceFits, SourceMoves, OtherTimers, dataVars
<1> QED
  BY <1>1, <1>2, <1>3 DEF rate_change

\* update_data_rate() keeps the data side of the source in order.
LEMMA UseRateKeeps ==
    ASSUME NEW r, NumbersTyped, SourceTyped, SourceFits, fid > 0, numpkts > 0,
           UseRate(r, timers \cup {"ctrl"}), UNCHANGED <<fid, numpkts, num_to_retransmit>>
    PROVE  /\ SourceTyped' /\ SourceFits'
           /\ OtherTimers' = OtherTimers \cup {"ctrl"}
           /\ SourceMoves(timers \cup {"ctrl"})
           /\ state' = "RUNNING" /\ timers' # timers \cup {"ctrl"} => "data" \in timers'
<1> DEFINE ts == timers \cup {"ctrl"}
<1>1. /\ ts \in SUBSET Timer
      /\ "data" \in ts <=> "data" \in timers
      /\ "rto" \in ts <=> "rto" \in timers
  BY DEF SourceTyped, Timer
<1>2. CASE r # rate /\ state # "SYNACK_RECVD" /\ rate_change(ts)
  BY <1>1, <1>2, RateChangeKeeps DEF OtherTimers
<1>3. CASE state = "SYNACK_RECVD" /\ NewLimiting(r) = "sperc" /\ r > 0 /\ start(ts)
  <2>1. "data" \notin ts /\ "rto" \notin ts
    BY <1>1, <1>3 DEF SourceFits
  <2>2. /\ SourceTyped' /\ SourceFits'
        /\ state' \in {"RUNNING", "FINSENT"}
        /\ OtherTimers' = ts
        /\ state' = "RUNNING" => "data" \in timers'
        /\ ({"data", "rto"} \cap timers') # {}
    BY <1>1, <1>3, <2>1, StartKeeps
  <2> QED
    BY <1>3, <2>1, <2>2 DEF SourceMoves, OtherTimers
<1>4. CASE timers' = ts /\ UNCHANGED dataVars
  BY <1>1, <1>4 DEF SourceTyped, SourceFits, SourceMoves, OtherTimers, dataVars
<1> QED
  BY <1>2, <1>3, <1>4 DEF UseRate
-----------------------------------------------------------------------------
(* The invariant of any number of transfers *)

\* Of three counts with sum at most one, one at most is not zero.
LEMMA OneOfThree ==
    ASSUME NEW a \in Nat, NEW b \in Nat, NEW c \in Nat, a + b + c <= 1
    PROVE  /\ a # 0 => a = 1 /\ b = 0 /\ c = 0 /\ b + c = 0
           /\ b # 0 => a = 0 /\ b = 1 /\ c = 0 /\ b + c = 1
           /\ c # 0 => a = 0 /\ b = 0 /\ c = 1 /\ b + c = 1
OBVIOUS

\* The control packet is in one place.
LEMMA OneControl ==
    ASSUME NumbersTyped, NetsTyped, ControlFits
    PROVE  /\ nextctrl # <<>> => /\ nextctrl = <<nextctrl[1]>>
                                 /\ nextctrl[1] \in CtrlPacket
                                 /\ nextctrl[1].exit => send_ctrl_fin
                                 /\ outstanding = 0 /\ ctrlFwd = <<>> /\ ctrlRev = <<>>
           /\ ctrlFwd # <<>>  => /\ ctrlFwd = <<Head(ctrlFwd)>>
                                 /\ Head(ctrlFwd) \in CtrlPacket
                                 /\ Head(ctrlFwd).exit => send_ctrl_fin
                                 /\ outstanding = 1 /\ nextctrl = <<>> /\ ctrlRev = <<>>
           /\ ctrlRev # <<>>  => /\ ctrlRev = <<Head(ctrlRev)>> /\ Tail(ctrlRev) = <<>>
                                 /\ Head(ctrlRev) \in CtrlPacket
                                 /\ Head(ctrlRev).exit => send_ctrl_fin
                                 /\ outstanding = 1 /\ nextctrl = <<>> /\ ctrlFwd = <<>>
           /\ Held = 1 => is_active /\ limiting # "init"
<1>1. /\ Len(nextctrl) \in Nat /\ Len(ctrlFwd) \in Nat /\ Len(ctrlRev) \in Nat
      /\ nextctrl = <<>> <=> Len(nextctrl) = 0
      /\ ctrlFwd = <<>> <=> Len(ctrlFwd) = 0
      /\ ctrlRev = <<>> <=> Len(ctrlRev) = 0
  BY NoneFacts, Zenon DEF NetsTyped
<1>2. /\ Len(nextctrl) + Len(ctrlFwd) + Len(ctrlRev) <= 1
      /\ outstanding = Len(ctrlFwd) + Len(ctrlRev)
  BY <1>1 DEF NumbersTyped, ControlFits, ControlInTurn
<1>3. ASSUME nextctrl # <<>>
      PROVE  /\ nextctrl = <<nextctrl[1]>> /\ nextctrl[1] \in CtrlPacket
             /\ nextctrl[1].exit => send_ctrl_fin
             /\ outstanding = 0 /\ ctrlFwd = <<>> /\ ctrlRev = <<>>
  <2>1. Len(nextctrl) = 1 /\ Len(ctrlFwd) = 0 /\ Len(ctrlRev) = 0 /\ outstanding = 0
    <3>1. Len(nextctrl) # 0
      BY <1>1, <1>3, Zenon
    <3>2. Len(nextctrl) \in Nat /\ Len(ctrlFwd) \in Nat /\ Len(ctrlRev) \in Nat
      BY <1>1
    <3> QED
      BY <1>2, <3>1, <3>2, OneOfThree
  <2>2. nextctrl = <<nextctrl[1]>> /\ nextctrl[1] \in CtrlPacket
    BY <2>1, OneFacts, Zenon DEF NetsTyped
  <2>3. nextctrl[1].exit => send_ctrl_fin
    BY <2>1 DEF ControlFits
  <2> QED
    BY <1>1, <2>1, <2>2, <2>3, Zenon
<1>4. ASSUME ctrlFwd # <<>>
      PROVE  /\ ctrlFwd = <<Head(ctrlFwd)>> /\ Head(ctrlFwd) \in CtrlPacket
             /\ Head(ctrlFwd).exit => send_ctrl_fin
             /\ outstanding = 1 /\ nextctrl = <<>> /\ ctrlRev = <<>>
  <2>1. Len(nextctrl) = 0 /\ Len(ctrlFwd) = 1 /\ Len(ctrlRev) = 0 /\ outstanding = 1
    <3>1. Len(ctrlFwd) # 0
      BY <1>1, <1>4, Zenon
    <3>2. Len(nextctrl) \in Nat /\ Len(ctrlFwd) \in Nat /\ Len(ctrlRev) \in Nat
      BY <1>1
    <3> QED
      BY <1>2, <3>1, <3>2, OneOfThree
  <2>2. /\ ctrlFwd = <<ctrlFwd[1]>> /\ ctrlFwd[1] \in CtrlPacket
        /\ Head(ctrlFwd) = ctrlFwd[1]
    BY <2>1, OneFacts, Zenon DEF NetsTyped
  <2>3. ctrlFwd[1].exit => send_ctrl_fin
    BY <2>1 DEF ControlFits
  <2> QED
    BY <1>1, <2>1, <2>2, <2>3, Zenon
<1>5. ASSUME ctrlRev # <<>>
      PROVE  /\ ctrlRev = <<Head(ctrlRev)>> /\ Tail(ctrlRev) = <<>>
             /\ Head(ctrlRev) \in CtrlPacket
             /\ Head(ctrlRev).exit => send_ctrl_fin
             /\ outstanding = 1 /\ nextctrl = <<>> /\ ctrlFwd = <<>>
  <2>1. Len(nextctrl) = 0 /\ Len(ctrlFwd) = 0 /\ Len(ctrlRev) = 1 /\ outstanding = 1
    <3>1. Len(ctrlRev) # 0
      BY <1>1, <1>5, Zenon
    <3>2. Len(nextctrl) \in Nat /\ Len(ctrlFwd) \in Nat /\ Len(ctrlRev) \in Nat
      BY <1>1
    <3> QED
      BY <1>2, <3>1, <3>2, OneOfThree
  <2>2. /\ ctrlRev = <<ctrlRev[1]>> /\ ctrlRev[1] \in CtrlPacket
        /\ Head(ctrlRev) = ctrlRev[1] /\ Tail(ctrlRev) = <<>>
    BY <2>1, OneFacts, Zenon DEF NetsTyped
  <2>3. ctrlRev[1].exit => send_ctrl_fin
    BY <2>1 DEF ControlFits
  <2> QED
    BY <1>1, <2>1, <2>2, <2>3, Zenon
<1>6. Held = 1 => is_active /\ limiting # "init"
  BY <1>1 DEF Held, ControlFits, ControlInTurn
<1> QED
  BY <1>3, <1>4, <1>5, <1>6, Zenon

\* One control packet p in one of its three places keeps the control side in order.
LEMMA ControlMoves ==
    ASSUME NEW p \in CtrlPacket, p.exit => send_ctrl_fin',
           \/ /\ nextctrl' = <<p>> /\ ctrlFwd' = <<>> /\ ctrlRev' = <<>>
              /\ outstanding' = 0
           \/ /\ nextctrl' = <<>> /\ ctrlFwd' = <<p>> /\ ctrlRev' = <<>>
              /\ outstanding' = 1
           \/ /\ nextctrl' = <<>> /\ ctrlFwd' = <<>> /\ ctrlRev' = <<p>>
              /\ outstanding' = 1,
           is_active', limiting' # "init"
    PROVE  ControlFits' /\ outstanding' \in Nat
           /\ nextctrl' \in Seq(CtrlPacket) /\ ctrlFwd' \in Seq(CtrlPacket)
           /\ ctrlRev' \in Seq(CtrlPacket)
<1> USE DEF ControlFits, ControlInTurn, Held
<1>1. CASE /\ nextctrl' = <<p>> /\ ctrlFwd' = <<>> /\ ctrlRev' = <<>> /\ outstanding' = 0
  BY <1>1
<1>2. CASE /\ nextctrl' = <<>> /\ ctrlFwd' = <<p>> /\ ctrlRev' = <<>> /\ outstanding' = 1
  BY <1>2
<1>3. CASE /\ nextctrl' = <<>> /\ ctrlFwd' = <<>> /\ ctrlRev' = <<p>> /\ outstanding' = 1
  BY <1>3
<1> QED
  BY <1>1, <1>2, <1>3

\* finish() and reset() clear the agents.
LEMMA ResetKeeps ==
    ASSUME Parts, ResetAgents
    PROVE  /\ SourceFits' /\ PairFits' /\ FlagsTyped'
           /\ state' \in State /\ timers' \in SUBSET Timer
           /\ num_sent' \in 0 .. UINT - 1 /\ num_resent' \in 0 .. UINT - 1
           /\ num_to_retransmit' \in 0 .. UINT - 1
           /\ fid' \in 0 .. MaxTransfers /\ numpkts' \in Sizes \cup {0}
           /\ limiting' \in Mode /\ rate' \in Nat /\ outstanding' \in Nat
           /\ num_acked' \in Nat /\ num_received' \in Nat /\ delivered' \in Nat
           /\ nextctrl' \in Seq(CtrlPacket)
<1> USE DEF Parts
<1>1. SourceFits'
  <2>1. numpkts >= 0
    BY SizeAssumption DEF NumbersTyped
  <2>2. timers' = timers \cap {"syn"} /\ state' = "INACT" /\ UNCHANGED numpkts
    BY DEF ResetAgents
  <2>3. num_sent' = 0 /\ num_resent' = 0 /\ num_to_retransmit' = 0
    BY DEF ResetAgents
  <2> QED
    BY <2>1, <2>2, <2>3 DEF SourceFits
<1>2. PairFits'
  BY DEF ResetAgents, PairFits
<1>3. FlagsTyped'
  BY DEF ResetAgents, ResetExit, FlagsTyped
<1>4. state' \in State /\ limiting' \in Mode
  BY DEF ResetAgents, State, Mode
<1>5. timers' \in SUBSET Timer
  BY DEF ResetAgents, SourceTyped
<1>6. /\ num_sent' \in 0 .. UINT - 1 /\ num_resent' \in 0 .. UINT - 1
      /\ num_to_retransmit' \in 0 .. UINT - 1
      /\ rate' \in Nat /\ outstanding' \in Nat
      /\ num_acked' \in Nat /\ num_received' \in Nat /\ delivered' \in Nat
  BY SizeAssumption DEF ResetAgents, ResetReceiver, NumbersTyped
<1>7. fid' \in 0 .. MaxTransfers /\ numpkts' \in Sizes \cup {0}
  BY DEF ResetAgents, NumbersTyped
<1>8. nextctrl' \in Seq(CtrlPacket)
  BY DEF ResetAgents
<1> QED
  BY <1>1, <1>2, <1>3, <1>4, <1>5, <1>6, <1>7, <1>8

LEMMA NextHostInv == HostInv /\ [Next]_vars => HostInv'
<1> SUFFICES ASSUME Parts, [Next]_vars PROVE Parts'
  BY HostInvParts
<1> USE DEF Parts, pairVars, dataVars, finVars, ctrlVars, recvVars, countVars,
                      boundVars
<1>1. CASE StartTransfer
  <2>1. NumbersTyped'
    BY <1>1, SizeAssumption, BoundAssumption DEF StartTransfer, NumbersTyped
  <2>2. FlagsTyped' /\ NetsTyped'
    BY <1>1 DEF StartTransfer, FlagsTyped, NetsTyped
  <2>3. SourceTyped'
    BY <1>1 DEF StartTransfer, SourceTyped, Timer
  <2>4. state = "INACT" /\ numpkts' > 0 /\ numpkts' \in Nat
    BY <1>1, SizeAssumption DEF StartTransfer, PairFits
  <2>5. SourceFits'
    BY <1>1, <2>4 DEF StartTransfer, SourceFits
  <2>6. PairFits'
    BY <1>1, <2>4 DEF StartTransfer, PairFits, NumbersTyped, ControlFits, ControlInTurn, Held
  <2>7. ControlFits'
    BY <1>1, <2>4 DEF StartTransfer, ControlFits, ControlInTurn, Held
  <2> QED
    BY <2>1, <2>2, <2>3, <2>5, <2>6, <2>7
<1>2. CASE Stop
  <2>1. CASE FinishesAtOnce /\ ~ send_ctrl_fin
    <3>1. ResetAgents /\ UNCHANGED <<dataNet, ackNet, ctrlFwd, ctrlRev, losses, spurious>>
      BY <1>2, <2>1 DEF Stop
    <3>2. outstanding = 0
      BY <2>1 DEF FinishesAtOnce, ControlFits, ControlInTurn, NumbersTyped, NetsTyped
    <3>3. NumbersTyped' /\ FlagsTyped' /\ NetsTyped' /\ SourceTyped' /\ SourceFits' /\ PairFits'
      BY <3>1, <3>2, ResetKeeps DEF NumbersTyped, NetsTyped, SourceTyped
    <3>4. ControlFits'
      BY <3>1, <3>2 DEF ResetAgents, ControlFits, ControlInTurn, Held, NetsTyped
    <3> QED
      BY <3>3, <3>4
  <2>2. CASE ~ (FinishesAtOnce /\ ~ send_ctrl_fin)
    <3>1. /\ stop_requested' = TRUE
          /\ send_ctrl_fin' = TRUE
          /\ timers' = IF send_ctrl_fin THEN timers ELSE stop_data(timers)
          /\ UNCHANGED <<pairVars, dataVars, ctrlVars, recvVars, countVars, boundVars,
                         limiting, rate, ackNet, ctrl_fin_sent>>
      BY <1>2, <2>2 DEF Stop
    <3>2. NumbersTyped' /\ NetsTyped'
      BY <3>1 DEF NumbersTyped, NetsTyped
    <3>3. FlagsTyped'
      BY <3>1 DEF FlagsTyped
    <3>4. SourceTyped' /\ SourceFits'
      BY <3>1 DEF SourceTyped, SourceFits, stop_data
    <3>5. PairFits'
      BY <1>2, <3>1 DEF PairFits, Stop, stop_data, Held
    <3>6. ControlFits'
      BY <3>1 DEF ControlFits, ControlInTurn, Held
    <3> QED
      BY <3>2, <3>3, <3>4, <3>5, <3>6
  <2> QED
    BY <2>1, <2>2
<1>3. CASE Lose
  <2>1. dataNet' \in Seq(Packet) /\ ackNet' \in Seq(Ack)
    BY <1>3, TailFacts DEF Lose, NetsTyped, SourceTyped
  <2>2. NumbersTyped'
    BY <1>3, BoundAssumption DEF Lose, NumbersTyped
  <2>3. FlagsTyped'
    BY <1>3 DEF Lose, FlagsTyped
  <2>4. NetsTyped' /\ SourceTyped'
    BY <1>3, <2>1 DEF Lose, NetsTyped, SourceTyped
  <2>5. SourceFits' /\ PairFits'
    BY <1>3 DEF Lose, SourceFits, PairFits, Held
  <2>6. ControlFits'
    BY <1>3 DEF Lose, ControlFits, ControlInTurn, Held
  <2> QED
    BY <2>2, <2>3, <2>4, <2>5, <2>6
<1>4. CASE SendFirst
  <2> DEFINE ts == timers \ {"jitter"}
  <2>1. /\ is_active /\ state = "INACT" /\ outstanding = 0 /\ nextctrl = <<>>
        /\ fid > 0 /\ numpkts > 0 /\ fid \in 1 .. MaxTransfers
    BY <1>4 DEF SendFirst, PairFits, Held, NumbersTyped, NetsTyped
  <2>2. /\ ts \in SUBSET Timer /\ "data" \notin ts /\ "rto" \notin ts /\ "jitter" \notin ts
    BY <2>1 DEF SourceTyped, SourceFits
  <2>3. FlagsTyped'
    BY <1>4 DEF SendFirst, FlagsTyped
  <2>4. NumbersTyped'
    BY <1>4 DEF SendFirst, NumbersTyped
  <2>5. ctrlFwd = <<>> /\ ctrlRev = <<>>
    BY <2>1 DEF ControlFits, ControlInTurn, NetsTyped
  <2>6. /\ limiting # "init" =>
              /\ ctrlFwd' = <<[fid |-> fid, exit |-> FirstExit]>>
              /\ outstanding' = 1
        /\ limiting = "init" => ctrlFwd' = ctrlFwd /\ outstanding' = outstanding
        /\ nextctrl' = <<>> /\ ctrlRev' = ctrlRev
        /\ UNCHANGED <<is_active, limiting, send_ctrl_fin, stop_requested>>
    BY <1>4, <2>1, <2>5 DEF SendFirst
  <2>7. [fid |-> fid, exit |-> FirstExit] \in CtrlPacket
    BY <2>1 DEF CtrlPacket, FirstExit, FlagsTyped
  <2>8. NetsTyped'
    BY <1>4, <2>6, <2>7 DEF NetsTyped, SendFirst
  <2>9. ControlFits'
    <3>1. Len(ctrlFwd') = outstanding' /\ Len(ctrlRev') = 0 /\ Len(nextctrl') = 0
      BY <2>1, <2>5, <2>6
    <3>2. /\ outstanding' \in Nat /\ outstanding' <= 1
          /\ limiting = "init" => outstanding' = 0
          /\ limiting # "init" => outstanding' = 1
      BY <2>1, <2>6
    <3>3. \A i \in 1 .. Len(ctrlFwd') : ctrlFwd'[i].exit => send_ctrl_fin'
      <4>1. CASE limiting = "init"
        BY <2>5, <2>6, <4>1
      <4>2. CASE limiting # "init"
        <5> DEFINE p == [fid |-> fid, exit |-> FirstExit]
        <5>2. ctrlFwd' = <<p>>
          BY <2>6, <4>2
        <5>3. Len(ctrlFwd') = 1 /\ ctrlFwd'[1] = p
          BY <5>2
        <5>4. p.exit = FirstExit
          OBVIOUS
        <5>1. \A i \in 1 .. Len(ctrlFwd') : ctrlFwd'[i].exit = FirstExit
          BY <5>3, <5>4
        <5> QED
          BY <2>6, <5>1 DEF FirstExit
      <4> QED
        BY <4>1, <4>2
    <3>4. ControlInTurn' /\ Held' = outstanding'
      <4>1. PICK m \in {0, 1} : outstanding' = m /\ (limiting = "init" => m = 0)
        BY <3>2
      <4> QED
        BY <2>1, <2>6, <3>1, <4>1 DEF ControlInTurn, Held
    <3>6. ctrlRev' = <<>> /\ nextctrl' = <<>>
      BY <2>5, <2>6
    <3>7. /\ \A i \in 1 .. Len(ctrlRev') : ctrlRev'[i].exit => send_ctrl_fin'
          /\ \A i \in 1 .. Len(nextctrl') : nextctrl'[i].exit => send_ctrl_fin'
      BY <3>6
    <3>8. limiting' # "init" => Held' = 1
      BY <2>6, <3>2, <3>4
    <3> QED
      BY <2>1, <3>3, <3>4, <3>7, <3>8 DEF ControlFits
  <2>10. CASE limiting = "sperc"
    <3>1. /\ Send("SYN")
          /\ state' = "SYNSENT"
          /\ timers' = ts \cup {"syn"}
          /\ UNCHANGED <<num_sent, num_resent, fid, numpkts, num_to_retransmit>>
      BY <1>4, <2>10 DEF SendFirst, StartSynTimer
    <3>2. dataNet' \in Seq(Packet)
      BY <2>1, <3>1, AppendFacts DEF Send, Packet, SourceTyped
    <3>3. timers' \in SUBSET Timer
      BY <2>2, <3>1 DEF Timer
    <3>4. SourceTyped'
      BY <3>1, <3>2, <3>3 DEF SourceTyped, State
    <3>5. SourceFits' /\ PairFits'
      BY <2>1, <2>2, <2>6, <2>10, <3>1 DEF SourceFits, PairFits
    <3> QED
      BY <2>3, <2>4, <2>8, <2>9, <3>4, <3>5
  <2>11. CASE limiting # "sperc"
    <3>1. start(ts) /\ UNCHANGED <<fid, numpkts, num_to_retransmit>>
      BY <1>4, <2>11 DEF SendFirst
    <3>2. /\ SourceTyped' /\ SourceFits'
          /\ state' \in {"RUNNING", "FINSENT"}
          /\ OtherTimers' = ts
      BY <2>1, <2>2, <3>1, StartKeeps
    <3>3. PairFits'
      BY <2>1, <2>2, <2>6, <3>1, <3>2 DEF PairFits, OtherTimers
    <3> QED
      BY <2>3, <2>4, <2>8, <2>9, <3>2, <3>3
  <2> QED
    BY <2>10, <2>11
<1>5. CASE syn_retransmit_timeout
  <2>1. NumbersTyped'
    BY <1>5, BoundAssumption DEF syn_retransmit_timeout, WaitsInVain, NumbersTyped
  <2>2. FlagsTyped' /\ NetsTyped'
    BY <1>5 DEF syn_retransmit_timeout, FlagsTyped, NetsTyped
  <2>3. dataNet' \in Seq(Packet)
    <3>1. CASE state = "SYNSENT"
      <4>1. fid \in 1 .. MaxTransfers
        BY <3>1 DEF PairFits, NumbersTyped
      <4>2. [fid |-> fid, type |-> "SYN"] \in Packet
        BY <4>1 DEF Packet
      <4>3. dataNet' = Append(dataNet, [fid |-> fid, type |-> "SYN"])
        BY <1>5, <3>1 DEF syn_retransmit_timeout, Send
      <4> QED
        BY <4>2, <4>3, AppendFacts DEF SourceTyped
    <3>2. CASE state # "SYNSENT"
      BY <1>5, <3>2 DEF syn_retransmit_timeout, SourceTyped
    <3> QED
      BY <3>1, <3>2
  <2>4. SourceTyped'
    BY <1>5, <2>3 DEF syn_retransmit_timeout, SourceTyped
  <2>5. SourceFits' /\ PairFits'
    BY <1>5 DEF syn_retransmit_timeout, SourceFits, PairFits, Held
  <2>6. ControlFits'
    BY <1>5 DEF syn_retransmit_timeout, ControlFits, ControlInTurn, Held
  <2> QED
    BY <2>1, <2>2, <2>4, <2>5, <2>6
<1>6. CASE data_timeout
  <2> DEFINE ts == timers \ {"data"}
  <2>1. /\ ts \in SUBSET Timer /\ "data" \notin ts /\ "rto" \notin ts
        /\ state \in {"RUNNING", "RETRANSMIT"}
        /\ state = "RUNNING" => num_sent < numpkts
        /\ state = "RETRANSMIT" => num_resent < num_to_retransmit
        /\ timeout(state, ts) /\ UNCHANGED <<fid, numpkts, num_to_retransmit>>
    BY <1>6 DEF data_timeout, SourceTyped, SourceFits
  <2>2. fid > 0 /\ is_active
    BY <2>1 DEF PairFits
  <2>3. /\ SourceTyped' /\ SourceFits'
        /\ state' \in {"RUNNING", "FINSENT", "RETRANSMIT"}
        /\ OtherTimers' = ts
    BY <2>1, <2>2, TimeoutKeeps
  <2>4. NumbersTyped' /\ FlagsTyped' /\ NetsTyped'
    BY <1>6 DEF data_timeout, NumbersTyped, FlagsTyped, NetsTyped
  <2>5. "jitter" \notin timers'
    BY <2>1, <2>3 DEF PairFits, OtherTimers
  <2>6. PairFits'
    BY <1>6, <2>1, <2>2, <2>3, <2>5 DEF data_timeout, PairFits
  <2>7. ControlFits'
    BY <1>6, <2>1, <2>3 DEF data_timeout, ControlFits, ControlInTurn, Held
  <2> QED
    BY <2>3, <2>4, <2>6, <2>7
<1>7. CASE retrans_timeout
  <2>1. num_to_retransmit' \in 0 .. UINT - 1 /\ num_to_retransmit' >= 0
    <3>1. numpkts \in Int /\ num_acked \in Int
      BY SizeAssumption DEF NumbersTyped
    <3>2. num_to_retransmit' \in 0 .. UINT - 1
      BY <1>7, <3>1, MinusType DEF retrans_timeout
    <3> QED
      BY <3>2, SizeAssumption
  <2>2. state \in {"FINSENT", "RETRANSMIT"} /\ "data" \notin timers /\ "jitter" \notin timers
    BY <1>7 DEF retrans_timeout, SourceFits, PairFits
  <2>3. NumbersTyped'
    BY <1>7, <2>1, BoundAssumption DEF retrans_timeout, WaitsInVain, NumbersTyped
  <2>4. FlagsTyped' /\ NetsTyped'
    BY <1>7 DEF retrans_timeout, FlagsTyped, NetsTyped
  <2>5. timers' \in SUBSET Timer
    BY <1>7 DEF retrans_timeout, RetransmitTimer, SourceTyped, Timer
  <2>6. SourceTyped'
    BY <1>7, <2>5, SizeAssumption DEF retrans_timeout, SourceTyped, State
  <2>7. /\ num_to_retransmit' > 0 => timers' = (timers \ {"rto"}) \cup {"data"}
        /\ ~ (num_to_retransmit' > 0) => timers' = timers \ {"rto"}
    BY <1>7 DEF retrans_timeout, RetransmitTimer
  <2>8. SourceFits'
    BY <1>7, <2>1, <2>2, <2>7 DEF retrans_timeout, SourceFits
  <2>9. PairFits'
    BY <1>7, <2>2, <2>7 DEF retrans_timeout, PairFits
  <2>10. ControlFits'
    BY <1>7, <2>2 DEF retrans_timeout, ControlFits, ControlInTurn, Held
  <2> QED
    BY <2>3, <2>4, <2>6, <2>8, <2>9, <2>10
<1>8. CASE ctrl_timeout
  <2>1. /\ nextctrl = <<nextctrl[1]>> /\ nextctrl[1] \in CtrlPacket
        /\ nextctrl[1].exit => send_ctrl_fin
        /\ outstanding = 0 /\ ctrlFwd = <<>> /\ ctrlRev = <<>>
        /\ is_active /\ limiting # "init"
    BY <1>8, OneControl DEF ctrl_timeout, Held
  <2>2. /\ nextctrl' = <<>> /\ ctrlFwd' = <<nextctrl[1]>> /\ ctrlRev' = <<>>
        /\ outstanding' = 1 /\ is_active' /\ limiting' # "init"
        /\ send_ctrl_fin' = send_ctrl_fin
    BY <1>8, <2>1 DEF ctrl_timeout
  <2>3. ControlFits' /\ NetsTyped' /\ outstanding' \in Nat
    BY <1>8, <2>1, <2>2, ControlMoves DEF ctrl_timeout, NetsTyped
  <2>4. NumbersTyped' /\ FlagsTyped' /\ SourceTyped' /\ SourceFits'
    BY <1>8, <2>3 DEF ctrl_timeout, NumbersTyped, FlagsTyped, SourceTyped, SourceFits
  <2>5. "jitter" \notin timers
    BY <2>1 DEF PairFits, Held
  <2>6. PairFits'
    BY <1>8, <2>5 DEF ctrl_timeout, PairFits
  <2> QED
    BY <2>3, <2>4, <2>6
<1>9. CASE recv_ctrl_at_dest
  <2> DEFINE p == Head(ctrlFwd)
             q == [fid |-> fid, exit |-> p.exit]
  <2>1. /\ ctrlFwd = <<p>> /\ p \in CtrlPacket /\ (p.exit => send_ctrl_fin)
        /\ outstanding = 1 /\ nextctrl = <<>> /\ ctrlRev = <<>>
        /\ is_active /\ limiting # "init"
    BY <1>9, OneControl DEF recv_ctrl_at_dest, Held
  <2>2. q \in CtrlPacket /\ (q.exit => send_ctrl_fin)
    <3>1. fid \in 1 .. MaxTransfers
      BY <2>1 DEF PairFits, NumbersTyped
    <3>2. p.exit \in BOOLEAN
      BY <2>1 DEF CtrlPacket
    <3>3. q.exit = p.exit
      OBVIOUS
    <3>4. q \in CtrlPacket
      BY <3>1, <3>2, Zenon DEF CtrlPacket
    <3> QED
      BY <2>1, <3>3, <3>4, Zenon
  <2>3. /\ nextctrl' = <<>> /\ ctrlFwd' = <<>> /\ ctrlRev' = <<q>>
        /\ outstanding' = 1 /\ is_active' /\ limiting' # "init"
        /\ send_ctrl_fin' = send_ctrl_fin
    BY <1>9, <2>1 DEF recv_ctrl_at_dest
  <2>4. ControlFits' /\ NetsTyped' /\ outstanding' \in Nat
    <3>1. /\ ControlFits' /\ outstanding' \in Nat /\ nextctrl' \in Seq(CtrlPacket)
          /\ ctrlFwd' \in Seq(CtrlPacket) /\ ctrlRev' \in Seq(CtrlPacket)
      BY <2>2, <2>3, ControlMoves, Zenon
    <3> QED
      BY <1>9, <3>1 DEF recv_ctrl_at_dest, NetsTyped
  <2>5. NumbersTyped' /\ FlagsTyped' /\ SourceTyped' /\ SourceFits'
    BY <1>9, <2>4 DEF recv_ctrl_at_dest, NumbersTyped, FlagsTyped, SourceTyped, SourceFits
  <2>6. "jitter" \notin timers
    BY <2>1 DEF PairFits, Held
  <2>7. PairFits'
    BY <1>9, <2>6 DEF recv_ctrl_at_dest, PairFits
  <2> QED
    BY <2>4, <2>5, <2>7
<1>10. ASSUME NEW r \in Rates, recv_ctrl_at_source(r)
       PROVE  Parts'
  <2> DEFINE e == Head(ctrlRev).exit
             next == [fid |-> fid, exit |-> NextExit(e)]
  <2>1. /\ ctrlRev = <<Head(ctrlRev)>> /\ e \in BOOLEAN
        /\ outstanding = 1 /\ nextctrl = <<>> /\ ctrlFwd = <<>>
        /\ is_active /\ limiting # "init"
    BY <1>10, OneControl DEF recv_ctrl_at_source, Held, CtrlPacket
  <2>2. ~ e /\ UNCHANGED <<is_active, send_ctrl_fin, fid, numpkts, num_to_retransmit>>
    BY <1>10 DEF recv_ctrl_at_source
  <2>3. next \in CtrlPacket /\ (next.exit => send_ctrl_fin')
    <3>1. NextExit(e) \in BOOLEAN /\ (NextExit(e) => send_ctrl_fin)
      BY <2>1, <2>2, Zenon DEF NextExit
    <3>3. next.exit = NextExit(e)
      OBVIOUS
    <3>2. fid \in 1 .. MaxTransfers
      BY <2>1 DEF PairFits, NumbersTyped
    <3> QED
      BY <2>2, <3>1, <3>2, <3>3, Zenon DEF CtrlPacket
  <2>4. limiting' # "init" /\ limiting' \in Mode /\ limiting' = NewLimiting(r)
    BY <1>10, <2>1 DEF recv_ctrl_at_source, NewLimiting, NumbersTyped, Mode
  <2>5. \/ /\ nextctrl' = <<next>> /\ ctrlFwd' = <<>> /\ ctrlRev' = <<>> /\ outstanding' = 0
        \/ /\ nextctrl' = <<>> /\ ctrlFwd' = <<next>> /\ ctrlRev' = <<>> /\ outstanding' = 1
    <3>1. ctrlRev' = <<>>
      <4>1. ctrlRev' = Tail(ctrlRev) /\ ctrlRev # <<>>
        BY <1>10 DEF recv_ctrl_at_source
      <4>2. Tail(ctrlRev) = <<>>
        BY <4>1, OneControl
      <4> QED
        BY <4>1, <4>2
    <3>2. CASE nextctrl' = <<next>> /\ outstanding' = outstanding - 1 /\ UNCHANGED ctrlFwd
      BY <2>1, <3>1, <3>2
    <3>3. CASE nextctrl' = <<>> /\ ctrlFwd' = Append(ctrlFwd, next) /\ UNCHANGED outstanding
      BY <2>1, <3>1, <3>3
    <3> QED
      BY <1>10, <3>2, <3>3 DEF recv_ctrl_at_source
  <2>6. ControlFits' /\ NetsTyped' /\ outstanding' \in Nat
    BY <1>10, <2>1, <2>2, <2>3, <2>4, <2>5, ControlMoves DEF recv_ctrl_at_source, NetsTyped
  <2>7. /\ SourceTyped' /\ SourceFits'
        /\ OtherTimers' = OtherTimers \cup {"ctrl"}
        /\ SourceMoves(timers \cup {"ctrl"})
    <3>1. UseRate(r, timers \cup {"ctrl"}) /\ fid > 0 /\ numpkts > 0
      BY <1>10, <2>1 DEF recv_ctrl_at_source, PairFits
    <3> QED
      BY <2>2, <3>1, UseRateKeeps
  <2>8. NumbersTyped'
    BY <1>10, <2>4, <2>6, HostRateAssumption DEF recv_ctrl_at_source, NumbersTyped
  <2>9. FlagsTyped'
    BY <1>10 DEF recv_ctrl_at_source, FlagsTyped
  <2>10. "jitter" \notin timers'
    BY <2>1, <2>7 DEF PairFits, Held, OtherTimers
  <2>11. state' \in {"SYNSENT", "SYNACK_RECVD"} => state' = state
    BY <2>7 DEF SourceMoves
  <2>12. PairFits'
    BY <1>10, <2>1, <2>2, <2>4, <2>10, <2>11 DEF recv_ctrl_at_source, PairFits
  <2> QED
    BY <2>6, <2>7, <2>8, <2>9, <2>12
<1>11. CASE recv_exit_at_source
  <2>1. /\ ctrlRev' = <<>> /\ ctrlFwd' = <<>>
        /\ fid \in 1 .. MaxTransfers
    <3>1. ctrlRev # <<>> /\ ctrlRev' = Tail(ctrlRev) /\ ctrlFwd' = ctrlFwd
      BY <1>11 DEF recv_exit_at_source
    <3>2. Tail(ctrlRev) = <<>> /\ ctrlFwd = <<>> /\ is_active
      BY <3>1, OneControl DEF Held
    <3> QED
      BY <3>1, <3>2 DEF PairFits, NumbersTyped
  <2>2. dataNet' \in Seq(Packet)
    <3>1. CASE UNCHANGED dataNet
      BY <3>1 DEF SourceTyped
    <3>2. ASSUME NEW type \in {"DATA", "FIN"}, Send(type)
          PROVE  dataNet' \in Seq(Packet)
      <4>1. [fid |-> fid, type |-> type] \in Packet
        BY <2>1 DEF Packet
      <4> QED
        BY <3>2, <4>1, AppendFacts DEF Send, SourceTyped
    <3>3. \/ UNCHANGED dataNet
          \/ Send(IF num_sent < Minus(numpkts, 1) THEN "DATA" ELSE "FIN")
      BY <1>11 DEF recv_exit_at_source
    <3> QED
      BY <3>1, <3>2, <3>3
  <2>3. ResetAgents /\ UNCHANGED <<ackNet, losses, spurious>>
    BY <1>11 DEF recv_exit_at_source
  <2>4. /\ FlagsTyped' /\ SourceFits' /\ PairFits'
        /\ NumbersTyped' /\ NetsTyped' /\ SourceTyped'
    BY <2>1, <2>2, <2>3, ResetKeeps DEF NumbersTyped, NetsTyped, SourceTyped
  <2>5. ControlFits'
    BY <2>1, <2>3 DEF ResetAgents, ControlFits, ControlInTurn, Held
  <2> QED
    BY <2>4, <2>5
<1>12. CASE recv_data_at_dest
  <2> DEFINE p == Head(dataNet)
  <2>1. p \in Packet /\ dataNet' \in Seq(Packet)
    BY <1>12, TailFacts DEF recv_data_at_dest, SourceTyped
  <2>2. num_received' \in Nat /\ delivered' \in Nat
    BY <1>12 DEF recv_data_at_dest, NumbersTyped
  <2>3. ackNet' \in Seq(Ack)
    <3>1. CASE p.fid # fid
      BY <1>12, <3>1 DEF recv_data_at_dest, NetsTyped
    <3>2. CASE p.fid = fid
      <4> DEFINE a == [fid |-> fid, type |-> AckType(p.type), count |-> num_received']
      <4>1. ackNet' = Append(ackNet, a)
        BY <1>12, <3>2 DEF recv_data_at_dest
      <4>2. fid \in 1 .. MaxTransfers /\ p.type \in {"SYN", "DATA", "FIN"}
        BY <2>1, <3>2 DEF Packet
      <4>3. AckType(p.type) \in {"SYNACK", "ACK", "FINACK"}
        BY <4>2 DEF AckType
      <4>4. a \in Ack
        BY <2>2, <4>2, <4>3 DEF Ack
      <4> HIDE DEF a
      <4> QED
        BY <4>1, <4>4, AppendFacts DEF NetsTyped
    <3> QED
      BY <3>1, <3>2
  <2>4. NumbersTyped' /\ FlagsTyped'
    BY <1>12, <2>2 DEF recv_data_at_dest, NumbersTyped, FlagsTyped
  <2>5. NetsTyped' /\ SourceTyped'
    BY <1>12, <2>1, <2>3 DEF recv_data_at_dest, NetsTyped, SourceTyped
  <2>6. SourceFits' /\ PairFits' /\ ControlFits'
    BY <1>12 DEF recv_data_at_dest, SourceFits, PairFits, ControlFits, ControlInTurn, Held
  <2> QED
    BY <2>4, <2>5, <2>6
<1>13. CASE recv_spurious_ack
  <2>1. ackNet' \in Seq(Ack)
    BY <1>13, TailFacts DEF recv_spurious_ack, NetsTyped
  <2>2. NumbersTyped' /\ FlagsTyped' /\ NetsTyped' /\ SourceTyped'
    BY <1>13, <2>1 DEF recv_spurious_ack, NumbersTyped, FlagsTyped, NetsTyped, SourceTyped
  <2>3. SourceFits' /\ PairFits' /\ ControlFits'
    BY <1>13 DEF recv_spurious_ack, SourceFits, PairFits, ControlFits, ControlInTurn, Held
  <2> QED
    BY <2>2, <2>3
<1>14. CASE recv_synack
  <2>1. ackNet' \in Seq(Ack)
    BY <1>14, TailFacts DEF recv_synack, NetsTyped
  <2>2. NumbersTyped' /\ FlagsTyped' /\ NetsTyped'
    BY <1>14, <2>1 DEF recv_synack, NumbersTyped, FlagsTyped, NetsTyped
  <2>3. CASE state = "SYNSENT" /\ start(timers)
    <3>1. /\ timers \in SUBSET Timer /\ "data" \notin timers /\ "rto" \notin timers
          /\ fid > 0 /\ numpkts > 0 /\ is_active /\ limiting # "init" /\ "jitter" \notin timers
      BY <2>3 DEF SourceTyped, SourceFits, PairFits
    <3>2. UNCHANGED <<fid, numpkts, num_to_retransmit, is_active, limiting, stop_requested>>
      BY <1>14 DEF recv_synack
    <3>3. /\ SourceTyped' /\ SourceFits'
          /\ state' \in {"RUNNING", "FINSENT"}
          /\ OtherTimers' = timers
      BY <2>3, <3>1, <3>2, StartKeeps
    <3>4. PairFits'
      BY <3>1, <3>2, <3>3 DEF PairFits, OtherTimers
    <3>5. ControlFits'
      BY <1>14, <2>3, <3>1 DEF recv_synack, ControlFits, ControlInTurn, Held
    <3> QED
      BY <2>2, <3>3, <3>4, <3>5
  <2>4. CASE /\ state = "SYNSENT" /\ state' = "SYNACK_RECVD"
             /\ UNCHANGED <<num_sent, num_resent, dataNet, timers>>
    <3>1. SourceTyped' /\ SourceFits'
      BY <1>14, <2>4 DEF recv_synack, SourceTyped, SourceFits, State
    <3>2. PairFits' /\ ControlFits'
      BY <1>14, <2>4 DEF recv_synack, PairFits, ControlFits, ControlInTurn, Held
    <3> QED
      BY <2>2, <3>1, <3>2
  <2>5. CASE UNCHANGED <<dataVars, timers>>
    <3>1. SourceTyped' /\ SourceFits'
      BY <1>14, <2>5 DEF recv_synack, SourceTyped, SourceFits
    <3>2. PairFits' /\ ControlFits'
      BY <1>14, <2>5 DEF recv_synack, PairFits, ControlFits, ControlInTurn, Held
    <3> QED
      BY <2>2, <3>1, <3>2
  <2> QED
    BY <1>14, <2>3, <2>4, <2>5 DEF recv_synack
<1>15. CASE recv_ack
  <2> DEFINE count == Head(ackNet).count
             over  == AllAcked(count) /\ ~ send_ctrl_fin
  <2>1. ackNet' \in Seq(Ack) /\ count \in Nat
    <3>1. ackNet # <<>> /\ ackNet' = Tail(ackNet) /\ ackNet \in Seq(Ack)
      BY <1>15 DEF recv_ack, NetsTyped
    <3>2. Head(ackNet) \in Ack /\ Tail(ackNet) \in Seq(Ack)
      BY <3>1, TailFacts
    <3> QED
      BY <3>1, <3>2 DEF Ack
  <2>2. CASE over /\ FinishesAtOnce
    <3>1. ResetAgents /\ UNCHANGED <<dataNet, ctrlFwd, ctrlRev, losses, spurious>>
      BY <1>15, <2>2 DEF recv_ack
    <3>2. outstanding = 0
      BY <2>2 DEF FinishesAtOnce, ControlFits, ControlInTurn, NumbersTyped, NetsTyped
    <3>3. /\ FlagsTyped' /\ SourceFits' /\ PairFits'
          /\ NumbersTyped' /\ NetsTyped' /\ SourceTyped'
      BY <2>1, <3>1, <3>2, ResetKeeps DEF NumbersTyped, NetsTyped, SourceTyped
    <3>4. ControlFits'
      BY <3>1, <3>2 DEF ResetAgents, ControlFits, ControlInTurn, Held, NetsTyped
    <3> QED
      BY <3>3, <3>4
  <2>3. CASE ~ (over /\ FinishesAtOnce)
    <3>1. /\ num_acked' = count
          /\ send_ctrl_fin' = (send_ctrl_fin \/ over)
          /\ timers' = IF over THEN stop_data(timers) ELSE timers
          /\ UNCHANGED <<pairVars, dataVars, ctrlVars, recvVars, limiting, rate, boundVars,
                         num_to_retransmit, stop_requested, ctrl_fin_sent>>
      BY <1>15, <2>3 DEF recv_ack
    <3>2. NumbersTyped' /\ NetsTyped'
      BY <2>1, <3>1 DEF NumbersTyped, NetsTyped
    <3>3. FlagsTyped'
      BY <3>1, Zenon DEF FlagsTyped, AllAcked
    <3>4. SourceTyped' /\ SourceFits'
      BY <3>1 DEF SourceTyped, SourceFits, stop_data
    <3>5. PairFits'
      BY <3>1 DEF PairFits, stop_data, Held
    <3>6. ControlFits'
      BY <3>1 DEF ControlFits, ControlInTurn, Held
    <3> QED
      BY <3>2, <3>3, <3>4, <3>5, <3>6
  <2> QED
    BY <2>2, <2>3
<1>16. CASE UNCHANGED vars
  <2>1. NumbersTyped' /\ FlagsTyped' /\ NetsTyped' /\ SourceTyped'
    BY <1>16 DEF vars, NumbersTyped, FlagsTyped, NetsTyped, SourceTyped
  <2>2. SourceFits' /\ PairFits' /\ ControlFits'
    BY <1>16 DEF vars, SourceFits, PairFits, ControlFits, ControlInTurn, Held
  <2> QED
    BY <2>1, <2>2
<1> QED
  BY <1>1, <1>2, <1>3, <1>4, <1>5, <1>6, <1>7, <1>8, <1>9, <1>10, <1>11, <1>12, <1>13,
     <1>14, <1>15, <1>16 DEF Next, RecvAck, RecvCtrlAtSource

LEMMA HostInvHolds == Spec => []HostInv
BY InitHostInv, NextHostInv, PTL DEF Spec

\* Every variable of the two agents, the script and the network keeps its type:
\* the unsigned counters of the source never leave their range.
THEOREM HostTypeCorrect == Spec => []TypeOK
<1>1. HostInv => TypeOK
  BY DEF HostInv
<1> QED
  BY <1>1, HostInvHolds, PTL

\* However many transfers use the pair and wherever they are stopped, each has
\* at most one control packet: recv_ctrl never exits on one out of turn.
THEOREM ControlAlwaysInTurn == Spec => []ControlInTurn
<1>1. HostInv => ControlInTurn
  BY DEF HostInv, ControlFits
<1> QED
  BY <1>1, HostInvHolds, PTL

\* The data timer never runs on nothing to send: timeout() never takes 1 from 0.
THEOREM TimerAlwaysHasWork == Spec => []TimerHasWork
<1>1. HostInv => TimerHasWork
  BY DEF HostInv, SourceFits, TimerHasWork
<1> QED
  BY <1>1, HostInvHolds, PTL
=============================================================================
