------------------------------ MODULE SpercHost ------------------------------
(***************************************************************************)
(* The two agents of an s-PERC connection (SPERCAgent of sperc-host.cc and  *)
(* its base SPERCControlAgent), the Tcl pair that starts, stops and resets  *)
(* them (sperc-pair.tcl) and the network between them.                      *)
(*                                                                         *)
(* A connection carries one transfer after another; the agents keep their  *)
(* state between them, and only reset() clears it.  Data packets carry no   *)
(* payload: the receiver counts them, and acknowledges its count.           *)
(*                                                                         *)
(* Data and acknowledgements may be lost and stay in order (all packets of  *)
(* a connection hash to one path).  Control packets are never lost (a queue *)
(* that drops one ends the simulation) and overtake data (they have the     *)
(* highest priority), so the two networks are separate.  The links appear   *)
(* only as the rate a returning control packet carries: any member of Rates.*)
(*                                                                         *)
(* Transfers have distinct flow ids, as they do once the scripts count them *)
(* (sperc-pair.tcl:152, from 0.2 s on).  The receiver of control packets    *)
(* keeps two flags of its own; an exit packet is echoed as one whatever     *)
(* they are, and they are not modelled.                                     *)
(***************************************************************************)
EXTENDS Integers, Sequences

CONSTANTS
    Sizes,        \* the sizes of transfers, in packets
    Modes,        \* the rate limiting modes sendfile may choose
    Rates,        \* the rates a control packet can bring
    Trickle,      \* the rate of an exit packet, 0.0001 Gb/s
    AllowStop,    \* TRUE: the script may stop a transfer (ct experiments)
    MaxTransfers, \* bound: transfers
    MaxLosses,    \* bound: packets lost
    MaxSpurious,  \* bound: retransmission timers that fire too early
    UINT          \* 2^32: counters are unsigned

Mode   == {"sperc", "init", "init_until"}
State  == {"INACT", "SYNSENT", "SYNACK_RECVD", "RUNNING", "FINSENT", "RETRANSMIT"}
Timer  == {"jitter", "syn", "data", "rto", "ctrl"}

ASSUME SizeAssumption ==
    /\ Sizes \subseteq Nat \ {0}
    /\ UINT \in Nat \ {0}
    /\ \A n \in Sizes : n < UINT
    /\ Modes \subseteq Mode

ASSUME HostRateAssumption ==
    /\ Rates \subseteq Nat \ {0}
    /\ Trickle \in Nat \ {0}

ASSUME BoundAssumption ==
    /\ AllowStop \in BOOLEAN
    /\ MaxTransfers \in Nat
    /\ MaxLosses \in Nat
    /\ MaxSpurious \in Nat

VARIABLES
    \* the pair, and the file size it gave the source
    is_active, fid, numpkts,
    \* the source's data side; rate 0 stands for sperc_data_interval_ -1
    state, limiting, num_sent, num_to_retransmit, num_resent, num_acked, rate,
    timers,
    \* the source's control side; outstanding is packets sent less received
    send_ctrl_fin, stop_requested, ctrl_fin_sent,
    nextctrl, outstanding,
    \* the receiver
    num_received,
    delivered,     \* history: packets of this transfer it has counted
    \* the network
    dataNet, ackNet, ctrlFwd, ctrlRev,
    \* the bounds used up
    losses, spurious

pairVars  == <<is_active, fid, numpkts>>
dataVars  == <<state, num_sent, num_resent, dataNet>>
finVars   == <<send_ctrl_fin, stop_requested, ctrl_fin_sent>>
ctrlVars  == <<nextctrl, outstanding, ctrlFwd, ctrlRev>>
recvVars  == <<num_received, delivered>>
countVars == <<num_to_retransmit, num_acked>>
boundVars == <<losses, spurious>>
vars == <<pairVars, dataVars, finVars, ctrlVars, recvVars, countVars, boundVars,
          limiting, rate, timers, ackNet>>

SignedMinus(a, b) == a - b   \* mutant: the counters are signed

\* Unsigned subtraction.
Minus(a, b) == (a - b) % UINT

KeepRto(ts) == ts \ {"data"}   \* mutant: the retransmission timer runs on

\* The timers that stop_data() leaves of ts.
stop_data(ts) == ts \ {"data", "rto"}

FinishesUnlessSperc == limiting # "sperc"   \* mutant: as if init_until were init

\* stop_data() calls finish() when no control packet was ever sent.
FinishesAtOnce == limiting = "init"
-----------------------------------------------------------------------------
(* The source sends data *)

Send(type) == dataNet' = Append(dataNet, [fid |-> fid, type |-> type])

\* timeout(), called in state st with the timers ts pending: the next packet
\* of the transfer or of the retransmission, and the timer after it.  There is
\* no third case: the data timer runs only in these (TimerHasWork).
timeout(st, ts) ==
    \/ /\ st = "RUNNING"
       /\ num_sent < Minus(numpkts, 1)
       /\ Send("DATA")
       /\ num_sent' = num_sent + 1
       /\ state' = st
       /\ timers' = ts \cup {"data"}
       /\ UNCHANGED num_resent
    \/ /\ st = "RUNNING"
       /\ num_sent >= Minus(numpkts, 1)
       /\ Send("FIN")
       /\ num_sent' = num_sent + 1
       /\ state' = "FINSENT"
       /\ timers' = (ts \ {"data"}) \cup {"rto"}
       /\ UNCHANGED num_resent
    \/ /\ st = "RETRANSMIT"
       /\ num_resent <= Minus(num_to_retransmit, 1)
       /\ Send("DATA")
       /\ num_resent' = num_resent + 1
       /\ state' = st
       /\ timers' = IF num_resent < Minus(num_to_retransmit, 1)
                    THEN ts \cup {"data"}
                    ELSE (ts \ {"data"}) \cup {"rto"}
       /\ UNCHANGED num_sent

start(ts) == timeout("RUNNING", ts)

\* rate_change(): a running source sends now or when the new interval is over.
rate_change(ts) ==
    \/ state = "RUNNING" /\ timeout(state, ts \ {"data"})
    \/ state = "RUNNING" /\ timers' = ts \cup {"data"} /\ UNCHANGED dataVars
    \/ state # "RUNNING" /\ timers' = ts /\ UNCHANGED dataVars

KeepReceiver == UNCHANGED num_received   \* mutant: only the source is reset

ResetReceiver == num_received' = 0

KeepExit == UNCHANGED ctrl_fin_sent   \* mutant: the exit packet counts as sent for good

ResetExit == ctrl_fin_sent' = FALSE

\* finish() and what it runs: Agent/SPERC done, fin_notify of the pair, and
\* reset() of both agents.  reset() leaves the SYN timer as it is.
ResetAgents ==
    /\ is_active' = FALSE
    /\ state' = "INACT"
    /\ limiting' = "sperc"
    /\ num_sent' = 0
    /\ num_to_retransmit' = 0
    /\ num_resent' = 0
    /\ num_acked' = 0
    /\ rate' = 0
    /\ timers' = timers \cap {"syn"}
    /\ send_ctrl_fin' = FALSE
    /\ stop_requested' = FALSE
    /\ ResetExit
    /\ nextctrl' = <<>>
    /\ outstanding' = 0
    /\ ResetReceiver
    /\ UNCHANGED <<fid, numpkts, delivered>>
-----------------------------------------------------------------------------
(* The script *)

\* SPERC_pair start, up to sendfile(): the jitter timer runs.  The mode
\* depends on the size and on the configuration.
StartTransfer ==
    /\ ~ is_active
    /\ fid < MaxTransfers
    /\ is_active' = TRUE
    /\ fid' = fid + 1
    /\ numpkts' \in Sizes
    /\ limiting' \in Modes
    /\ timers' = timers \cup {"jitter"}
    /\ delivered' = 0
    /\ UNCHANGED <<dataVars, finVars, ctrlVars, countVars, boundVars, rate,
                   num_received, ackNet>>

\* The stop command of the source, and its stop_data().
Stop ==
    /\ AllowStop
    /\ is_active
    /\ ~ stop_requested
    /\ IF FinishesAtOnce /\ ~ send_ctrl_fin
       THEN ResetAgents /\ UNCHANGED <<dataNet, ackNet, ctrlFwd, ctrlRev>>
       ELSE /\ stop_requested' = TRUE
            /\ send_ctrl_fin' = TRUE
            /\ timers' = IF send_ctrl_fin THEN timers ELSE stop_data(timers)
            /\ UNCHANGED <<pairVars, dataVars, ctrlVars, recvVars, countVars,
                           limiting, rate, ackNet, ctrl_fin_sent>>
    /\ UNCHANGED boundVars
-----------------------------------------------------------------------------
(* The timers of the source *)

NeverFirstExit == FALSE   \* mutant: the first packet is never an exit packet

\* A transfer stopped while the jitter timer ran ends with its first packet.
FirstExit == send_ctrl_fin /\ ~ ctrl_fin_sent

ForgetSynTimer(ts) == ts   \* mutant: a lost SYN is not sent again

StartSynTimer(ts) == ts \cup {"syn"}

\* send_first_packet: the control packet, and a SYN or the first data packet.
SendFirst ==
    LET ts == timers \ {"jitter"}
    IN  /\ "jitter" \in timers
        /\ IF limiting = "init"
           THEN UNCHANGED <<ctrlVars, ctrl_fin_sent>>
           ELSE /\ ctrlFwd' = Append(ctrlFwd,
                                     [fid |-> fid, exit |-> FirstExit])
                /\ ctrl_fin_sent' = (ctrl_fin_sent \/ send_ctrl_fin)
                /\ outstanding' = outstanding + 1
                /\ nextctrl' = <<>>
                /\ UNCHANGED ctrlRev
        /\ IF limiting = "sperc"
           THEN /\ Send("SYN")
                /\ state' = "SYNSENT"
                /\ timers' = StartSynTimer(ts)
                /\ UNCHANGED <<num_sent, num_resent>>
           ELSE start(ts)
        /\ UNCHANGED <<pairVars, recvVars, countVars, boundVars, limiting, rate, ackNet,
                       send_ctrl_fin, stop_requested>>

\* A timer measures time, so one that waits for an answer may fire while the
\* answer is on its way; the model allows that MaxSpurious times.
WaitsInVain ==
    IF dataNet = <<>> /\ ackNet = <<>>
    THEN UNCHANGED spurious
    ELSE spurious < MaxSpurious /\ spurious' = spurious + 1

\* The exit(1) of syn_retransmit_timeout.
SynTimerAtInitRate ==
    /\ "syn" \in timers
    /\ state \notin {"RUNNING", "SYNACK_RECVD"}
    /\ limiting # "sperc"

syn_retransmit_timeout ==
    /\ "syn" \in timers
    /\ ~ SynTimerAtInitRate
    /\ IF state = "SYNSENT"
       THEN Send("SYN") /\ WaitsInVain /\ UNCHANGED timers
       ELSE timers' = timers \ {"syn"} /\ UNCHANGED <<dataNet, spurious>>
    /\ UNCHANGED <<pairVars, finVars, ctrlVars, recvVars, countVars, limiting, rate, ackNet,
                   state, num_sent, num_resent, losses>>

data_timeout ==
    /\ "data" \in timers
    /\ timeout(state, timers \ {"data"})
    /\ UNCHANGED <<pairVars, finVars, ctrlVars, recvVars, countVars, boundVars,
                   limiting, rate, ackNet>>

AlwaysData(n) == {"data"}   \* mutant: the data timer runs for nothing

RetransmitTimer(n) == IF n > 0 THEN {"data"} ELSE {}

\* retrans_timeout: what the receiver has not counted is sent again.
retrans_timeout ==
    /\ "rto" \in timers
    /\ WaitsInVain
    /\ state' = "RETRANSMIT"
    /\ num_resent' = 0
    /\ num_to_retransmit' = Minus(numpkts, num_acked)
    /\ timers' = (timers \ {"rto"}) \cup RetransmitTimer(num_to_retransmit')
    /\ UNCHANGED <<pairVars, finVars, ctrlVars, recvVars, limiting, rate, ackNet,
                   num_sent, num_acked, dataNet, losses>>

\* ctrl_timeout: the held control packet goes out; the timer is periodic.
ctrl_timeout ==
    /\ "ctrl" \in timers
    /\ nextctrl # <<>>
    /\ ctrlFwd' = ctrlFwd \o nextctrl
    /\ nextctrl' = <<>>
    /\ outstanding' = outstanding + 1
    /\ UNCHANGED <<pairVars, dataVars, finVars, recvVars, countVars, boundVars,
                   limiting, rate, timers, ackNet, ctrlRev>>
-----------------------------------------------------------------------------
(* Control packets arrive *)

\* The destination echoes a control packet at once, an exit packet as one.
recv_ctrl_at_dest ==
    /\ ctrlFwd # <<>>
    /\ ctrlFwd' = Tail(ctrlFwd)
    /\ ctrlRev' = Append(ctrlRev, [fid |-> fid, exit |-> Head(ctrlFwd).exit])
    /\ UNCHANGED <<pairVars, dataVars, finVars, recvVars, countVars, boundVars,
                   limiting, rate, timers, ackNet, nextctrl, outstanding>>

\* The exit(1) of recv_ctrl on a control packet out of turn.
OutOfTurn == ctrlRev # <<>> /\ outstanding # 1

\* update_data_rate: the first new rate ends the initial rate.
NewLimiting(r) ==
    IF r # rate /\ limiting = "init_until" THEN "sperc" ELSE limiting

\* A new rate reschedules a running source and starts a waiting one.
UseRate(r, ts) ==
    \/ r # rate /\ state # "SYNACK_RECVD" /\ rate_change(ts)
    \/ state = "SYNACK_RECVD" /\ NewLimiting(r) = "sperc" /\ r > 0 /\ start(ts)
    \/ /\ r = rate
       /\ ~ (state = "SYNACK_RECVD" /\ NewLimiting(r) = "sperc" /\ r > 0)
       /\ timers' = ts
       /\ UNCHANGED dataVars

NeverExit(e) == e   \* mutant: the end of the transfer is not passed on

\* mutant: the packet is made an exit packet before the transfer has ended
ExitUnasked(e) == e \/ ~ ctrl_fin_sent

\* The packet that follows one with exit bit e is an exit packet if e is, or
\* if the transfer has ended and no exit packet has been prepared yet.
NextExit(e) == e \/ (send_ctrl_fin /\ ~ ctrl_fin_sent)

\* recv_ctrl at the source, the common case: use the rate and hold the next
\* packet until the control timer fires, or send it if that is overdue.
recv_ctrl_at_source(r) ==
    LET e    == Head(ctrlRev).exit
        next == [fid |-> fid, exit |-> NextExit(e)]
    IN  /\ ctrlRev # <<>>
        /\ ~ OutOfTurn
        /\ ~ e
        /\ ctrlRev' = Tail(ctrlRev)
        /\ limiting' = NewLimiting(r)
        /\ rate' = r
        /\ UseRate(r, timers \cup {"ctrl"})
        /\ ctrl_fin_sent' = (ctrl_fin_sent \/ send_ctrl_fin)
        /\ \/ /\ nextctrl' = <<next>>
              /\ outstanding' = outstanding - 1
              /\ UNCHANGED ctrlFwd
           \/ /\ nextctrl' = <<>>
              /\ ctrlFwd' = Append(ctrlFwd, next)
              /\ UNCHANGED outstanding
        /\ UNCHANGED <<pairVars, recvVars, countVars, boundVars, ackNet,
                       send_ctrl_fin, stop_requested>>

\* recv_ctrl at the source, an exit packet returns: the trickle rate is used
\* like any other, which may send one more packet, and stop_ctrl() finishes.
recv_exit_at_source ==
    /\ ctrlRev # <<>>
    /\ ~ OutOfTurn
    /\ Head(ctrlRev).exit
    /\ ctrlRev' = Tail(ctrlRev)
    /\ LET type == IF num_sent < Minus(numpkts, 1) THEN "DATA" ELSE "FIN"
       IN  \/ /\ \/ state = "RUNNING" /\ rate # Trickle
                 \/ state = "SYNACK_RECVD" /\ NewLimiting(Trickle) = "sperc"
              /\ Send(type)
           \/ /\ ~ (state = "SYNACK_RECVD" /\ NewLimiting(Trickle) = "sperc")
              /\ UNCHANGED dataNet
    /\ ResetAgents
    /\ UNCHANGED <<ackNet, ctrlFwd, boundVars>>
-----------------------------------------------------------------------------
(* Data packets and acknowledgements arrive *)

AckType(type) == CASE type = "SYN" -> "SYNACK" [] type = "DATA" -> "ACK" [] OTHER -> "FINACK"

\* The exit(1) of is_spurious: the receiver gets a SYN of another transfer.
SpuriousSyn == dataNet # <<>> /\ Head(dataNet).type = "SYN" /\ Head(dataNet).fid # fid

\* recv_data at the receiver: packets of other transfers are dropped, data
\* packets counted, every packet acknowledged with the count.
recv_data_at_dest ==
    LET p == Head(dataNet)
    IN  /\ dataNet # <<>>
        /\ ~ SpuriousSyn
        /\ dataNet' = Tail(dataNet)
        /\ IF p.fid # fid
           THEN UNCHANGED <<num_received, delivered, ackNet>>
           ELSE /\ num_received' = num_received + (IF p.type = "SYN" THEN 0 ELSE 1)
                /\ delivered' = delivered + (IF p.type = "SYN" THEN 0 ELSE 1)
                /\ ackNet' = Append(ackNet, [fid |-> fid, type |-> AckType(p.type),
                                             count |-> num_received'])
        /\ UNCHANGED <<pairVars, finVars, ctrlVars, countVars, boundVars, limiting, rate,
                       timers, state, num_sent, num_resent>>

\* recv_data at the source, an acknowledgement of another transfer.
recv_spurious_ack ==
    /\ ackNet # <<>>
    /\ Head(ackNet).fid # fid
    /\ ackNet' = Tail(ackNet)
    /\ UNCHANGED <<pairVars, dataVars, finVars, ctrlVars, recvVars, countVars, boundVars,
                   limiting, rate, timers>>

\* A SYNACK: data may start once there is a rate, and no stop.
recv_synack ==
    /\ ackNet # <<>>
    /\ Head(ackNet).fid = fid
    /\ Head(ackNet).type = "SYNACK"
    /\ limiting = "sperc"   \* recv_data exits otherwise
    /\ ackNet' = Tail(ackNet)
    /\ \/ state = "SYNSENT" /\ rate > 0 /\ ~ stop_requested /\ start(timers)
       \/ /\ state = "SYNSENT"
          /\ rate = 0 \/ stop_requested
          /\ state' = "SYNACK_RECVD"
          /\ UNCHANGED <<num_sent, num_resent, dataNet, timers>>
       \/ state # "SYNSENT" /\ UNCHANGED <<dataVars, timers>>
    /\ UNCHANGED <<pairVars, finVars, ctrlVars, recvVars, countVars, boundVars, limiting, rate>>

AllButOneAcked(count) == count + 1 >= numpkts   \* mutant: off by one

AllAcked(count) == count >= numpkts

\* An ACK or FINACK: the receiver's count is the number acknowledged, and when
\* it reaches the file size the source stops its data and ends the transfer.
recv_ack ==
    LET count == Head(ackNet).count
        over  == AllAcked(count) /\ ~ send_ctrl_fin
    IN  /\ ackNet # <<>>
        /\ Head(ackNet).fid = fid
        /\ Head(ackNet).type # "SYNACK"
        /\ ackNet' = Tail(ackNet)
        /\ IF over /\ FinishesAtOnce
           THEN ResetAgents /\ UNCHANGED <<dataNet, ctrlFwd, ctrlRev>>
           ELSE /\ num_acked' = count
                /\ send_ctrl_fin' = (send_ctrl_fin \/ over)
                /\ timers' = IF over THEN stop_data(timers) ELSE timers
                /\ UNCHANGED <<pairVars, dataVars, ctrlVars, recvVars, limiting, rate,
                               num_to_retransmit, stop_requested, ctrl_fin_sent>>
        /\ UNCHANGED boundVars

\* A queue on the path drops a data packet or an acknowledgement.
Lose ==
    /\ losses < MaxLosses
    /\ losses' = losses + 1
    /\ \/ dataNet # <<>> /\ dataNet' = Tail(dataNet) /\ UNCHANGED ackNet
       \/ ackNet # <<>> /\ ackNet' = Tail(ackNet) /\ UNCHANGED dataNet
    /\ UNCHANGED <<pairVars, finVars, ctrlVars, recvVars, countVars, limiting, rate, timers,
                   state, num_sent, num_resent, spurious>>
-----------------------------------------------------------------------------
Init ==
    /\ is_active = FALSE
    /\ fid = 0
    /\ numpkts = 0
    /\ state = "INACT"
    /\ limiting = "sperc"
    /\ num_sent = 0
    /\ num_to_retransmit = 0
    /\ num_resent = 0
    /\ num_acked = 0
    /\ rate = 0
    /\ timers = {}
    /\ send_ctrl_fin = FALSE
    /\ stop_requested = FALSE
    /\ ctrl_fin_sent = FALSE
    /\ nextctrl = <<>>
    /\ outstanding = 0
    /\ num_received = 0
    /\ delivered = 0
    /\ dataNet = <<>>
    /\ ackNet = <<>>
    /\ ctrlFwd = <<>>
    /\ ctrlRev = <<>>
    /\ losses = 0
    /\ spurious = 0

RecvAck == recv_spurious_ack \/ recv_synack \/ recv_ack

RecvCtrlAtSource == recv_exit_at_source \/ \E r \in Rates : recv_ctrl_at_source(r)

Next ==
    \/ StartTransfer \/ Stop \/ Lose
    \/ SendFirst \/ syn_retransmit_timeout \/ data_timeout \/ retrans_timeout \/ ctrl_timeout
    \/ recv_ctrl_at_dest \/ RecvCtrlAtSource
    \/ recv_data_at_dest \/ RecvAck

Spec == Init /\ [][Next]_vars

\* Timers fire and packets that are not lost arrive.  Nothing obliges the
\* script to start or to stop a transfer.
Fairness ==
    /\ WF_vars(SendFirst)
    /\ WF_vars(syn_retransmit_timeout)
    /\ WF_vars(data_timeout)
    /\ WF_vars(retrans_timeout)
    /\ WF_vars(ctrl_timeout)
    /\ WF_vars(recv_ctrl_at_dest)
    /\ WF_vars(RecvCtrlAtSource)
    /\ WF_vars(recv_data_at_dest)
    /\ WF_vars(RecvAck)

FairSpec == Spec /\ Fairness
-----------------------------------------------------------------------------
(* Properties *)

Packet     == [fid : 1 .. MaxTransfers, type : {"SYN", "DATA", "FIN"}]
Ack        == [fid : 1 .. MaxTransfers, type : {"SYNACK", "ACK", "FINACK"}, count : Nat]
CtrlPacket == [fid : 1 .. MaxTransfers, exit : BOOLEAN]

\* Every variable has its type.
TypeOK ==
    /\ is_active \in BOOLEAN
    /\ fid \in 0 .. MaxTransfers
    /\ numpkts \in Sizes \cup {0}
    /\ state \in State
    /\ limiting \in Mode
    /\ num_sent \in 0 .. UINT - 1
    /\ num_to_retransmit \in 0 .. UINT - 1
    /\ num_resent \in 0 .. UINT - 1
    /\ rate \in Nat
    /\ timers \in SUBSET Timer
    /\ send_ctrl_fin \in BOOLEAN
    /\ stop_requested \in BOOLEAN
    /\ ctrl_fin_sent \in BOOLEAN
    /\ nextctrl \in Seq(CtrlPacket)
    /\ outstanding \in Nat
    /\ num_acked \in Nat
    /\ num_received \in Nat
    /\ delivered \in Nat
    /\ dataNet \in Seq(Packet)
    /\ ackNet \in Seq(Ack)
    /\ ctrlFwd \in Seq(CtrlPacket)
    /\ ctrlRev \in Seq(CtrlPacket)
    /\ losses \in 0 .. MaxLosses
    /\ spurious \in 0 .. MaxSpurious

\* There is one control packet per transfer, held or in the network: the count
\* of packets sent and not received agrees with the network, so none ever
\* returns out of turn (recv_ctrl:880), none is overwritten in nextctrlpacket_,
\* and none outlives its transfer (recv_ctrl does not look at the flow id).
ControlInTurn ==
    /\ outstanding = Len(ctrlFwd) + Len(ctrlRev)
    /\ outstanding + Len(nextctrl) <= 1
    /\ ~ is_active \/ limiting = "init" => outstanding + Len(nextctrl) = 0

\* A transfer never sends more than its size, and never retransmits more: the
\* unsigned difference of retrans_timeout does not wrap around.
NoOverrun ==
    /\ num_sent <= numpkts
    /\ num_to_retransmit <= numpkts
    /\ num_resent <= num_to_retransmit

\* A source that waits for acknowledgements has a timer that will send again.
NeverStuck ==
    is_active /\ ~ send_ctrl_fin =>
       CASE state = "INACT"        -> "jitter" \in timers
         [] state = "SYNSENT"      -> "syn" \in timers
         [] state = "SYNACK_RECVD" -> outstanding + Len(nextctrl) = 1
         [] state = "RUNNING"      -> "data" \in timers
         [] OTHER                  -> ({"data", "rto"} \cap timers) # {}

\* The data timer runs only while there is something to send.  When it does not,
\* num_Pkts_to_retransmit_ - 1 of timeout() is 2^32 - 1 and the source would
\* retransmit for ever; retrans_timeout may find everything acknowledged when
\* a stopped transfer has completed all the same.
TimerHasWork ==
    "data" \in timers => \/ state = "RUNNING"
                         \/ state = "RETRANSMIT" /\ num_resent < num_to_retransmit

\* The data of a transfer that was not stopped has all arrived when the pair
\* is told that it is done.
DoneMeansDelivered ==
    [][is_active /\ ~ is_active' /\ ~ stop_requested
          => delivered >= numpkts]_vars

\* A transfer starts with clean counters and an empty network: no packet of the
\* transfer before it outlives that to be counted or acknowledged in this one, and
\* no end of data is noted before the transfer has sent any.  One lost packet is
\* made up for exactly and leaves nothing behind; after a second loss, or a timer
\* that fires early, duplicates may outlive reset() and this is lost
\* (FinMeansAcked).
StartsFresh ==
    is_active /\ state = "INACT" /\ losses <= 1 /\ spurious = 0 =>
       /\ num_received = 0
       /\ num_acked = 0
       /\ send_ctrl_fin => stop_requested
       /\ dataNet = <<>> /\ ackNet = <<>>

\* Every transfer the pair starts comes to its end, in spite of losses.
TransfersFinish == is_active ~> ~ is_active

\* A stopped transfer comes to its end, wherever the stop caught it: before the
\* first packet, while it waits for a rate or a SYNACK, or while it retransmits.
StopFinishes == stop_requested ~> ~ is_active
-----------------------------------------------------------------------------
(* The abstract connection *)

\* The packets that have arrived, less those that only came a second time.
Arrived == IF delivered < numpkts THEN delivered ELSE numpkts

\* A stop ends a transfer at once if it has no control packet.
StopWorks ==
    IF ~ AllowStop \/ ~ is_active THEN "never"
    ELSE IF FinishesAtOnce THEN "at once"
    ELSE "asks"

Abstract == INSTANCE Transfer WITH
    Stops    <- (IF AllowStop THEN {"asks", "at once"} ELSE {"never"}),
    active   <- is_active,
    current  <- fid,
    size     <- numpkts,
    arrived  <- Arrived,
    stops    <- StopWorks,
    stopping <- stop_requested

\* The first transfer of a connection implements the abstract connection: lost
\* packets, early timers, duplicates and the two ways a transfer can end are
\* not seen by the script, and the end comes.  So does every later transfer of the
\* agents that reset() leaves behind, unless duplicates outlive it (StartsFresh).
ImplementsTransfer == Abstract!FairSpec

\* The safety part of ImplementsTransfer.
ImplementsTransferSafely == Abstract!Spec
=============================================================================
