-------------------------------- MODULE RcpHost --------------------------------
(***************************************************************************)
(* The two agents of an RCP connection (RCPAgent of rcp-host.cc), the Tcl   *)
(* pair that starts, stops and resets them (rcp-pair.tcl) and the network   *)
(* between them.                                                           *)
(*                                                                         *)
(* The pair resets both agents when a transfer is done.  Data packets carry *)
(* no payload: the receiver counts them, retransmitted ones too, and sends  *)
(* its count back.  The rate of a router appears only as the choice of a    *)
(* source that learns a new one to send at once or later.                   *)
(*                                                                         *)
(* Packets may be lost and stay in order: all packets of a connection take  *)
(* one path, and no packet overtakes another.  Flow ids are distinct, as    *)
(* those of transfers after 0.2 s are (rcp-pair.tcl:141).                   *)
(***************************************************************************)
EXTENDS Integers, Sequences

CONSTANTS
    Sizes,         \* the sizes of transfers, in packets
    SynTries,      \* the source gives up after that many SYNs, 10
    StopWhen,      \* when the script may stop a transfer (ct experiments)
    MaxTransfers,  \* bound: transfers
    MaxLosses,     \* bound: packets lost
    MaxEarlySyn,   \* bound: SYN timers that fire while packets are under way
    MaxEarlyRto,   \* bound: retransmission timers that do
    MaxProbes      \* bound: extra rate probes of a transfer

ASSUME RcpAssumption ==
    /\ Sizes \subseteq Nat \ {0}
    /\ SynTries \in Nat \ {0}
    /\ StopWhen \in {"never", "clean", "always"}
    /\ {MaxTransfers, MaxLosses, MaxEarlySyn, MaxEarlyRto, MaxProbes} \subseteq Nat

VARIABLES
    \* the pair
    is_active, fid, numpkts,
    \* the source
    state, num_sent, num_to_retransmit, num_resent, num_acked,
    ref_seqno,     \* SYNs sent
    timers,        \* those pending, of "data" (rcp_timer_), "ref" and "rto"
    \* the receiver
    running, num_received,
    delivered,     \* history: packets of this transfer it has counted
    \* the network: to the receiver, to the source
    fwd, back,
    \* the bounds used up
    losses, earlySyn, earlyRto, probes

pairVars  == <<is_active, fid, numpkts>>
sendVars  == <<state, num_sent, num_resent, timers, fwd>>
countVars == <<num_to_retransmit, num_acked, ref_seqno>>
recvVars  == <<running, num_received, delivered>>
boundVars == <<losses, earlySyn, earlyRto, probes>>
vars == <<pairVars, sendVars, countVars, recvVars, back, boundVars>>
-----------------------------------------------------------------------------
(* The source sends *)

Send(type) == fwd' = Append(fwd, [fid |-> fid, type |-> type])

SentAndForgotten(ts) == ts \ {"data", "ref"}   \* mutant: no timer after the last packet

\* The timers after the last packet of a transfer or of a retransmission.
AllSent(ts) == (ts \ {"data", "ref"}) \cup {"rto"}

\* timeout(), called with the timers ts pending: the next packet of the
\* transfer or of the retransmission, and the timer after it.
timeout(st, ts) ==
    \/ /\ st = "RUNNING" /\ num_sent < numpkts - 1
       /\ Send("DATA")
       /\ num_sent' = num_sent + 1
       /\ state' = st
       /\ timers' = ts \cup {"data"}
       /\ UNCHANGED num_resent
    \/ /\ st = "RUNNING" /\ num_sent >= numpkts - 1
       /\ Send("FIN")
       /\ num_sent' = num_sent + 1
       /\ state' = "FINSENT"
       /\ timers' = AllSent(ts)
       /\ UNCHANGED num_resent
    \/ /\ st = "RETRANSMIT" /\ num_resent <= num_to_retransmit - 1
       /\ Send("DATA")
       /\ num_resent' = num_resent + 1
       /\ state' = st
       /\ timers' = IF num_resent < num_to_retransmit - 1 THEN ts \cup {"data"} ELSE AllSent(ts)
       /\ UNCHANGED num_sent

KeepSynTimer == timeout("RUNNING", timers)   \* mutant: the SYN timer runs on

\* start(), on a SYNACK.
start == timeout("RUNNING", timers \ {"ref"})

\* A packet brings a rate: a running source sends at once or when the new
\* interval is over (rate_change), or the rate is the old one.
rate_change ==
    \/ state = "RUNNING" /\ timeout(state, timers \ {"data"})
    \/ state = "RUNNING" /\ timers' = timers \cup {"data"}
                         /\ UNCHANGED <<state, num_sent, num_resent, fwd>>
    \/ UNCHANGED sendVars
-----------------------------------------------------------------------------
(* The pair *)

\* start of the pair and sendfile(): a SYN, and the timer that repeats it.
StartTransfer ==
    /\ ~ is_active
    /\ fid < MaxTransfers
    /\ \E n \in Sizes : numpkts' = n
    /\ is_active' = TRUE
    /\ fid' = fid + 1
    /\ state' = "SYNSENT"
    /\ fwd' = Append(fwd, [fid |-> fid + 1, type |-> "SYN"])
    /\ ref_seqno' = ref_seqno + 1
    /\ timers' = timers \cup {"ref"}
    /\ delivered' = 0
    /\ probes' = 0
    /\ UNCHANGED <<num_sent, num_resent, num_to_retransmit, num_acked, running,
                   num_received, back, losses, earlySyn, earlyRto>>

KeepReceiver == UNCHANGED <<running, num_received>>   \* mutant: only the source is reset

ResetReceiver == running' = FALSE /\ num_received' = 0

\* stop(): timers are cancelled, and finish() tells the pair, which resets both
\* agents (fin_notify).
stop ==
    /\ is_active' = FALSE
    /\ state' = "INACT"
    /\ num_sent' = 0 /\ num_resent' = 0 /\ num_to_retransmit' = 0 /\ num_acked' = 0
    /\ ref_seqno' = 0
    /\ timers' = {}
    /\ ResetReceiver
    /\ UNCHANGED <<fid, numpkts, delivered, fwd>>

\* The script stops a transfer (ct_stop).  The stop is clean unless a SYN that
\* was sent too early may still be under way, with data behind it: the SYN wakes
\* the receiver up after its reset, and that counts the data for the next
\* transfer.
Stop ==
    /\ StopWhen = "always" \/ (StopWhen = "clean" /\ earlySyn = 0)
    /\ is_active
    /\ stop
    /\ UNCHANGED <<back, boundVars>>
-----------------------------------------------------------------------------
(* The source's timers *)

\* A timer fires when no packet is under way, or too early.
FiresEarly(used, max) ==
    IF fwd = <<>> /\ back = <<>> THEN UNCHANGED used ELSE used < max /\ used' = used + 1

OneTryLess(n) == n < SynTries - 1   \* mutant: gives up on the last try but one

\* The source goes on to wait for an answer to its n-th SYN.
TriesAgain(n) == n < SynTries

\* ref_timeout(): another SYN, and another timer unless SynTries were sent.
RefTimeout ==
    /\ "ref" \in timers /\ state = "SYNSENT"
    /\ FiresEarly(earlySyn, MaxEarlySyn)
    /\ Send("SYN")
    /\ ref_seqno' = ref_seqno + 1
    /\ timers' = IF TriesAgain(ref_seqno') THEN timers ELSE timers \ {"ref"}
    /\ UNCHANGED <<pairVars, state, num_sent, num_resent, num_to_retransmit, num_acked,
                   recvVars, back, losses, earlyRto, probes>>

DataTimeout ==
    /\ "data" \in timers
    /\ timeout(state, timers \ {"data"})
    /\ UNCHANGED <<pairVars, countVars, recvVars, back, boundVars>>

\* retrans_timeout(): what is not acknowledged is sent again.
RtoTimeout ==
    /\ "rto" \in timers
    /\ FiresEarly(earlyRto, MaxEarlyRto)
    /\ state' = "RETRANSMIT"
    /\ num_resent' = 0
    /\ num_to_retransmit' = numpkts - num_acked
    /\ timers' = (timers \ {"rto"}) \cup (IF num_to_retransmit' > 0 THEN {"data"} ELSE {})
    /\ UNCHANGED <<pairVars, num_sent, num_acked, ref_seqno, recvVars, fwd, back, losses,
                   earlySyn, probes>>

\* rate_probe_timeout(), when nothing was sent for a while.
Probe ==
    /\ state # "INACT"
    /\ probes < MaxProbes
    /\ probes' = probes + 1
    /\ Send("REF")
    /\ UNCHANGED <<pairVars, state, num_sent, num_resent, timers, countVars, recvVars, back,
                   losses, earlySyn, earlyRto>>
-----------------------------------------------------------------------------
(* recv() of the receiver *)

Reply(type, count) ==
    back' = Append(back, [fid |-> Head(fwd).fid, type |-> type, count |-> count])

\* recv() takes any SYN, and packets of its flow unless inactive.
Listens == Head(fwd).type = "SYN" \/ (running /\ Head(fwd).fid = fid)

recv_data(type, ack) ==
    /\ Head(fwd).type = type
    /\ num_received' = num_received + 1
    /\ delivered' = delivered + 1
    /\ Reply(ack, num_received')
    /\ UNCHANGED running

recv_syn ==
    /\ Head(fwd).type = "SYN"
    /\ running' = TRUE
    /\ Reply("SYNACK", num_received)
    /\ UNCHANGED <<num_received, delivered>>

recv_ref ==
    /\ Head(fwd).type = "REF"
    /\ Reply("REFACK", 0)
    /\ UNCHANGED recvVars

\* The receiver's agent gets the next packet.
RecvFwd ==
    /\ fwd # <<>>
    /\ fwd' = Tail(fwd)
    /\ IF Listens
       THEN recv_syn \/ recv_data("DATA", "ACK") \/ recv_data("FIN", "FINACK") \/ recv_ref
       ELSE UNCHANGED <<recvVars, back>>
    /\ UNCHANGED <<pairVars, state, num_sent, num_resent, timers, countVars, boundVars>>
-----------------------------------------------------------------------------
(* recv() of the source *)

recv_synack ==
    /\ Head(back).type = "SYNACK"
    /\ IF state = "SYNSENT" THEN start ELSE UNCHANGED sendVars
    /\ UNCHANGED <<pairVars, countVars, recvVars>>

AckedExactly(count) == count = numpkts   \* mutant: as for FINACK

\* The receiver has counted all packets, or more when some were sent twice.
AllAcked(count) == count >= numpkts

\* A count of all packets ends the transfer; the rate that the ACK brings is of
\* no use any more.
recv_ack ==
    /\ Head(back).type = "ACK"
    /\ IF AllAcked(Head(back).count)
       THEN stop
       ELSE /\ num_acked' = Head(back).count
            /\ rate_change
            /\ UNCHANGED <<pairVars, num_to_retransmit, ref_seqno, recvVars>>

FinMeansAll(count) == TRUE   \* mutant: the count of a FINACK is not looked at

\* The last packet came, and all others did.
FinAcked(count) == count = numpkts

recv_finack ==
    /\ Head(back).type = "FINACK"
    /\ IF FinAcked(Head(back).count)
       THEN stop
       ELSE /\ num_acked' = Head(back).count
            /\ UNCHANGED <<pairVars, sendVars, num_to_retransmit, ref_seqno, recvVars>>

recv_refack ==
    /\ Head(back).type = "REFACK"
    /\ rate_change
    /\ UNCHANGED <<pairVars, countVars, recvVars>>

\* The source's agent gets the next packet; it ignores those of other flows,
\* and all when it is inactive.
RecvBack ==
    /\ back # <<>>
    /\ back' = Tail(back)
    /\ IF state # "INACT" /\ Head(back).fid = fid
       THEN recv_synack \/ recv_ack \/ recv_finack \/ recv_refack
       ELSE UNCHANGED <<pairVars, sendVars, countVars, recvVars>>
    /\ UNCHANGED boundVars
-----------------------------------------------------------------------------
\* The network loses a packet.
Lose ==
    /\ losses < MaxLosses
    /\ losses' = losses + 1
    /\ \/ fwd # <<>> /\ fwd' = Tail(fwd) /\ UNCHANGED back
       \/ back # <<>> /\ back' = Tail(back) /\ UNCHANGED fwd
    /\ UNCHANGED <<pairVars, state, num_sent, num_resent, timers, countVars, recvVars,
                   earlySyn, earlyRto, probes>>

Init ==
    /\ is_active = FALSE /\ fid = 0 /\ numpkts = 0
    /\ state = "INACT" /\ num_sent = 0 /\ num_to_retransmit = 0 /\ num_resent = 0
    /\ num_acked = 0 /\ ref_seqno = 0 /\ timers = {}
    /\ running = FALSE /\ num_received = 0 /\ delivered = 0
    /\ fwd = <<>> /\ back = <<>>
    /\ losses = 0 /\ earlySyn = 0 /\ earlyRto = 0 /\ probes = 0

Next ==
    \/ StartTransfer \/ Stop \/ Lose
    \/ RefTimeout \/ DataTimeout \/ RtoTimeout \/ Probe
    \/ RecvFwd \/ RecvBack

Spec == Init /\ [][Next]_vars

\* Timers fire, and a packet that is not lost arrives.
Fairness ==
    /\ WF_vars(RefTimeout) /\ WF_vars(DataTimeout) /\ WF_vars(RtoTimeout)
    /\ WF_vars(RecvFwd) /\ WF_vars(RecvBack)

FairSpec == Spec /\ Fairness
-----------------------------------------------------------------------------
(* Properties *)

\* ref_timeout never takes its exit: a SYN timer is pending only while the
\* source waits for a SYNACK, whichever SYN of several that one answers.
SynTimerOnTime == "ref" \in timers => state = "SYNSENT"

\* The unsigned num_Pkts_to_retransmit_ never wraps: while a retransmission may
\* still be computed, the receiver's count has not passed the size, however many
\* packets were sent twice.
NoOverrun == state # "INACT" => num_acked < numpkts

\* A transfer always has a timer that will carry it on, unless the source has
\* given up on its SYN.
NeverStuck ==
    is_active => timers # {} \/ (state = "SYNSENT" /\ ref_seqno >= SynTries)

\* A transfer starts from scratch (rcp-pair.tcl:209-210): until its SYN is answered
\* neither agent has counted a packet, whatever of the last transfer is under way.
StartsFromScratch == state = "SYNSENT" => num_received = 0 /\ num_acked = 0

\* The source waits for an answer that will not come: no timer is pending and
\* nothing is under way.  The pair is not told, and stays active.
GaveUp == state = "SYNSENT" /\ timers = {} /\ fwd = <<>> /\ back = <<>>

\* A source that has given up has lost one packet for each of its tries: no
\* premature SYN timer brings this on, as a late SYNACK still starts the source.
GivesUpForLosses == GaveUp => losses >= SynTries

\* Every transfer ends or is given up, however many of its SYNs are lost: one
\* that was answered at last, after the last timer even, ends.
EndsOrGivesUp == is_active ~> ~ is_active \/ GaveUp

\* A transfer that is not stopped is done only when the receiver has counted as
\* many of its packets as it has, not those of an earlier one.
DoneMeansDelivered ==
    [][is_active /\ ~ is_active' /\ ~ Stop => delivered >= numpkts]_vars

\* The packets that have arrived, less those that only came a second time.
Arrived == IF delivered < numpkts THEN delivered ELSE numpkts

Abstract == INSTANCE Transfer WITH
    Stops    <- (IF StopWhen = "never" THEN {"never"} ELSE {"at once"}),
    active   <- is_active,
    current  <- fid,
    size     <- numpkts,
    arrived  <- Arrived,
    stops    <- (IF is_active /\ StopWhen # "never" THEN "at once" ELSE "never"),
    stopping <- FALSE

\* An RCP connection, stopped at any time but cleanly, gives the script what an
\* s-PERC connection does, for every transfer and not only the first: all but
\* an end where the source gives up on its SYN.
ImplementsTransfer == Abstract!Spec /\ (<>GaveUp \/ Abstract!Fairness)
=============================================================================
