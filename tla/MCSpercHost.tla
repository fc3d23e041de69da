----------------------------- MODULE MCSpercHost -----------------------------
(***************************************************************************)
(* Instances of SpercHost for TLC, and the claims of the repository about  *)
(* a connection that a run of this module refutes.                         *)
(***************************************************************************)
EXTENDS SpercHost

\* After a stop request no new data packets are sent (sperc-host.h:138-141).
StopSendsNoNewData == [][stop_requested => num_sent' <= num_sent]_vars

\* send_ctrl_fin_ is set once all data packets of the transfer have been
\* acked, or when it is stopped (sperc-host.h:134-136).
FinMeansAcked == is_active /\ send_ctrl_fin => stop_requested \/ delivered >= numpkts

\* The SYN timer does not fire in a transfer that sends at the initial rate:
\* syn_retransmit_timeout calls that an error (sperc-host.cc:669-672).
SynTimerOnlyAtSpercRate == ~ SynTimerAtInitRate

\* The instance of host_transfer.  After a second loss or an early timer, duplicates
\* may leave counts or send_ctrl_fin_ behind (FinMeansAcked); then the script starts
\* no transfer.  It does if they only left packets in the network.
CleanStart ==
    \/ losses <= 1 /\ spurious = 0
    \/ num_received = 0 /\ num_acked = 0 /\ ~ send_ctrl_fin

CleanNext ==
    \/ CleanStart /\ StartTransfer
    \/ Stop \/ Lose
    \/ SendFirst \/ syn_retransmit_timeout \/ data_timeout \/ retrans_timeout \/ ctrl_timeout
    \/ recv_ctrl_at_dest \/ RecvCtrlAtSource
    \/ recv_data_at_dest \/ RecvAck

CleanSpec == Init /\ [][CleanNext]_vars /\ Fairness
=============================================================================
