------------------------------ MODULE SpercQueue ------------------------------
(***************************************************************************)
(* The queue of a link: SPERCQueue (sperc.cc) over Priority (priority.cc)   *)
(* over Queue (queue.cc), with the link as the queue sees it, a packet in   *)
(* transmission whose end calls resume.                                     *)
(*                                                                         *)
(* Control packets have priority 2, the data of Short flows 1 and that of   *)
(* Long flows 0 (get_prio), and their ACKs likewise.  The flows are there   *)
(* to say what may arrive: one control packet of a flow is under way at a   *)
(* time (ControlInTurn of SpercHost), a short flow has at most Window data  *)
(* packets in a queue, and nothing limits the data of long ones.            *)
(*                                                                         *)
(* The traffic averages behind queue_timeout are left out: they are logged  *)
(* and nothing reads them.                                                 *)
(***************************************************************************)
EXTENDS Integers, Sequences, FiniteSets

CONSTANTS
    Long, Short,   \* the flows with data of priority 0 and 1
    CtrlSize,      \* of a control packet
    DataSizes,     \* of data packets and ACKs
    Limit,         \* qlimBytes
    Common,        \* qcommonBytes, 96% of it
    Window         \* bound: data packets of a short flow in the queue

Flows == Long \cup Short

\* The configuration the exit in SPERCQueue::drop asks for: the control packets
\* of all flows and the data of short ones fit into the common buffer.
ASSUME QueueAssumption ==
    /\ CtrlSize \in Nat \ {0} /\ DataSizes \subseteq Nat \ {0}
    /\ Limit \in Nat /\ Common \in 0 .. Limit /\ Window \in Nat
    /\ \A size \in DataSizes :
          Cardinality(Flows) * CtrlSize + Cardinality(Short) * Window * size <= Common

Prios == 0 .. 2   \* queue_num_ is 3

NoPacket == [flow |-> "none"]

VARIABLES
    q_,        \* the packets of each priority
    bytes_,    \* of each priority: the counter PacketQueue keeps
    blocked_,  \* a packet is in transmission, as the queue sees it
    line,      \* the packet in transmission
    exited     \* a control packet was dropped: the program exits

vars == <<q_, bytes_, blocked_, line, exited>>

Packet(f, prio, size) == [flow |-> f, prio |-> prio, size |-> size]
-----------------------------------------------------------------------------
TotalByteLength == bytes_[0] + bytes_[1] + bytes_[2]

FitsOneLimit(p) ==   \* mutant: one limit for all priorities
    TotalByteLength + p.size <= IF p.prio = 0 THEN Limit ELSE Common

FitsBefore(p) ==   \* mutant: the packet itself is not counted
    IF p.prio = 0 THEN TotalByteLength <= Limit ELSE TotalByteLength - bytes_[0] <= Common

\* The test of Priority::enque: priority 0 may use the whole buffer, the others
\* the common part, in which what priority 0 has queued is not counted.
Fits(p) ==
    IF p.prio = 0
    THEN TotalByteLength + p.size <= Limit
    ELSE TotalByteLength - bytes_[0] + p.size <= Common

LowestFirst(q) ==   \* mutant: the loop over the priorities runs the other way
    CHOOSE i \in Prios : q[i] # <<>> /\ \A j \in Prios : q[j] # <<>> => i <= j

\* The queue that Priority::deque serves, when one is not empty.
HighestFirst(q) ==
    CHOOSE i \in Prios : q[i] # <<>> /\ \A j \in Prios : q[j] # <<>> => i >= j

\* deque and target_->recv: from the queues q, that hold b bytes.
Transmit(q, b) ==
    LET i == HighestFirst(q)
    IN  /\ line' = Head(q[i])
        /\ q_' = [q EXCEPT ![i] = Tail(@)]
        /\ bytes_' = [b EXCEPT ![i] = @ - Head(q[i]).size]
        /\ blocked_' = TRUE
-----------------------------------------------------------------------------
(* Queue::recv *)

NotEmpty == \E i \in Prios : q_[i] # <<>>

\* The packet is queued, and one is sent on if none is in transmission.
Accept(p) ==
    LET q == [q_ EXCEPT ![p.prio] = Append(@, p)]
        b == [bytes_ EXCEPT ![p.prio] = @ + p.size]
    IN  /\ Fits(p)
        /\ IF blocked_
           THEN q_' = q /\ bytes_' = b /\ UNCHANGED <<blocked_, line>>
           ELSE Transmit(q, b)
        /\ UNCHANGED exited

\* The packet is dropped: the program exits if it is a control packet, and
\* otherwise another one is sent on if none is in transmission.
Drop(p) ==
    /\ ~ Fits(p)
    /\ exited' = (p.prio = 2)
    /\ IF ~ exited' /\ ~ blocked_ /\ NotEmpty
       THEN Transmit(q_, bytes_)
       ELSE UNCHANGED <<q_, bytes_, blocked_, line>>

recv(p) == ~ exited /\ (Accept(p) \/ Drop(p))

InQueue(f, i) == Cardinality({k \in 1 .. Len(q_[i]) : q_[i][k].flow = f})

ControlHere(f) == InQueue(f, 2) > 0

\* A flow's control packet arrives, which is neither in the queue nor in
\* transmission.
RecvCtrl(f) ==
    /\ ~ ControlHere(f)
    /\ line # Packet(f, 2, CtrlSize)
    /\ recv(Packet(f, 2, CtrlSize))

RecvShort(f) ==
    /\ InQueue(f, 1) < Window
    /\ \E size \in DataSizes : recv(Packet(f, 1, size))

RecvLong(f) == \E size \in DataSizes : recv(Packet(f, 0, size))
-----------------------------------------------------------------------------
ResumeIdle ==   \* mutant: the queue waits for the next arrival
    /\ blocked_ /\ ~ exited
    /\ blocked_' = FALSE /\ line' = NoPacket
    /\ UNCHANGED <<q_, bytes_, exited>>

\* Queue::resume, when the transmission is over.
resume ==
    /\ blocked_ /\ ~ exited
    /\ IF NotEmpty
       THEN Transmit(q_, bytes_)
       ELSE blocked_' = FALSE /\ line' = NoPacket /\ UNCHANGED <<q_, bytes_>>
    /\ UNCHANGED exited
-----------------------------------------------------------------------------
Init ==
    /\ q_ = [i \in Prios |-> <<>>]
    /\ bytes_ = [i \in Prios |-> 0]
    /\ blocked_ = FALSE
    /\ line = NoPacket
    /\ exited = FALSE

Next ==
    \/ \E f \in Flows : RecvCtrl(f)
    \/ \E f \in Short : RecvShort(f)
    \/ \E f \in Long : RecvLong(f)
    \/ resume

\* The link ends every transmission.  Nothing is assumed of arrivals.
Spec == Init /\ [][Next]_vars /\ WF_vars(resume)
-----------------------------------------------------------------------------
(* Properties *)

\* The bytes of the packets of q, each with the place of its packet.
Bytes(q) == UNION {{k} \X (1 .. q[k].size) : k \in 1 .. Len(q)}

\* The byte counters are those of the packets, and no priority takes more of the
\* buffer than its part: 1 and 2 the common one together, 0 the whole of it.
\* (All of them together may exceed qlim_ when 0 was there first.)
BuffersFit ==
    /\ \A i \in Prios : bytes_[i] = Cardinality(Bytes(q_[i]))
    /\ bytes_[0] <= Limit
    /\ bytes_[1] + bytes_[2] <= Common

\* However much data of long flows there is, no control packet is dropped and
\* the program does not exit, in a configuration that satisfies QueueAssumption.
NoControlDropped == ~ exited

\* The link is never idle while a packet waits: each way into an idle link
\* (recv) and out of a busy one (resume) looks at all queues.
NeverIdle == NotEmpty => blocked_ /\ line # NoPacket

\* A control packet is sent on eventually, whatever data arrives.
ControlServed == \A f \in Flows : ControlHere(f) ~> ~ ControlHere(f)
=============================================================================
