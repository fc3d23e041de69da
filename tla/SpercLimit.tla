------------------------------ MODULE SpercLimit ------------------------------
(***************************************************************************)
(* Control rate limiting (ControlRateLimiting of sperc-control.cc): how a   *)
(* link counts the flows that share its control capacity, and how the links *)
(* of a node adapt SPERC_MAXSAT_TIMEOUT_, which they share, to the longest  *)
(* round trip they know of: the longest measured one, or the time between   *)
(* two control packets of a flow at the rate the link gives each of them.   *)
(*                                                                         *)
(* A node keeps a state for each neighbour and uses it in both directions:  *)
(* the link <<n, m>> is that of node n towards its neighbour m.             *)
(*                                                                         *)
(* A control packet returns after RoundTrip[f], which includes the time the *)
(* source holds it; times are in units small enough for both that and       *)
(* PacketTime, the time a control packet takes at the whole control         *)
(* capacity of a link, to be whole.  Clocks are left out: a maxRtt window   *)
(* is long enough for every flow to be seen in it, as the warnings of the   *)
(* code ask.  What the timers do to maxSat is the subject of SpercControl,  *)
(* what a source makes of the rate that of SpercHost.                       *)
(***************************************************************************)
EXTENDS Integers, Sequences, FiniteSets

CONSTANTS
    Flows,
    Path,            \* the nodes a flow visits, from its source to its destination
    RoundTrip,       \* the round trip time of a flow's control packets
    PacketTime,      \* a control packet at the control capacity of a link
    InitialTimeout   \* SPERC_MAXSAT_TIMEOUT_ as configured

ASSUME LimitAssumption ==
    /\ \A f \in Flows : Len(Path[f]) >= 2 /\ RoundTrip[f] \in Nat \ {0}
    /\ PacketTime \in Nat \ {0}
    /\ InitialTimeout \in Nat \ {0}

Nodes == UNION {{Path[f][i] : i \in 1 .. Len(Path[f])} : f \in Flows}

\* The link between the nodes at places i and j of a flow's path, at the first.
LinkAt(f, i, j) == <<Path[f][i], Path[f][j]>>

\* The link l begins at place i of the path of f.
BeginsAt(f, l, i) ==
    /\ Path[f][i] = l[1]
    /\ \/ i > 1 /\ Path[f][i - 1] = l[2]
       \/ i < Len(Path[f]) /\ Path[f][i + 1] = l[2]

Links == {l \in Nodes \X Nodes : \E f \in Flows : \E i \in 1 .. Len(Path[f]) : BeginsAt(f, l, i)}

VARIABLES
    crl,       \* per link: ControlRateLimiting, and whether a window has passed
    timeout,   \* per node: SPERC_MAXSAT_TIMEOUT_
    packet     \* per flow: its control packet, and where it is

vars == <<crl, timeout, packet>>

Larger(a, b) == IF a > b THEN a ELSE b
-----------------------------------------------------------------------------
(* A link *)

bestMaxRtt(c) == Larger(c.maxRtt, c.maxFutureRtt)

TooLongAtOnce(c, t) ==   \* mutant: halved as soon as it exceeds the longest round trip
    bestMaxRtt(c) > 0 /\ t > bestMaxRtt(c) /\ c.resets

\* The timeout is too long; not decided before the first maxRtt window is over.
TooLong(c, t) == bestMaxRtt(c) > 0 /\ t > 2 * bestMaxRtt(c) /\ c.resets

TooShort(c, t) == bestMaxRtt(c) > 0 /\ t < bestMaxRtt(c)

\* adjust_maxsat_timeout: one step of halving or doubling.
adjust_maxsat_timeout(c, t) ==
    CASE TooLong(c, t)  -> t \div 2
      [] TooShort(c, t) -> 2 * t
      [] OTHER          -> t

CountAnyExit(n, p) ==   \* mutant: an exit packet counts in both directions
    IF p.type = "CTRL_SYN" THEN n + 1 ELSE IF p.exit THEN n - 1 ELSE n

\* crl.numFlows after the packet p.
CountFlow(n, p) ==
    CASE p.type = "CTRL_SYN"           -> n + 1
      [] p.exit /\ p.type = "CTRL_REV" -> n - 1
      [] OTHER                         -> n

\* future_rtt: the time between the control packets of a flow when n flows
\* share the link.
FutureRtt(n) == PacketTime * (IF n > 0 THEN n ELSE 2)

\* What a link with state c becomes when the packet p comes by.
Update(c, p) ==
    LET n == CountFlow(c.numFlows, p)
    IN  [c EXCEPT !.numFlows = n,
                  !.maxRtt = Larger(@, p.rtt),
                  !.nextMaxRtt = Larger(@, p.rtt),
                  !.maxFutureRtt = Larger(@, FutureRtt(n)),
                  !.nextMaxFutureRtt = Larger(@, FutureRtt(n))]

\* The timeout t of the node when a link goes from state c to state d: adjusted
\* when that raises a maximum (the one of the next window is never the larger).
Adjusted(c, d, t) ==
    IF d.nextMaxRtt > c.nextMaxRtt \/ d.nextMaxFutureRtt > c.nextMaxFutureRtt
    THEN adjust_maxsat_timeout(d, t)
    ELSE t
-----------------------------------------------------------------------------
(* process_for_control_rate_limiting, at a node of the path *)

\* At an end of the path: one link.
AtEnd(p, l) ==
    /\ crl' = [crl EXCEPT ![l] = Update(@, p)]
    /\ timeout' = [timeout EXCEPT ![l[1]] = Adjusted(crl[l], crl'[l], @)]

\* Between: the link to where the packet comes from, then the one to where it goes.
AtNode(p, from, to) ==
    /\ crl' = [crl EXCEPT ![from] = Update(@, p), ![to] = Update(@, p)]
    /\ timeout' = [timeout EXCEPT ![from[1]] =
                       Adjusted(crl[to], crl'[to], Adjusted(crl[from], crl'[from], @))]

\* At the destination: one link, the packet p and then its echo.
AtDestination(p, echo, l) ==
    \E c \in {Update(crl[l], p)} :
        /\ crl' = [crl EXCEPT ![l] = Update(c, echo)]
        /\ timeout' = [timeout EXCEPT ![l[1]] = Adjusted(c, crl'[l], Adjusted(crl[l], c, @))]
-----------------------------------------------------------------------------
(* The control packet of a flow *)

\* A packet at its source.
Packet(type, exit, rtt) ==
    [type |-> type, exit |-> exit, rtt |-> rtt, from |-> 0, to |-> 1]

\* The source's agent sends p, and its node passes it on.
Send(f, p) ==
    LET l == LinkAt(f, 1, 2)
    IN  /\ AtEnd(p, l)
        /\ packet' = [packet EXCEPT ![f] = [p EXCEPT !.from = 1, !.to = 2]]

\* send_first_packet: a SYN, which is an exit packet if the flow was stopped
\* before it.
Start(f) ==
    /\ packet[f].type = "none"
    /\ \E exit \in BOOLEAN : Send(f, Packet("CTRL_SYN", exit, 0))

\* The held packet goes out.
SendCtrl(f) ==
    /\ packet[f].type = "CTRL" /\ packet[f].from = 0
    /\ Send(f, packet[f])

\* A node on the path passes it on, in either direction.
Forward(f) ==
    LET p    == packet[f]
        next == IF p.from < p.to THEN p.to + 1 ELSE p.to - 1
        from == LinkAt(f, p.to, p.from)
        to   == LinkAt(f, p.to, next)
    IN  /\ p.to \in 2 .. Len(Path[f]) - 1
        /\ AtNode(p, from, to)
        /\ packet' = [packet EXCEPT ![f] = [p EXCEPT !.from = p.to, !.to = next]]

RevType(type) == IF type = "CTRL_SYN" THEN "CTRL_SYN_REV" ELSE "CTRL_REV"

\* The destination's node handles it, its agent echoes it with the rate taken
\* back, and the node handles the echo.
Echo(f) ==
    LET p    == packet[f]
        last == Len(Path[f])
        l    == LinkAt(f, last, last - 1)
        echo == [p EXCEPT !.type = RevType(@)]
    IN  /\ p.to = last
        /\ AtDestination(p, echo, l)
        /\ packet' = [packet EXCEPT ![f] = [echo EXCEPT !.from = last, !.to = last - 1]]

\* The source's node handles it, and the source takes its rate and holds the
\* next one, which is the exit packet when the transfer has ended (SpercHost).
Return(f) ==
    LET p == packet[f]
        l == LinkAt(f, 1, 2)
    IN  /\ p.to = 1 /\ p.from = 2
        /\ AtEnd(p, l)
        /\ IF p.exit
           THEN packet' = [packet EXCEPT ![f] = Packet("over", p.type = "CTRL_SYN_REV", 0)]
           ELSE \E over \in BOOLEAN :
                    packet' = [packet EXCEPT ![f] = Packet("CTRL", over, RoundTrip[f])]
-----------------------------------------------------------------------------
(* The maxRtt timer *)

\* The SYN of a flow with packet p has come by place i of its path, and no exit
\* packet on its way back.
CountsAt(p, i) ==
    CASE p.type = "none"               -> FALSE
      [] p.type = "CTRL_SYN"           -> i < p.to
      [] p.type = "CTRL_REV" /\ p.exit -> i <= p.to
      [] p.type = "over"               -> p.exit
      [] OTHER                         -> TRUE

Counted(l) ==
    {f \in Flows : \E i \in 1 .. Len(Path[f]) : BeginsAt(f, l, i) /\ CountsAt(packet[f], i)}

NextWindow(c) ==
    [c EXCEPT !.maxRtt = c.nextMaxRtt, !.nextMaxRtt = 0,
              !.maxFutureRtt = c.nextMaxFutureRtt, !.nextMaxFutureRtt = 0,
              !.resets = TRUE]

\* reset_maxrtt_timeout of a link whose first packet has started its timers,
\* when it has seen every flow.
ResetMaxRtt(l) ==
    LET c == NextWindow(crl[l])
    IN  /\ crl[l].maxFutureRtt > 0 \/ crl[l].resets
        /\ \A f \in Counted(l) : packet[f].type = "over" \/
              /\ packet[f].rtt <= crl[l].nextMaxRtt
              /\ FutureRtt(crl[l].numFlows) <= crl[l].nextMaxFutureRtt
        /\ crl' = [crl EXCEPT ![l] = c]
        /\ timeout' = [timeout EXCEPT ![l[1]] = adjust_maxsat_timeout(c, @)]
        /\ UNCHANGED packet
-----------------------------------------------------------------------------
\* The maxima are -1 in the code until there is one.
Init ==
    /\ crl = [l \in Links |-> [numFlows |-> 0, maxRtt |-> 0, nextMaxRtt |-> 0,
                               maxFutureRtt |-> 0, nextMaxFutureRtt |-> 0,
                               resets |-> FALSE]]
    /\ timeout = [n \in Nodes |-> InitialTimeout]
    /\ packet = [f \in Flows |-> Packet("none", FALSE, 0)]

Next ==
    \/ \E f \in Flows : \/ Start(f)
                        \/ SendCtrl(f) \/ Forward(f) \/ Echo(f) \/ Return(f)
    \/ \E l \in Links : ResetMaxRtt(l)

Spec == Init /\ [][Next]_vars

\* Control packets are neither lost nor held for ever, and the maxRtt timer is
\* periodic.
Fairness ==
    /\ \A f \in Flows : WF_vars(SendCtrl(f) \/ Forward(f) \/ Echo(f) \/ Return(f))
    /\ \A l \in Links : WF_vars(ResetMaxRtt(l))

FairSpec == Spec /\ Fairness
-----------------------------------------------------------------------------
(* Properties *)

\* Every link counts its flows exactly, whatever starts and ends at once, with
\* one exception: a flow stopped before its first packet is counted for good,
\* as its exit packet comes back as a CTRL_SYN_REV.
FlowsCounted == \A l \in Links : crl[l].numFlows = Cardinality(Counted(l))

\* The maxSat timeout of a node settles between once and twice the longest
\* round trip of each of its links, as "Old value too small" and "Old value too
\* big" want it.  It needs links whose longest round trips differ by less than
\* a factor of two: otherwise they pull the timeout up and down for ever.
TimeoutSettles ==
    <>[](\A l \in Links : bestMaxRtt(crl[l]) > 0 =>
            timeout[l[1]] \in bestMaxRtt(crl[l]) .. 2 * bestMaxRtt(crl[l]))
=============================================================================
