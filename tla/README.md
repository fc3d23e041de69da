# Verification of the s-PERC simulator

TLA+ models, TLC runs and TLAPS proofs for the program of this repository: the
ns-2 simulations that compare *proactive* and *reactive* congestion control for
the SIGMETRICS'19 paper. `src/` holds three copies of ns-2.34 (`ns2-sperc`,
`ns2-rcp`, `ns2-dctcp`), each with the code of one algorithm, and the scripts
that drive two kinds of experiment: convergence time (`ct`, flows are started
and stopped by the script) and flow completion time (`fct`, flows have a size).

The core of the repository's own code is s-PERC: a distributed computation of
max-min fair rates by the switches, and a host protocol that uses the rates.
Paths below are relative to `src/`; `sperc/` is `ns2-sperc/ns-2.34/sperc/`.

## Inventory

ns-2 is a discrete-event simulator: one thread, and each event (a packet
arrives, a timer expires, a script command runs) is handled to its end. So a
handler is an atomic action, and what interleaves is events: the order in which
packets of different flows reach a link, and timers against packets.

| Component | State | Operations | What makes it correct |
|---|---|---|---|
| Link state, `sperc/sperc-control.{cc,h}` | `sumSat`, `numSat`, `numFlows`, `maxSat`, `nextMaxSat`; control rate limiting `crl`; timers | `process_egress`, `process_ingress` (both call `link_action`), `reset_maxsat_timeout`, `process_for_control_rate_limiting`, `reset_maxrtt_timeout`, `adjust_maxsat_timeout` | the sums agree with what the packets say; no overcommitment, no exit; rates converge to max-min; maxSat covers satisfied flows; flows are counted exactly and the shared timeout settles |
| Control packet at the agents, `sperc-control-host.cc`, `sperc-routing-host.cc`, `sperc-hdrs.h` | slots of the packet (label, allocation, rate, ignore bit per hop), hop counters, exit bit | `populate_SPERC_ctrl`, `get_rate_from_SPERC_ctrl`, `populate_route_recvd`, `populate_route_new`, `limit_rate` | one packet per flow; each link uses its own slot; an exit packet reaches every link |
| Packet dispatch, `classifier/classifier-hash.cc` (SPERCDestHashClassifier) | routes, the table of link states of a node | `recv`, `process_forward_pkt`, `process_reverse_pkt` | the link state of the link out of the node, never at the destination |
| Host protocol, `sperc/sperc-host.{cc,h}` (SPERCAgent) | state machine INACT, SYNSENT, SYNACK_RECVD, RUNNING, FINSENT, RETRANSMIT; counters; five timers; rate limiting mode; held control packet | `sendfile`, `send_first_packet`, `timeout`, `retrans_timeout`, `syn_retransmit_timeout`, `ctrl_timeout`, `recv_ctrl`, `recv_data`, `stop`, `finish`, `reset` | everything is delivered before the transfer is done; it does finish; one transfer does not disturb the next |
| Tcl pair, `sperc-scripts/files_to_run/sperc-pair.tcl` | `is_active`, `id`, statistics | `start`, `stop`, `fin_notify` | an inactive pair is clean |
| Tcl aggregate, `common-scripts/agent-aggr-pair.tcl` | pairs, active count, fid table | `ct_start`, `ct_stop`, `schedule`, `fin_notify` | starts inactive pairs only, stops active ones |
| s-PERC queue, `sperc/sperc.cc`; priority buffer, `queue/priority.cc`; `queue/queue.cc` | queues by priority, byte counts, `blocked_` | `recv`, `enque` (counts a hop), `deque`, `drop`, `resume` | control packets are never dropped; the link is never idle with work |
| RCP host, `ns2-rcp/ns-2.34/rcp/rcp-host.cc`; RCP pair, `rcp-scripts/files_to_run/rcp-pair.tcl` | state machine INACT, SYNSENT, RUNNING, FINSENT, RETRANSMIT; counters; four timers | `sendfile`, `start`, `timeout`, `ref_timeout`, `retrans_timeout`, `rate_probe_timeout`, `rate_change`, `recv`, `stop`, `reset` | as for the s-PERC host |
| RCP queue, `ns2-rcp/ns-2.34/rcp/rcp.cc`, a drop-tail queue | rate, traffic counters | `enque` with its drops; a control loop over reals | the losses are those of `RcpHost`; the stability of the loop is not modelled |
| DCTCP, pFabric, `ns2-dctcp/ns-2.34` | stock TCP, RED, drop-tail with priorities | baselines | not modelled |
| Drivers, `parallel.sh`, `common-scripts/run_experiment.sh` | job lists | run simulations | not modelled |

How they interact. The script starts a pair; the source sends one *control
packet* (unless it can finish within a round trip at the initial rate) and a
SYN or data. At each node before the destination, the classifier hands the
control packet to the state of the link it is about to take; the link reads and
rewrites its slot. The destination echoes the packet at once; on the way back
the same links may update it again (`SPERC_UPDATE_IN_REV`). The source reads
its rate (the least allocation), holds the packet until its control timer fires
and sends it again. When the data is acknowledged, or on stop, the next control
packet is an exit packet; its return calls `finish`, Tcl's `fin_notify`, and
`reset` on both agents, and the pair may be used again.

What is hard here: a link keeps no per-flow state, so every interleaving of
visits must keep the sums right; the host counts packets instead of numbering
them, so duplicates and packets of the last transfer matter; every exit(1) in
the code ends the whole simulation; counters are unsigned; and a stop may come
at any point. `PROJECT.json` lists these as hazards, each at its line.

## Modules

| Module | What it is |
|---|---|
| `SpercControl` | link states, control packets, dispatch and the control part of the agents, for any flows, links and paths |
| `SpercHost` | the two agents of one connection, the script that starts and stops them, the network between them |
| `SpercLimit` | control rate limiting: flow counts, round trip maxima and the maxSat timeout that the links of a node share |
| `SpercQueue` | the queue of a link: priorities, shares of the buffer, the blocking of the link |
| `RcpHost` | the two agents of an RCP connection, their pair and the network between them |
| `LinkBook` | abstract: what the links promise, as if each kept a book of its flows |
| `Transfer` | abstract: what a connection promises to the script that uses it |
| `Totals` | the total of a function over a finite set, and rounded-up division |
| `TotalsProofs` | facts on `Totals` (domain-independent), proved |
| `SpercControlProofs` | the inductive invariant of `SpercControl` and its theorems, proved |
| `SpercMaxSatProofs` | what `maxSat` covers, proved for timers that outlast every round trip |
| `SpercHostProofs` | the inductive invariant of `SpercHost` and its theorems, proved |
| `SpercTransferProofs` | what transfers of `SpercHost` promise: clean starts, whole transfers, pending timers, the refinement of `Transfer`, proved |
| `SpercLimitProofs` | that a link's count of flows is right on any simple paths, proved |
| `SpercQueueProofs` | that control packets are never dropped, the link never idles and the parts of the buffer hold, proved |
| `RcpHostProofs` | the inductive invariant of `RcpHost` and its theorems, proved |
| `MCSpercControl`, `MCSpercHost`, `MCSpercLimit`, `MCSpercQueue` | instances for TLC; claims of comments that runs refute |

`SpercControl` and `SpercHost` meet in two places. To `SpercControl` a host is
something that starts a flow, holds and sends its packet and decides to end at
any time (`Finish`): the real host does so only when it has sent its data or is
stopped, so `SpercControl` allows more. To `SpercHost` the links are something
that puts any rate of `Rates` into a returning control packet. That both sides
keep a single control packet in turn is proved on one (`where` is a function of
the flow) and proved on the other (`ControlInTurn`, for any number of
transfers). The same property is what `SpercQueue` assumes of arrivals: at most
one control packet of a flow at a time. `SpercHost` in turn assumes that control
packets are never lost, which is `NoControlDropped`, and `SpercControl` assumes
with `CoveringTimeout` a timer longer than a round trip, to which
`TimeoutSettles` shows the timeout to come. `Transfer` is implemented by
`SpercHost` and by `RcpHost`.

### SpercControl: correspondence

A control packet is what the variables `where`, `node`, `fwdHop`, `revHop`,
`isExit` and the slots say of a flow. There is one per flow, so a "packet in
flight" needs no set of messages. `ForwardHop` is one node on the way out
(classifier, `process_egress`, then the enqueue that counts the hop), `Echo`
the destination, `ReverseHop` one node on the way back, `Return` the source's
own node and `recv_ctrl`, which happen in one event; `SendCtrl` is
`ctrl_timeout`, `Start` is `send_first_packet` after a reset, `ResetMaxSat` is
`reset_maxsat_timeout`. `link_action` has the code's three cases: a link
ignores a FINISHED slot, removes a flow whose exit packet it sees, or labels
and allocates anew; its exits are `Aborts`, and no action is enabled on them, so
that `NeverAborts` and TLC's deadlock check would both see one.

Abstractions:

- Rates are naturals. The code's floats divide exactly up to rounding; the model
  rounds the quotient *up*, which keeps what the code has: a positive remaining
  capacity gives a positive rate. `Tolerance` is the 0.0001 Gb/s of
  `rate_equal`; with `Tolerance = 1` equality is exact, with 2 the model has
  "different but equal within tolerance" as the code does.
- `seen` is a history variable. `CoveringTimeout` says whether the maxSat timer
  lets each counted flow visit between two resets (what `adjust_maxsat_timeout`
  tries to ensure); when FALSE the timer fires at any time.
- The trickle rate 0.0001 Gb/s that the code uses when it got no rate is 0.
- Link capacities are constants; `SPERC_CONTROL_TRAFFIC_PC` and headroom are
  taken out already (`get_link_capacity_for_data`).
- All packets of a flow follow `Path[f]` and return along it, as the symmetric
  per-flow hash of the multipath classifier makes them; the code's comment warns
  that this may fail in WAN topologies, where `SPERC_UPDATE_IN_REV` is off.
- Stretch, statistics and logs are left out.

### SpercHost: correspondence

Each action is one handler, named as in the code. `timers` is the set of pending
timers (a timer either fires now or not: no clock), `rate = 0` stands for
`sperc_data_interval_ = -1`, `outstanding` is
`num_ctrl_packets_sent_ - num_ctrl_packets_recvd_`. `ResetAgents` is the chain
`finish` -> Tcl `done` -> `fin_notify` -> `reset` of both agents, which runs in
one event. `limiting` is chosen by `sendfile` from the size and the
configuration: `sperc` (wait for a rate), `init` (send at the initial rate, no
control packet), `init_until` (initial rate until the first s-PERC rate).

Abstractions: data carries no payload; data and ACKs travel in order and may be
lost (priorities may let a new transfer's packets overtake those of the last
one, which the receiver drops either way, by flow id); control packets are never
lost, because a queue that drops one ends the simulation, and overtake data,
because they have the highest priority (`sperc-host.cc:444`). A timer that
waits for an answer normally fires when the answer is lost; the RTO is twice an
RTT sample and the SYN period is a constant, so it may fire early, which the
model allows `MaxSpurious` times. `UINT` is a small 2^w: the counters are
unsigned. Round-trip times, requests, weights, statistics and the flow id reuse
of the script's first 0.2 s are left out. A pair started past `SIM_END` stays
marked active without a transfer; such starts are left out too.

### SpercLimit: correspondence

`AtEnd`, `AtNode` and `AtDestination` are
`process_for_control_rate_limiting` at the two ends of a path and between: at
each node a control packet visits the state of the link it comes from and that
of the link it takes, in this order, and each may adjust the timeout of the
node. `Update` is a visit (the count of flows up at a SYN, down at an exit packet
on its way back; the four maxima), `adjust_maxsat_timeout` one halving or
doubling, `ResetMaxRtt` the timer `reset_maxrtt_timeout`.

Abstractions: a measured round trip is the constant `RoundTrip[f]`, and
`future_rtt`, a packet's time at the share of the control capacity, is
`PacketTime` per flow. Clocks are left out: `ResetMaxRtt` waits until every
counted flow has been seen in the window, as the code's warnings ask. The -1 of
an empty maximum is 0. The control rate that the same function stamps on packets
is left out: it only sets how long a source holds its packet, which `SpercHost`
does not fix. A flow starts once; that its exit bit may ride on its SYN is a
choice of `Start`, because a source that is stopped before its first packet
sends such a SYN (`SpercHost`).

### SpercQueue: correspondence

`Accept` and `Drop` are the two outcomes of `Queue::recv` with
`Priority::enque`, `Transmit` is `deque` and the `target_->recv` after it,
`resume` the handler the link calls when a transmission is over. `Fits` is the
test of `enque`: priority 0 (data of long flows) may fill `qlimBytes` as a
whole, 1 (data of short flows) and 2 (control) share `qcommonBytes`, 96 % of it,
in which priority 0 is not counted. So the total may exceed `qlimBytes` by up to
`qcommonBytes` when long data was there first, although `queue.h:148` calls
`qlim_` the maximum allowed; the comment at `priority.cc:26` reserves 4 % for
priority 0 "control packets", but control packets have priority 2 and the
reserve goes to long data. What protects control packets is the other half of
the rule. `QueueAssumption` is what the exit in `SPERCQueue::drop` asks of a
configuration: the control packets of all flows and the windows of the short
ones fit into the common buffer. Nothing limits the data of long flows.

### RcpHost: correspondence

As in `SpercHost`, each action is one handler. An RCP source has no exit
handshake: `stop` cancels the timers and calls Tcl's `fin_notify`, which resets
both agents, all in one event. `rate_change` is a choice between sending at
once, later, or leaving the timer alone, which is what a rate means to the state
machine. The receiver counts DATA and FIN packets, and answers each with its
count; an inactive receiver takes a SYN of any flow. Packets of a connection
take one path and stay in order; `Lose` is what `RCPQueue` may do to any of them, a
`DropTail` queue (`queue/drop-tail.cc:83`). `StopWhen` says when the script may stop a
transfer: "clean" excludes the case in which a SYN that was sent too early is
still under way (see Findings). Left out: `pause` and the commands
that no script uses; flow ids are distinct, which the script ensures only for
transfers after 0.2 s (`rcp-pair.tcl:141`).

### Transfer and the refinements

`Transfer` is the connection as the script sees it: transfers start one after
another, packets arrive for the first time, the script may stop a transfer (by
asking for its end, or at once), and a transfer is done, reported once, after
all of its packets have arrived unless it was stopped. With its fairness, every
transfer that is started comes to its end. `stops` fixes at the start of a
transfer how a stop would work, so that a premature end is not taken for a stop.

`SpercHost` implements it with `arrived` mapped to the packets that the receiver
has counted, at most the size (a duplicate may stand in for a lost packet: the
receiver counts), and `stops` mapped to what the mode makes of a stop: in the
`init` mode it ends the transfer at once, otherwise it asks for an exit packet.
`host_transfer` shows this, liveness included, for three transfers that use the
agents one after another. After a second loss or an early timer, what is left
behind may disturb the next transfer (finding 2); there it starts only if that is
packets under way and no counts (`CleanStart`). `host_stop` shows the safety half for a transfer that may be stopped;
the proofs add connections of any length that lose one packet at most (see Proofs). `RcpHost` implements it for every transfer as long as stops are clean and, as to liveness, unless the source
gives up on its SYN (`GaveUp`). There a stop is always immediate, so
that with stops allowed a premature end could hide as a stop; the refinement is
checked with stops and `DoneMeansDelivered` beside it, which excludes them.

### LinkBook and its refinement

`LinkBook` gives each link what the code denies it, a page with an entry for every
flow: `Begin` opens a flow, `Rate` enters or rates it, `Strike` strikes it out and
`End` closes it when all links of its route have. The totals are by definition
those of the page. In `SpercControl` a link has the totals only; the entries are
those that the slots of the control packets amount to (`EntryAt`), so `book` is
mapped to `BookOfPackets` and `on` to the flows that have a packet. `Allocate` is
`Rate`, `RemoveFlow` is `Strike`, `Start` is `Begin`, and `Return` of an exit packet
is `End`; hops without processing, timers and the sources' decisions stutter. So
`ImplementsBook` says that the differences of `update_local_state`, applied by
whichever packet comes next, are as good as per-flow state; and that a flow is never
rated between the first strike and the last, nor begun before. `sperc_weights`
checks it, `LinksKeepABook` proves it (see Proofs).

## Runs

TLC checks; sizes are of the full state space. Every property of a passing run
has a mutant of the code that violates it (`PROJECT.json`).

| Run | Configuration | States | Shows |
|---|---|---|---|
| `sperc_requests` | two flows sharing one of two links; requests, updates both ways, tolerance of two grains, free maxSat timer | 796,142 | `SumSatBelowCapacity`, `HopSelectsLink`, `NeverAborts`, `PropagatedRatePositive`, `ExitSeenForward` |
| `sperc_weights` | same topology, weights 2 and 1, covering timer | 25,038 | `TypeOK`, `AggregatesMatch`, `MaxSatCovers`, `ImplementsBook` |
| `sperc_converge` | same topology, long flow limited elsewhere, free maxSat timer, fairness | 42,662 | `Converges`, `Leaves` |
| `host_transfer` | three transfers of 1 or 3 packets over one pair, all modes, 2 losses, 1 premature timer, clean starts after the first loss (`CleanSpec`); fairness | 116,165 | `NoOverrun`, `NeverStuck`, `StartsFresh`, `ControlInTurn`, `DoneMeansDelivered`, `TransfersFinish`, `ImplementsTransfer` |
| `host_stop` | one transfer that may be stopped anywhere, all modes, 1 loss, fairness | 67,444 | `TypeOK`, `TimerHasWork`, `StopFinishes`, `ImplementsTransferSafely` |
| `limit` | a flow over three nodes and one that joins at the second, round trips 5 and 4, packet time 3, timeout 16 at first; fairness | 83,981 | `FlowsCounted`, `TimeoutSettles` |
| `queue` | a long and a short flow, packets of 1 and 2 units, buffer 7, common part 6, fairness of the link | 9,073 | `BuffersFit`, `NoControlDropped`, `NeverIdle`, `ControlServed` |
| `rcp` | two transfers of 1 or 3 packets, stopped cleanly or not, 3 SYN tries, 3 losses, an early SYN timer, an early RTO, a probe each; fairness | 249,317 | `SynTimerOnTime`, `NoOverrun`, `NeverStuck`, `StartsFromScratch`, `GivesUpForLosses`, `DoneMeansDelivered`, `EndsOrGivesUp`, `ImplementsTransfer` |
| `claim_stop`, `claim_fin`, `claim_syn_timer`, `claim_scratch` | smallest instance that reaches the case | | violations, see Findings |

Why the bounds are enough to be interesting. Two flows over two links, one link
shared, is the smallest network in which a flow is limited at another link than
the one it shares, so that labels change between SAT and UNSAT and the ignore
bit matters; capacities 6 and 4 make the long flow change its bottleneck with
the other's presence, 6 and 2 keep it limited on its own link, and the max-min
rates are integral. Flows restart without bound in these runs. In the host runs
a transfer of one packet makes the first data packet the FIN, one of three has
DATA before it and can be partly retransmitted. Two losses reach the loss of a
retransmission and of an ACK, and leave duplicates behind for the next transfer.
`StartsFresh` is stated for at most one loss: two let `send_ctrl_fin` and the
counters leak into the next transfer (finding 2). `CleanSpec` allows every transfer
two losses and an early timer all the same; after them, the script starts another one
only if the agents are clean, whatever packets are under way, the condition of
`CleanCountersSuffice`. Up to the first loss it has no condition. So the refinement is also about what `reset` clears and leaves: a mutant that keeps
the receiver's count, or the mark of an exit packet sent, is found in the second
transfer. Deadlock checking is off in the host runs because the script
may stop starting transfers; it is on for the links and the queue, where it
holds.

In `limit` the two flows share a link in each direction and the node in the
middle has two links of different longest round trips; two control packets at
the shared capacity (6) outlast both round trips, so that joins and windows move
the timeout both ways, and 16 is neither settled nor a double of the values it
settles at. `queue` is the tightest configuration that satisfies
`QueueAssumption`: the common buffer is full when both control packets and the
short flow's window are queued. In `rcp` three losses and two early timers reach
several SYNs and SYNACKs under way, retransmissions that duplicate and a second
transfer among the packets of the first; as many losses as SYN tries let the source
give up, and an early SYN timer uses up a try although nothing is lost. Three tries
stand for the ten of the code.

### Fairness

`SpercControl.Fairness`: a control packet in the network is delivered and a held
one is sent, because a queue that drops one exits and the control timer is
periodic (`ctrl_timeout` reschedules itself); maxSat timers are periodic.
Nothing makes a flow start or end. `SpercHost.Fairness`: pending timers fire and
packets that are not lost arrive, which is what ns-2's event queue does; the
script owes nothing, losses are bounded. `RcpHost.Fairness` is the same.
`SpercLimit.Fairness`: control packets go on and the windows' timers are
periodic. `SpercQueue` assumes only that a link ends each transmission.
`Transfer.Fairness`, to be implied: what an active transfer needs arrives, and
its end is reported. All of it is weak fairness. Converges is stated under the
condition that starts and ends cease.

## Properties

Links. `AggregatesMatch`: `numFlows`, `numSat`, `sumSat` are the totals of what
the control packets say of the link. `SumSatBelowCapacity`: satisfied flows
never use up a link. `NeverAborts`: none of the exits of `link_action` is
reachable. `HopSelectsLink`: the arithmetic marked "TODO: check" in the source
picks the right slot. `PropagatedRatePositive`: the assertion in `limit_rate`,
which builds with `-DNDEBUG` compile out. `MaxSatCovers`: with a covering
timer maxSat is no less than any satisfied flow's allocation (it is not
with a timer that fires before every flow was seen; `Converges` holds with such a
timer as well, and `TimeoutSettles` is why the timer comes to outlast round trips). `Leaves`: a flow
that ends is forgotten by its links. `ExitSeenForward`: the assertion that an
exit packet is processed on the way out only. `ImplementsBook`: all of this is
what links with a book would do. `Converges`: the rates settle at max-min.

Hosts. `ControlInTurn`: the control packet is a single token, so the exit on an
out-of-turn packet and on a held packet at reset are unreachable and none
crosses into another transfer. `NoOverrun` and `TimerHasWork`: unsigned
differences never wrap. `NeverStuck`, `TransfersFinish`: recovery from loss.
`DoneMeansDelivered`, `StartsFresh`: transfers are whole and separate; each starts
with clean counters and nothing of the last one in the network.
`StopFinishes`: a stop ends the transfer wherever it comes.
`ImplementsTransfer`: none of this is seen by the script, also when the agents are
used again.

Control rate limiting. `FlowsCounted`: every link counts its flows exactly, each
seen twice at some nodes and once at others. `TimeoutSettles`: the halvings and
doublings of several links come to rest, between one and two longest round trips
of each.

Queue. `BuffersFit`, `NoControlDropped`: shares of the buffer, and the exit.
`NeverIdle`, `ControlServed`: each way in and out of an idle link looks at every
priority, and control packets do not wait for ever.

RCP. `SynTimerOnTime`: the exit of `ref_timeout` is unreachable. `NoOverrun`: the
unsigned difference that sizes a retransmission never wraps. `NeverStuck`: a
source waits for a timer, or has given up on its SYN. `GivesUpForLosses`: that needs
as many losses as tries, early timers do not bring it on. `EndsOrGivesUp`: any other
transfer ends, also one whose SYN is answered after the last timer.
`StartsFromScratch`: nothing is counted before a SYN is answered.
`DoneMeansDelivered`: transfers are whole, though packets carry no numbers.

## Findings

1. `claim_stop`. `sperc-host.h:138-141` says that after a stop request no new
   data packets are sent. They are: a returning control packet calls
   `rate_change`, or `start` when the source was waiting for a rate
   (`sperc-host.cc:853`, which does not test `stop_requested_`), and data flows
   until the exit packet is back. The effect on a `ct` experiment is some extra
   traffic. In that phase an RTO may find everything acknowledged; that the data
   timer is then not started is what keeps `timeout` from wrapping
   (`TimerHasWork`).
2. `claim_fin`. An ACK of a duplicate that arrives between `reset` and the next
   `start` passes `is_spurious` (the source keeps `fid_` until the next start)
   and sets `send_ctrl_fin_` on the idle source (`sperc-host.cc:1267`). The next
   transfer begins with it set: its own ACKs no longer stop its data, and in the
   `init` mode it never finishes; in the other modes its first control packet is
   an exit packet. Two losses are enough: a data packet, and one of the ACKs, so
   that the source retransmits two packets where one is missing; the receiver's
   count completes the transfer with the first, and the ACK of the second is late.
3. `claim_syn_timer`. `reset` cancels every timer but the SYN timer. A short
   transfer can be over before its SYN timer (40 us to 0.2 s) fires; it then
   fires in the next transfer, and if that one is in the `init` mode and waiting,
   the simulation exits with "in syn_retransmit but sending at init-rate".
4. `claim_scratch`. `rcp-pair.tcl:209-210` says that RCP flows start from scratch. A
   `stop` of the pair resets both agents at once (`rcp-pair.tcl:182` asks "how to stop
   cleanly?"), but `reset` leaves the receiver its flow id and an inactive receiver
   takes any SYN (`rcp-host.cc:552`). A SYN that was sent too early and arrives after
   the stop wakes the receiver, which counts the data behind it; the next transfer
   starts with that count, and with more packets `NoOverrun` and
   `DoneMeansDelivered` are violated. `AlwaysStartsFromScratch` proves that stops
   that are clean leave no such count.

One more exit is reachable and has no run: after a stop, a SYN still in the
network when the pair starts its next transfer makes the receiver exit with
"rcv received a spurious SYN" (`sperc-host.cc:1165`). The model has it as
`SpuriousSyn`, a state in which `recv_data_at_dest` is not enabled.

Other behaviours that TLC shows when a run's bounds or conditions are widened,
and that the runs' conditions therefore name:

- `SpercHost`: after two losses a late ACK of the first transfer leaves
  `num_acked` above the size of the second, and the unsigned difference at
  `sperc-host.cc:767` wraps; in one transfer a stop, a loss and an early timer do
  the same. `NoOverrun` is checked for transfers that are not stopped and start
  clean (`CleanSpec`).
- `SpercHost`: the second transfer may be left without a timer, its
  retransmission finding everything acknowledged by a count of the first. It
  takes a loss and a first transfer stopped in the `init` mode, or two losses and
  an early timer. `NeverStuck` is checked for the same transfers.
- `SpercLimit`: a flow that is stopped before its first packet sends a SYN with
  the exit bit; it comes back as a `CTRL_SYN_REV`, which no link counts down
  (`sperc-control.cc:139`), so the flow is counted for ever. `FlowsCounted`
  states the count with this exception.
- `SpercLimit`: if the longest round trips of two links of a node differ by a
  factor of two or more, one halves the shared timeout and the other doubles it,
  for ever. `TimeoutSettles` is checked with round trips of a factor below two.
- `RcpHost`: after ten SYNs the source gives up without telling the pair, which
  stays active; the comment at `rcp-host.cc:487` says three (`:492`). `GivesUpForLosses`
  shows that this takes as many losses as SYNs.
- Transfers that start before 0.2 s share a flow id (`rcp-pair.tcl:141`).

## Proofs

`SpercControlProofs` proves, for all finite sets of flows, all sets of links,
paths of any length within `MAX_HOPS`, all capacities, weights, requests and
tolerances, and with and without reverse updates:

| Theorem | Property |
|---|---|
| `TypeCorrect` | `TypeOK` |
| `AggregatesAlwaysMatch` | `AggregatesMatch` |
| `SumSatAlwaysBelowCapacity` | `SumSatBelowCapacity` |
| `HopAlwaysSelectsLink` | `HopSelectsLink` |
| `LinksNeverAbort` | `NeverAborts` |
| `PropagatedRatesArePositive` | `PropagatedRatePositive` |
| `ExitAlwaysSeenForward` | `ExitSeenForward` |
| `LinksKeepABook` | `ImplementsBook` |

All but the last two follow from one inductive invariant, `IInv == LinkInv /\ AgentTypeOK /\
RouteOK /\ ExitForgotten`:

- `LinkInv` has the types of link and slot variables, `AggregatesMatch`,
  `SumSatBelowCapacity` and `PropagatedRatePositive` together. None is inductive
  alone: that the remaining capacity is positive needs the sums to be right and
  the other flows' satisfied allocations to stay below capacity; that the sum
  stays below capacity needs the new satisfied allocation to be below the
  bottleneck rate, hence the rates propagated to be positive.
- `RouteOK` relates position, hop counters and path length: a visit reads and
  writes the slot of the link whose sums it changes.
- `ExitForgotten` says that an exit packet on its way back has been forgotten by
  every link it passes, and a forward one by the links behind it; without it a
  reverse update could count a flow that is leaving.

The argument for a visit: it rewrites one slot (`VisitRewritesOneSlot`), the
totals change by exactly the difference of the slot's share (`TotalUpdate`,
`UpdateKeepsAggregates`), the flow's own weight makes `numUnsat` positive
(`NumUnsatCoversFlow`), and the rounded-up quotient stays within bounds
(`BottleneckRateBounds`, `NewAllocBounds`). The other actions change no slot
that counts. Assumptions are those named in `SpercControl` (`FlowAssumption`,
`PathAssumption`, `RateAssumption`, `SwitchAssumption`), which TLC evaluates in
each run.

The last two need `ExitMarked` as well, inductive under `IInv`: while a flow goes
on none of its slots is FINISHED, and once it ends each slot behind the exit
packet is. `IInv` says only that such a link does not count the flow, which a
NEW_FLOW slot satisfies, too. `ExitSeenForward` is a part of it. For
`LinksKeepABook` each action is mapped to one of the book (`NextRefines`): a visit
writes one entry (`BookAfterVisit`), and because the totals of a link are those of
the packets before and after (`LinkInv`), they are those of its page
(`TotalsOfBook`, `UpdateWrites`). That it may be written is `ExitMarked`: a link
that labels a flow finds none of its entries struck out, and a packet that ends
the flow all of them (`VisitRefines`, `ReturnRefines`). That the entry is a rating
is the bound of the capacity on a single allocation (`SatisfiedWithinCapacity`).

`SpercMaxSatProofs` adds `MaxSatAlwaysCovers`: under `CoveringTimeout`, `Spec`
implies `[]MaxSatCovers`. Alone it is not inductive, because a reset replaces
`maxSat` by `next_max_sat`; the strengthening `NextMaxSatCovers` says that
`next_max_sat` covers the satisfied flows seen since the last reset, which are
all the counted ones when the timer fires (`ResetKeepsCover`). A visit raises
both maxima together (`AllocateKeepsCover`), also when the allocation is kept
because it differs by less than the tolerance.

`SpercHostProofs` proves, for any number of transfers, sizes, losses, early
timers and stops:

| Theorem | Property |
|---|---|
| `HostTypeCorrect` | `TypeOK` |
| `ControlAlwaysInTurn` | `ControlInTurn` |
| `TimerAlwaysHasWork` | `TimerHasWork` |

from `HostInv == TypeOK /\ SourceFits /\ PairFits /\ ControlFits`. `TypeOK`
needs `SourceFits` (what was sent is at most the size, or the unsigned counters
leave their range), and `SourceFits` needs `PairFits` (a source that is not idle
belongs to an active pair with a size). `ControlFits` adds to `ControlInTurn` that
the token *exists* once it was sent and is an exit packet only when
`send_ctrl_fin_` is set: this is why an exit packet that comes back finds nothing
held and no other packet, whatever leaked from the last transfer.

`SpercTransferProofs` builds on `HostInv` and proves what the transfers promise.
The findings show that none of it holds without conditions: a count or a flag of
one transfer may disturb the next, and a stop may overlap with retransmission. The
conditions are on the constants of an instance and are as wide as TLC allows:
`CleanStarts` says that the connection has one transfer, or that it loses one
packet at most, stops no transfer and fires no timer early (`MaxTransfers <= 1 \/
~ AllowStop /\ MaxLosses <= 1 /\ MaxSpurious = 0`). A single transfer may lose
any number of packets, fire any number of timers early and, unless the last
column says otherwise, be stopped anywhere.

| Theorem | Property | Under |
|---|---|---|
| `TransfersStartFresh` | `StartsFresh` | `~ AllowStop`, any number of transfers, losses and early timers |
| `NeverOverruns` | `NoOverrun` | `CleanStarts`, `~ AllowStop` |
| `StopOrNoOverrun` | `NoOverrun` until a stop | `CleanStarts` |
| `AlwaysHasTimer` | `NeverStuck` | `CleanStarts` |
| `DoneIsDelivered` | `DoneMeansDelivered` | `CleanStarts`, `~ AllowStop` |
| `ConnectionIsSafe` | `ImplementsTransferSafely` | `CleanStarts` |
| `CleanCountersSuffice` | the last four | nothing but `[]Fresh` |

`~ AllowStop` is there for two of them because they fail without it: a stop, a loss
and an early timer together make the difference at `sperc-host.cc:767` wrap, and a
transfer in the `init` mode that is stopped ends at once, with `stop_requested`
never set, whatever has arrived. The argument has two parts.

- Within a transfer: `TransferInv`, for a pair that is active, relates what the
  receiver has counted, what is acknowledged and on its way back, and what the
  source makes of it (`CountsFit`); bounds the packets received and under way by
  what was sent until everything was sent once (`SentFits`: no duplicates yet);
  and names the timer that each state waits for (`TimersFit`). `AllAcked` sets
  `send_ctrl_fin` only when the receiver has counted everything, because a count
  on its way is at most the receiver's; and as long as it is not set one of the
  timers is pending. `TransferInv` is inductive given that counters are clean at a
  start (`Fresh`, `NextTransferInv`), and the steps it allows are steps of the
  abstract transfer or stutter (`NextRefines`).
- Between transfers: `OrderInv` shows that starts are clean while one packet at
  most was lost. In order, the acknowledgements under way count up to what the
  receiver has counted without a gap (`AcksInOrder`); what is under way is what the
  source has sent and not seen acknowledged (`SendingOrder`); one lost packet is
  made up for by one packet (`RetransmitOrder`). So the acknowledgement that
  completes a transfer is the last packet in the network, and `reset` leaves
  nothing behind. With a second loss this breaks, as finding 2 shows.

For every later transfer of a connection with more losses, `CleanCountersSuffice`
says that only unclean counters could spoil it: it has no condition on the
constants, and assumes of a behaviour only that its transfers start `Fresh`.

`SpercLimitProofs` proves `FlowsAlwaysCounted`: under `SimplePaths` (finitely many
flows, paths of any length that visit no node twice, which shortest-path routes
do), `Spec` implies `[]FlowsCounted`. The code never looks at which flows a link
has counted; it only adds one for a SYN and takes one off for an exit packet
returning. `CountsAt` says from the place of its packet alone at which nodes a
flow should be counted, `PlaceFits` where a packet of each kind can be, and each
step changes `CountsAt` at one place at most, where exactly the links that begin
there change their counts by as much (`StepCounts`). The node of the destination
counts a flow once although the packet is processed there twice for one link
(`AtDestinationCounts`).

`SpercQueueProofs` proves, under `FiniteTraffic` (finitely many flows and a largest
packet of data) and `QueueAssumption`:

| Theorem | Property |
|---|---|
| `ControlNeverDropped` | `NoControlDropped` |
| `LinkNeverIdle` | `NeverIdle` |
| `BuffersAlwaysFit` | `BuffersFit` (without `FiniteTraffic`) |

the first two from `QueueInv`. Its core, `QueueFits`, bounds a queue's bytes by what the flows
may have there: each packet has a slot of its own among those of its flow
(`HasSlots`; there is a free one for an arrival, `FreeSlot`, by pigeonhole), and
the byte counter is the number of elements of `Bytes`, which go into slots times
the largest packet (`BytesBound`). So priorities 1 and 2 leave the common buffer
room for any control packet (`CommonFits`), however much priority 0 has queued.
`BuffersAlwaysFit` needs none of this: the test of `enque` keeps each priority in
its part as long as the counters are those of the packets (`InParts`), which they
are because a packet adds its bytes to the set and takes the same ones off
(`AppendCounts`, `TailCounts`).

`RcpHostProofs` proves, for any sizes and numbers of transfers, losses, early
timers and probes, when transfers are stopped cleanly or not at all
(`StopWhen # "always"`):

| Theorem | Property |
|---|---|
| `SynTimerAlwaysOnTime` | `SynTimerOnTime` |
| `NeverOverruns` | `NoOverrun` |
| `AlwaysHasTimer` | `NeverStuck` |
| `DoneIsDelivered` | `DoneMeansDelivered` |
| `AlwaysStartsFromScratch` | `StartsFromScratch` |
| `GivesUpOnlyForLosses` | `GivesUpForLosses` |
| `ConnectionIsSafe` | `Abstract!Spec`, the safety half of `ImplementsTransfer` |

from `RcpInv`, whose three parts about the packets under way are operators of
the two networks (`RecvFits`, `SynsFit`, `CountsFit`), so that what a step leaves
in them can be put in place of them (`LossKeeps`: any packet may be lost). The
argument rests on packets staying in order. The count of an answer is at most
what the receiver has counted of this transfer; that the receiver has counted
nothing of another one needs that an idle receiver has no data of its flow ahead,
or that no SYN comes before it (`RecvFits`): a stop establishes this when no SYN
was sent too early (`SynsFit`), the end of a transfer because SYNs precede data
and data has been counted. `FINACK` ends a transfer on equality only, so its
count must not pass the size: what the receiver has counted and the data up to
the last packet under way are together at most the size (`FinFits`, a
cardinality: `FitsTail` and `FitsAppend`). `GivesUpOnlyForLosses` needs one invariant more,
`TriesInv`: while the source waits, each SYN it has sent is lost, under way, or
answered by a SYNACK under way (`TriesUnderWay`). A receiver answers a SYN with one
SYNACK, and a SYNACK that arrives starts the source; so with nothing under way and
no timer all tries were lost.

Totals are written as cardinalities of sets of units, not as folds, because the
facts on cardinality in the library can be cited by the prover, while induction
over a fold cannot.

Model-checked only: all liveness (`Converges`, `Leaves`, `TransfersFinish`,
`StopFinishes`, `TimeoutSettles`, `ControlServed`, `EndsOrGivesUp`, the fairness half of
`ImplementsTransfer`), because the prover has no fairness. Of `SpercHost`,
`NoOverrun`, `NeverStuck`, `StartsFresh`, `DoneMeansDelivered` and
`ImplementsTransferSafely` are proved under the conditions above; each of them holds
in the instances of its runs.

## Not modelled

By component: statistics of `SPERCQueue` and the averages behind
`queue_timeout`, which are logged only; ECN marking of the priority buffer, an
exit in s-PERC; token bucket, DRR and `sperc_priqueue.cc`, which the experiments
do not configure; the rate of the RCP queue, computed every interval by a formula over
measured traffic, queue and round trip times: a sampled control loop over reals,
about which a small discrete instance says nothing; DCTCP and pFabric, third-party
baselines (full TCP, RED, drop-tail) with small changes; arrival processes,
topologies, experiment drivers and analysis scripts; multipath routing, which
enters as the assumption that a connection uses one path.

By size: `src/` is three copies of ns-2.34 with tcl, tk, otcl, tclcl, nam,
xgraph and others, some 2.5 million lines of vendored code. The code that belongs
to this repository and carries its logic is about eight thousand lines, those of
the sources that `PROJECT.json` lists for modelled components; the models stand
for more than a third of them. The rest of these files is declarations, Tcl
bindings, logging, statistics and configurations that no script uses. No model
of the vendored libraries would say anything about this program, so they enter
only as what the code uses them for: the scheduler as interleaving of atomic
events, timers as a set of pending ones.

## Plan

Done, in order: `Totals`, `SpercControl`, its runs and its theorems; `SpercHost`
and its runs; `Transfer`, `LinkBook` and the refinements; `SpercLimit`; `SpercQueue`;
`RcpHost`; the theorems of `SpercHost`, about its agents and about its
transfers, of `RcpHost`, of `SpercLimit` and of `SpercQueue`. Left:

1. The drop and dequeue rule of pFabric's drop-tail queue, the one piece of the
   baselines with a combinatorial property.
