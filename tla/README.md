# Verification of mpverus

mpverus is a library for message-passing programs in Rust, verified with Verus,
and a set of protocols written against it. Each protocol is proved thread by
thread in Verus, over a token machine (`NetSM` in `tok.rs`) that describes the
network. What Verus does not see is the program as a whole: the trusted
primitives below the tokens, the interleavings of the services, liveness, and
whether the deployments in `main.rs` end. Those are the subject of this
directory. It holds TLA+ models of the system, TLC configurations that check
them on small instances, and TLAPS proofs for every value of the parameters.

Paths below are relative to the repository root; `paxos.rs` and the like are
under `src/examples/`, `tok.rs`, `proc.rs`, `layer.rs` and `quorum.rs` under
`src/`.

## 1. Inventory

| component | state | operations | what is hard |
|---|---|---|---|
| token machine (`tok.rs`, `NetSM`) | a history per channel and direction, the record of witnesses, the allocator | boot, do_send, do_recv, alloc | global facts (agreement, provenance, freshness) from local gates |
| endpoints (`proc.rs`, `tok.rs`) | mpsc queues, tokens and witnesses held by threads | make_endpoints, open_channel, open_new_channel, send/send_caused, recv | the bodies are trusted: is a queue really the machine's channel? |
| mailbox scan (`recv_any`) | locals start and i, the channels | one try_recv after the other, rotation, back-off | messages arriving behind the probe; starvation |
| Paxos (`paxos.rs`, `quorum.rs`) | acceptor: promised ballot, last acceptance, log; proposer: ballot, decision log | on_prepare, on_accept; broadcast_prepare, gather_quorum, commit | several proposers, reordering between channels, stale promises; no refusal message and no retry |
| Paxos deployments (`paxos_system.rs`, `main.rs`) | threads, message budgets | deploy_paxos, deploy_paxos_two | sends to a service that has exited panic; joins must end |
| lease lock (`leaselock.rs`) | server: last token and deadline; storage node: high-water mark, journal; writer: token, sequence number, phase | serve_one, handle_write, tick, handle | leases expire by a clock while their holder goes on writing; token and sequence counters are u64 |
| lease deployment (`lease_system.rs`) | turn counts per service | deploy_lease | the turn counts have to match, or a service waits for ever |
| two-phase commit by broadcast (`twophase_fanout.rs`, `system.rs`) | coordinator's slot and conjunction; participants | run_round, Participant::step, deploy | the early exit leaves votes in their channels |
| two-phase commit by remote call (`twophase.rs`) | the coordinator | run_round as atomic calls | proof-level only; the specification the broadcast form should meet |
| ping-pong and remote call (`pingpong.rs`; `Driven`, `rpc`, `absorb_handler`, `recv_abs` and `Out::call` of `proc.rs`) | the initiator's stage and flags, the two channels, the answer's send token | tick, handle, run; call | one call is two steps of two threads; by rpc the answer is on the machine's record and in no queue |
| ring election (`chang_roberts.rs`) | links, identifiers, leader flags | cr_step | overlapping elections; nothing may circulate for ever |
| heartbeat, lossy link, both at once (`heartbeat.rs`, `lossy.rs`, `compose.rs`) | sequence counter, log of beats, two machines | beat_and_wait, Watcher::step, two_increase, send_both, receive_one | what a watcher without a history may conclude; loss, repetition and reordering; the counter stops at its maximum in the middle of a pair of sends |
| collector (`collector.rs`) | a channel per producer, the last item | produce, collect_one | two sends claimed to be one atomic block while the consumer's scan passes between them |
| threads of one process (`multithread.rs`) | two participants | fork, join | a child that panics aborts |
| layers (`layer.rs`, `layers_demo.rs`) | none at run time | Refines, lift, refines_trans, Layered | whether refinements compose: hidden actions, gates that only the middle layer has |

The components interact in one way only: a service owns `Out` and `In`
endpoints, sends never wait, receives block on one channel (`recv`) or on many
(`recv_any`, `collect`). There is no shared memory. A receive is the only point
at which other threads can matter, which is the repository's own argument
(Lipton reduction); the models use it, see section 4.

What makes each of them correct:

- endpoints: what is received on a channel is what was sent, in order, and the
  witness a receiver conjures names a message really sent;
- mailbox: a call returns a message if there is one; nobody starves (refuted);
- Paxos: agreement, and that something is chosen although nobody retries;
- Paxos deployments: they return, and return a chosen value;
- lease lock: the journal is ordered by (token, sequence), has no holes, and
  every write in it comes from the writer the token was granted to;
- two-phase commit: commit exactly on unanimity, in every turn; everyone joins;
- ring: only the largest identifier leads, and if its election starts it does;
- collector and ping-pong: to the outside a turn is one atomic step;
- links: on either machine only its own protocol is seen, whatever the other
  does; a watcher that takes two beats knows their order;
- layers: two refinements put on top of each other are one, and what is missing
  where they are not is a gate of the middle layer.

The 37 places where this code can go wrong without a test noticing are listed
with their lines under `hazards` in PROJECT.json, each with the properties that
guard it.

## 2. Modules

| module | models | composes with |
|---|---|---|
| `NetSM` | the state machine of `tok.rs`; the protocol (`NetInv`) is its parameter: gate, guarantee, delivery, causes, history invariant | |
| `Endpoints` | the run-time: queues, tokens, witnesses, threads doing anything the API allows | refines `NetSM` |
| `MCEndpoints` | the lease lock's `NetInv` as the parameter, two writers, one channel allocated while running | |
| `Mailbox` | what a service may expect of `recv_any` | |
| `RecvAny` | `recv_any` probe by probe, with senders between any two probes | refines `Mailbox` |
| `Paxos` | acceptors, proposers and their channels, any number of both; a handler is one step | |
| `PaxosSteps` | the same program one endpoint call at a time: an acceptor between its log entry and its answer, a proposer between two receives | refines `Paxos` |
| `PaxosNet` | `impl NetInv for Paxos`: gates, causes, record invariant; the state of `PaxosSteps` as the machine sees it | `PaxosSteps` against `NetSM` |
| `PaxosSystem` | threads, budgets, main thread of the deployments | extends `Paxos` |
| `Consensus` | the abstract promise of Paxos: nothing chosen, then one value for good | |
| `LockHi` | the abstract lock server (`LockHi`, `LockAct`) | |
| `LeaseLock` | lock server, storage node, writers, an arbitrary clock | refines `LockHi` |
| `LeaseSystem` | the same driven for a number of turns, as `deploy_lease` | extends `LeaseLock` |
| `TwoPhase` | two-phase commit as a sequence of atomic remote calls | |
| `TwoPhaseFanout` | two-phase commit as broadcast and gather, deployed | refines `TwoPhase` |
| `ChangRoberts` | the ring | |
| `Hub` | what the collector's comments promise: atomic turns | |
| `Collector` | producers send by send, the consumer on the scan of `RecvAny` | extends `RecvAny`, refines `Hub` |
| `RemoteCall` | an atomic call | |
| `PingPong` | initiator and responder driven turn by turn, and the same exchange by `rpc` | refines `RemoteCall` |
| `HbTop` | the layer above the heartbeat: count and last number | |
| `Links` | heartbeat link and lossy link, served apart or by one service | refines `NetSM` twice, and `HbTop` |
| `MCExamples` | one behaviour per example: `demo` says which | `Collector`, `Links`, `PingPong` |
| `Layers` | what it is for one layer to refine another, over any two layers | |
| `LayerStack` | three layers, the two refinements and their composition | `Layers` three times |
| `LayersDemo` | the heartbeat as the bottom layer and `HbTop`'s state above it | `Layers` |
| `*Proofs` | theorems about the module they extend (`ExamplesProofs`: `RecvAny`, `Collector`, `PingPong`, `Links`, `LayersDemo`, `LayerStack`; `PaxosStepsProofs`: `PaxosSteps`, `PaxosNet`, `PaxosSystem`; `NetSMProofs` also states the trait's obligations as laws) | |

State and actions have the names of the code wherever they can. A variable
named after a channel (`p1a`, `wr_req`, `rsp`) is that channel's history and a
counter next to it (`n1a`, `nReq`, `got`) says how much of it has been received:
this is `NetSM`'s view of a channel and what `Endpoints` is shown to provide.
A message is a record with the fields the properties tell apart. Definitions
marked `mutant` are plausible mistakes; replacing the definition next to them by
one makes the named property fail, which is how each property is shown to be
about the code.

## 3. Runs

Twelve runs; times are for two workers.

| run | instance | distinct states | what it shows |
|---|---|---|---|
| `paxos_steps` | 3 acceptors, 2 proposers, 1 round each, one endpoint call per step | 201 653 (140 s) | handlers are atomic; every send is one the machine admits with the witnesses the program has in hand; the record invariant holds in mid-handler too; a value is always chosen |
| `paxos_three_ballots` | 3 acceptors, ballots (1,0), (1,1), (2,0) | 473 016 (70 s) | agreement over a chain of three ballots; commitments extend what is chosen |
| `paxos_deploy` | the four deployments of `main.rs` | 11 229 | they terminate, return a chosen value, and nobody writes to an exited thread |
| `paxos_second_round` | `deploy_paxos(3, 2)` | finding | see section 6 |
| `examples` | collector: 3 producers, at most 2 items in each channel; links: numbers to 3, 3 packets; ping-pong: to 3 turns a side, both conventions | 11 313 | the scan implements the mailbox, its liveness included; two sends are one atomic turn; two machines in one service do not disturb each other; the heartbeat implements its upper layer; a driven exchange implements an atomic call and one by rpc blocks |
| `mailbox_starvation` | 2 channels, at most 1 waiting in each | finding | see section 6 |
| `lease` | 1 to 4 writers, tokens to 3, sequence numbers to 4, clock 0..3 | 33 919 | serialization, one holder per token, no holes, refinement of `LockHi`; `deploy_lease` returns |
| `lease_superseded` | 1 or 2 writers, tokens to 2 | finding | see section 6 |
| `endpoints` | 4 threads, 4 channels and 1 allocated, 3 sends | 142 096 (75 s) | the queues implement `NetSM`; gates keep the history invariant |
| `double_open` | the same | finding | see section 6 |
| `two_phase` | 1 to 3 participants with any votes, 1 or 2 turns | 2 382 | commit exactly on unanimity, freshness, refinement, every join ends |
| `chang_roberts` | rings of 1 to 4 nodes, any order of identifiers, any set of starters | 8 437 | one leader, the largest; messages die within a lap; an election of the largest elects |

### Bounds and why they are enough

- *Paxos*: one round each is where all interleavings of two handlers, their logs
  and the two proposers' loops are; three acceptors are the smallest number with two different majorities
  that overlap in one. Two proposers can pre-empt each other between any two of
  their steps, and a third ballot is needed for a value to be learnt from the
  second and offered again. `LastRound` bounds the rounds; the proofs have no
  bound.
- *Lease*: with two writers a lease can be superseded; with three the storage
  node meets a chain of holders; with four the server is asked for one token
  more than there are (`MaxToken` is the u64 maximum in miniature). The clock is
  any value at every reading, backwards too, so four values around `LEASE = 2`
  give every comparison. `MCTurns` says how many turns each service takes.
- *Endpoints*: a write needs two earlier messages (the grant received, the write
  before it), hence three sends. One allocated channel shows freshness; two
  writers show that a witness held by the wrong thread does not help.
- *Collector*: three slots, so that the rotation passes over one; two items in a
  channel are one whole turn, or the end of one and the start of the next.
- *Links*: with the largest number 3 a sender comes to a standstill, also between
  the two sends of `send_both`; three packets can be lost, repeated and
  overtaken. Two beats are what `two_increase` compares.
- *Ping-pong*: more turns on either side than on the other, in both directions.
- *Two-phase*: the second turn is where stale votes matter; three participants
  leave more than one vote behind an early No. `deploy` takes one turn; further
  turns are what `Process::step` allows.
- *Ring*: four nodes give a message that passes two nodes and meets a larger
  third; a ring of one is its own predecessor.

### Deadlock

`paxos_deploy`, `paxos_second_round` and `mailbox_starvation` check for deadlock.
The other systems end or wait for good by design (a proposer out of rounds, a
writer that has written all it may, a silent ring, a heartbeat out of numbers, a
caller by rpc), and their cfgs say so; that they end in the right place is a
property (`EventuallyChosen`, `DeployLeaseReturns`, `EveryoneJoined`, `Elected`,
and the fairness in `ImplementsCall` and `ProduceIsAtomic`).

### Fairness

Weak fairness of each thread as a whole, nothing else: an operating system runs
a thread that can run, and a thread blocked in `recv`, `recv_any` or `join` is
an action that is not enabled. There is no fairness on messages (a queue does not lose
them) nor on which channel `recv_any` picks, which is a free choice of the
acceptor and the server. Starting an election and beginning a producer's turn
are not fair: nobody has to; a turn that has begun is finished. The links have
no fairness: a lossy link may lose everything.

## 4. What the models abstract

*Handlers are atomic in `Paxos`, `LeaseLock`'s server and the ring*: they receive
once, then compute, then only send. A send never blocks and nobody observes the
sender in between, which is the repository's argument from Lipton reduction. For
Paxos it is not left at that: `PaxosSteps` takes an acceptor's log entry and its
answer, and each receive of a proposer, as steps of their own, and
`StepsImplementPaxos` proves that every such behaviour is one of `Paxos`: the
handler happens where its answer goes out, until then its message counts as
unread and its log entry as unwritten. The proposer's loops, the storage node
(which answers after it has journalled), the coordinator, the participants, the
producers of the collector and both ends of a remote call are modelled send by
send or receive by receive.

*recv_any is a free choice among the waiting channels* in the service models.
`RecvAny` refines `Mailbox`, whose `Take` is that choice, so whatever holds of
the services under free choice holds with the real scan; what needs the scan's
actual priority is not claimed.

*Two reductions are for TLC only.* `EagerSteps` in `MCPaxos` lets sends, refusals
and unwanted promises go first in `paxos_three_ballots`. Sends commute to the
left past every step of another thread (they only make a channel longer), a
refusal changes nothing but a counter, and so does dropping a promise that does
not count. The properties of that run speak about what has been sent and
accepted, never about when, so they cannot tell the orders apart. `EagerSends`
in `MCPaxosSteps` does less: only the proposers' broadcast sends go first, while
every message waits as long as its receiver likes and the acceptors and the
collecting proposers interleave freely, in the middle of a handler too. The
proofs use neither.

*One machine, two views of a call.* `absorb_handler` performs the other side's
send with the token it took from the channel: in `PingPong` the answer appears in
the channel's history and not in its queue, which is what the code does. The
specification the repository reasons with (`recv_abs` "cannot block") looks at
the history; the receive that would run looks at the queue. `RpcBlocks` keeps
both in view. `TwoPhase` has the atomic calls such a program means.

*A protocol is a parameter.* `NetSM` knows nothing of a protocol; `MCEndpoints`,
`Links` and `PaxosNet` give it four (the lease lock's, the heartbeat's, the lossy
link's and Paxos's).
`PaxosNet` and `Links` instantiate it over the state of a running program, so
that the program's sends are checked against the gates and causes the source
states for them.

*Layers are formulas.* `layer.rs` has no state at run time. `Layers` states the
three obligations of `Refines` over two layers given as operators, and theorems
do what a run cannot.

*Ghost values*: `origin` and `hops` of the ring's messages are kept, because
`msg_ok` is about them; the Verus proof plumbing is not.

*Left out*: what is printed, the back-off of `recv_any` (it only sleeps),
memory for the queues. The panic of a send whose receiver has ended is not a state
of its own: for `PaxosSystem` (`NoSendToExited`) and `LeaseSystem` (`NoSendToDoneHolds`)
it is stated that no such send is made, in `TwoPhaseFanout` the coordinator is stuck at it and the deployment does
not end.

Some things a reader of the code may stumble over. Dropped endpoints: the
acceptors a deployment builds and does not start live until main returns, so
writing to them is safe, and `PaxosSystem` keeps them as channels nobody reads.
A proposer that is refused waits for ever; `EventuallyChosen` shows that the one
with the highest ballot is never refused, not that every round ends. The ring
has no initiator in `src/`; `Start` is external and stands for whatever puts a
node's identifier on its own link, as the gate demands.

## 5. Proofs

All are for arbitrary parameters: any number of acceptors, proposers,
participants, writers, threads, channels, nodes, layers, any protocol. They
assume what the
modules' named ASSUMEs say (sizes are positive, wiring goes to threads that
exist, boot names are not allocator names), which TLC evaluates in the runs.

**Paxos** (`PaxosProofs`): `TypeCorrect`, `AcceptorInvHolds`, `ProvenanceHolds`,
`CommitmentsBackedHolds`, `CommitsExtendChosenHolds`, `AgreementHolds`. Agreement is not
inductive. The strengthening `IInv` says that every commitment is *safe*: for
each lower ballot a majority has moved past it and voted there, if at all, only
for the same value. A safe value stays safe because acceptors' ballots only grow
(`SafeStable`). A new commitment is safe because each majority of promises
reports, for good, the highest acceptance below the ballot (`PromisesHold`), so
either nobody in it had accepted anything, or the highest report's own
commitment carries the argument down (`CommitSafe`). Gathered promises are for
the ballot in play (`GatheredPromises`) because the round's locals die with it.
Two chosen proposals then have a common voter (`QuorumsMeet`), and agreement
follows. That a commitment's quorum backs it for good (`CommitmentsBackedHolds`)
needs one thing more: an acceptor promises a ballot once (`PromisedOnce`), so the
promises counted are all there will ever be for that ballot.

`PaxosIsConsensus` puts agreement into one abstract specification: the set of
chosen values, as a state function of the record, behaves as `Consensus`, empty
and then one value for good. `GatheredMayCommitHolds` is about `gather_quorum`:
its fold over the reports always finds a value to commit. A highest report among
finitely many is a fact of induction, which the provers cannot instantiate; the
invariant (`HighestKnown`) carries it instead from one collected promise to the
next, so that the induction is over the steps.

**Paxos step by step** (`PaxosStepsProofs`): `StepsImplementPaxos`. The invariant
(`StepsInv`) says what an acceptor in mid-handler has in hand: a message it has
counted as received and will answer, and after the log entry a log that is one
entry ahead of its fields and answers. The step that sends the answer is the
whole handler above; the steps before it are stutters.

`RecordInvAlways` proves the eleven clauses of `record_inv`, and `history_inv`, of
every state in between. Where no handler is under way they follow from `IInv`
read through the refinement, plus what only the order of an acceptor's log tells
(the section *Order* of `PaxosProofs`: every report is the last acceptance before
its promise). In mid-handler the log has one entry more, and each clause
is shown of it separately, from the comparison the handler has made.
`OneCallHolds` proves that each step is one call of the token machine, at which
the gate and `caused_by` hold of exactly what the program hands over, and
that the witness it presents is one it holds.

**Paxos deployments** (`PaxosStepsProofs`): `DeploymentsArePaxos` carries
everything above over, `DeploymentsAreConsensus` included. The rest is counting:
of each acceptor's 2 * rounds turns, those it has had plus the messages still on
their way make exactly what the leader has sent (`DeployInv`). Hence a send never
finds its receiver gone (`NoSendToExitedHolds`), and when main has joined the
live acceptors all Accepts have been handled; no ballot being higher, all
were accepted, so what main returns is chosen (`ReturnsChosenHolds`).
`DeploymentsNeverStick` says that until main returns one of the threads has a
step to take, provided a majority is live, which `deploy_paxos` requires: a
leader that waits for promises has not counted some live acceptor, and whatever
that one has not answered it has not read (`AnswersInv`). `DeploymentsEnd` bounds
the executions: every step takes the leader or a live acceptor one turn or one
message further and nothing back, and there are `rounds` messages of each kind on
a link, `rounds` decisions and 2 * rounds turns of an acceptor, no more.

**Token machine** (`NetSMProofs`): histories and witnesses agree, the record is
complete, allocated names are fresh (`MachineInvariants`); what a receiver may
conclude is true (`ProtocolInvHolds`, from the trait's lemma that the gate gives
it); everything has its cause (`ProvenanceHolds`). The other lemmas the trait
asks of a protocol are written down as laws (`GateLaw`, `RecordInitLaw`,
`RecordSendLaw`, `CauseLaw`, `PairLaw`), and from them follows, for every
protocol, what the source's library derives: the invariant over the record
(`RecordHolds`), what a caused message tells its receiver (`CausesGive`), and
what two messages tell a receiver that has no history (`PairsGive`).

**Run-time** (`EndpointsProofs`): `EndpointsImplementNetSM` proves of the model of
the trusted primitives what the repository assumes of them. The invariant: the
one queue of a channel is what was sent and not received (`QueueHoldsTheRest`),
and the thread holding the sending end holds a witness for every position of
the history. Hence the witness that `recv` makes up (`assume_new`) is one its
sender already holds, and a receive is a `do_recv` of the machine. It needs that
the protocol lets the next position be delivered (FIFO and weaker).
`HistoryInvHolds` turns the three obligations of the trait (`InitLaw`,
`AllocLaw`, `SendLaw`, with the justification and the agreement of witnesses as
the trait states them) into the protocol's invariant over all histories;
`JustificationHolds` and `OpenedOnce` complete the picture.

**Two-phase commit** (`TwoPhaseProofs`): `CommitIsUnanimous`,
`CommitLeavesNothing`, `FanoutImplementsCalls`. A stale vote is harmless because
it is its participant's vote (`Honest`, the gate), and one can only be left
behind if somebody votes no, in which case no turn commits (`NothingLeft`).
`NobodyWaits`: until every thread has returned, the main thread or the participant
it waits for has a step to take; a request never goes to a participant that has
ended (`Running`), which would be a panic. `TurnsRunOut`: every step uses up a turn or a
message, of which there are as many as rounds for each participant.

**Lease lock** (`LeaseProofs`): `TypeCorrect`, `ServerImplementsLockHi`,
`SerializedHolds`, `HoldersHold`, `OneHolderHolds`, `RefusedFromThenOnHolds`,
`KnowledgeHolds`, `NoGapsHolds`, `WriterKnowsHolds`, and `DeploymentIsLeaseLock`,
which carries all of them over to the deployments. The invariant has four parts.
The high-water mark is the last entry of the journal (`MarkIsLast`), so the
journal is ordered. A token on its way or in use has one holder, the writer it
was granted to (`Holders`). A writer has one message under way at most
(`Flow`): its request is in the queue, in the storage node's hand, or answered
(`InQueue`, `InHand`, `Replied`), and what it has counted differs from what it
has sent by exactly that one. With one message under way a refusal can only mean
that the mark has passed the writer's token, and the mark never falls
(`Refusals`). What the writer counts as written is what the journal has of it
(`Knowledge`), without a hole. The clock does not occur in the argument: leases
overlap as they like, and the tokens carry the proof.

For `deploy_lease` (one writer) three more hold whenever its counts match
(`CountsMatch`: one acquisition, n writes, n + 1 turns of the writer, and n within
the sequence numbers; main.rs has n = 4). `LeaseNeverSticks`: until all three
services are done one of them can take a step. `LeaseAcceptsHolds`: when they are
done every message has been received and the last write was accepted.
`NoSendToDoneHolds`: nobody sends to a service that has had its turns.
`LeaseEnds`: each step of the three services is one unit of progress (`Done`), and
n writes take 4n + 3 steps at most, whatever the order they are scheduled in. The
invariant (`Solo`) follows the one writer: before the grant the server still has
a turn and a token to give; afterwards every write is numbered with the turn it
belongs to and is above the mark, so it is accepted.

**Mailbox, collector, remote call** (`ExamplesProofs`): the safety half of each
refinement. `ScanIsAMailbox`: the scan takes the head of some waiting channel,
for any number of channels. `TurnsAreAtomic`: the two sends of a producer may be
taken as one step of `Hub`, though the consumer can pass between them; what is
collected or waiting, read in pairs, is whole turns and at most one first half.
`CallsAreAtomic`: a driven exchange is one step of `RemoteCall`, and
`RpcBlocksHolds`: by rpc the answer never reaches the queue, since the token it
was sent with has been used up.

**Links and layers** (`ExamplesProofs`): `LinksImplementMachines` and
`LinksImplementHbTop` for any number of packets and any largest number, and
`WatcherKnowsHolds`. `HeartbeatRefinesTop` is the refinement of `layers_demo.rs`
for any set of channels. `RefinesTrans` is `refines_trans` of `layer.rs`: two
refinements give the obligations of the composed one for an action, with the
side condition (`MiddleSafe`) that an action seen in the middle and hidden at the
top passes the middle gate; `StackRefines` has that condition of every step from a
state of the invariant and concludes that the stack is a refinement (invariant,
gates and steps), the steps absorbed on either level included.

**Ring** (`ChangRobertsProofs`): `LeaderIsLargest`, `OneLapHolds`, `MsgOkHolds`.
The invariant uses the distance of a message from its origin and the set of
nodes between the two, which it dominates; back at its origin that is
everybody. A message that would complete the lap meets its own identifier and is
not forwarded, so the distance stays below the size. The modular arithmetic of
`msg_ok` is derived at the end. `LargestIsKeptHolds`: once the largest node has
started, its message is on some link or it leads; no node drops it.

*Liveness* is beyond the prover, and so is ENABLED. What can be proved of it is
that no reachable state is a dead end, and that is done for the four systems that
have to come to an end: `DeploymentsNeverStick` (for `Terminates`),
`LeaseNeverSticks` and `LeaseAcceptsHolds` (for `DeployLeaseReturns`),
`NobodyWaits` (for `EveryoneJoined`) and `LargestIsKeptHolds` (for `Elected`). They
spell out the guards of the actions where a run would ask ENABLED. For the first
three it is proved as well that no execution is infinite (`DeploymentsEnd`,
`LeaseEnds`, `TurnsRunOut`), so all that their liveness adds is that a thread that
can run is scheduled in the end.

Only model-checked, not proved: `EventuallyChosen`, `Terminates`,
`DeployLeaseReturns`, `EveryoneJoined` and `Elected` themselves, and the fair parts
of `ImplementsMailbox`, `ProduceIsAtomic`, `ImplementsCall` and `ImplementsCalls`.
Every invariant and every safety property that a run checks and the code
satisfies is a theorem.

## 6. Where the code and its documentation differ

- `mailbox_starvation`: `recv_any` keeps its rotation in a local, so every call
  starts at slot 0; its comment says that a busy peer cannot starve the ones
  after it. It can.
- `paxos_second_round`: the comments in `main.rs` and `paxos_system.rs` say that
  the second round finds 42 accepted. Nothing makes the proposer or the acceptors
  wait, so 99 can be committed and chosen. Agreement is not touched.
- `lease_superseded`: the comment says that a superseded writer's *next* write is
  refused. It is refused only once the new holder has had a write accepted.
  Serialization is not touched.
- `double_open`: `make_endpoints` gives its tokens back and so can be called twice
  for one channel by code that keeps them. `open_channel` and `mint` keep the
  tokens to themselves, and for them the claim is a theorem (`OpenedOnce`).

## 7. Not modelled

- An endpoint that is dropped, at the level of `Endpoints`, which keeps its
  endpoints. A send to a closed channel is an `unwrap` that panics. No deployment
  gets there: `NoSendToExited` (Paxos), the theorem `NoSendToDoneHolds` (lease),
  and `Running` under `EveryoneJoined` (two-phase commit: the coordinator's
  endpoints live until `deploy` returns, a participant's until its last turn).
  `FanOut`, `FanIn` and `Inbox` are the slots and counters of the models that use
  them and have no module of their own.
- The abort of `multithread.rs` when a child panics: a panicking participant is
  not part of any protocol. Its threads and joins are those of `TwoPhaseFanout`.
- The back-off of `recv_any`: it sleeps between two scans and changes nothing.
- The proof-only parts of `layer.rs` beside the refinement order: they are
  arguments of Verus proofs.
- `attic/`, `spike/` and `counterexamples/`: superseded or experimental code and
  code that must not compile. `double_open` takes its scenario from the last.

## 8. Plan

Done, in this order: Paxos and its agreement; its deployments; the mailbox; the
lease lock; the run-time and the token machine; two-phase commit; the ring; Paxos
step by step on the token machine; the links, the collector, ping-pong and remote
call; layers; the proofs about the lease lock; the proofs about the record
invariant, the deployments and the examples; consensus.

Next, models:

1. `FanOut`/`FanIn`/`Inbox` and dropped endpoints in `Endpoints`, so that a send
   to a closed channel is an outcome there and not a property above.
2. The lease lock and the ring seen by the token machine, as `PaxosNet` does for
   Paxos.

Next, proofs: the record invariant of Paxos a second time from the library's own
argument, `PaxosNet` meeting the laws of `NetSMProofs` (it is proved directly of the
program now); the history laws of the lease and ring protocols as instances of
`HistoryInvHolds`.
