# A TLA+ verification of viewstamp

viewstamp is a Viewstamped Replication library in Rust: a sans-I/O consensus
endpoint (`viewstamp-proto`), a runtime-neutral driver (`viewstamp-driver`), two
runtime bindings (`viewstamp-compio`, `viewstamp-reactor`) and a facade crate
(`viewstamp`). This directory models the endpoint with its storage, checkpoints,
state transfer and reconfiguration, the transports, and the driver's client side.
TLC checks the models on small instances, and TLAPS proves some of their
properties for every instance. Paths below are relative to
`src/viewstamp-proto/src/` unless they say otherwise.

## 1. Inventory

### Parts of the system

| Part | Source | State it owns | Operations | Module |
|---|---|---|---|---|
| Normal operation | `endpoint/normal.rs` | log, `op`, `commit_min`, `commit_max`, `inflight` votes, client sessions | `on_request`, `on_prepare`, `on_prepare_ok`, `on_commit`, heartbeat, retransmission | `VsrReplica`, `Vsr` |
| View change | `endpoint/view_change.rs`, `forfeit.rs` | `status`, `view`, `durable_view`, `log_view`, StartViewChange and DoViewChange collections | suspicion, joining, selection of the canonical log, leading, adopting, catch-up probe and its revert, forfeiting | `VsrReplica`, `Vsr` |
| Repair | `endpoint/repair.rs` | `repair` holes, `nack_from` | requesting and serving bodies, filling, nack truncation | `VsrReplica`, `Vsr` |
| Recovery | `endpoint/recovery/mod.rs` | everything, rebuilt from storage | restart, classification of slots, RecoveringHead, Recovery; checkpoint read, retry, fetch from a peer | `Vsr` (log), `StateTransfer` (checkpoint) |
| WAL and roots | `storage/session/mod.rs`, `endpoint/checkpoint.rs` | writes in flight, deferred appends, roots in flight and parked | append, truncate, root and envelope writes, completions | `VsrReplica` (WAL), `StorageSession` (roots) |
| Checkpoints and GC | `endpoint/checkpoint.rs` | `checkpoint_op`, pending checkpoint, prune floor | capture, materialize, envelope, root, prune, block collection | `StateTransfer` |
| State sync, block sync | `endpoint/state_sync.rs`, `block_sync` | sync intent, block fetch, pending install | request, serve, pin, walk, fetch, install | `StateTransfer` |
| Block jobs | `block_job.rs`, `storage/session/lane.rs` | the lane's queue | submit, hand out, complete, disown | `StorageSession` |
| Membership, planner | `membership/mod.rs`, `reconfigure_plan/mod.rs` | none | quorums, `apply_delta`, `validate_structure`, `plan_reconfiguration`, `shrink_candidates` | `Quorums`, `Membership`, `ReconfigurePlan` |
| Live reconfiguration | `endpoint/reconfigure.rs`, `endpoint/mod.rs`, driver `reconfigure` | proposals, proofs, pending swap, the executor's step | propose, prove, commit, swap, advance | `ReconfigureLoop` |
| Stream transport | `transport/{router,coordinator,conn,labeled,frame}`, compio `stream_driver` | connections, bindings, dials, partial frames | dial, accept, validate, supersede, route, reap, reconcile, reassemble | `PeerLinks`, `FrameStreams` |
| QUIC transport | `transport/quic/{mod,bridge,table,conn}`, compio `driver` | connection table, routes, streams | the same over QUIC, eviction, draining | `QuicLinks`, `FrameStreams` |
| Client side | driver `aggregate`, `session`, `handle`, compio `driver` | queue, budgets, pending table, command channel | submit, pack, demultiplex, cancel, retransmit, retire, shut down | `Aggregator`, `ClientDriver`, `InflightBudget` |

`PROJECT.json` lists every part with its files, its status and what is left out.

### How they interact

The driver calls the endpoint with one message, timer or storage completion at a
time; the endpoint mutates its state, submits WAL appends, superblock roots and
block jobs, and queues messages that the transport sends after the call. What it
submits completes later, in calls of its own. A reply to a vote is therefore
always two calls: submit, and completion. The transport follows the
configuration the endpoint has installed; the client side sees the endpoint
through its committed events.

### Behaviours that are hard to test

The message handlers run atomically; what interleaves is everything between
them: messages lost, duplicated, delayed and reordered; a view raised in memory
while its root is still being written; appends and roots of an older view that
complete in a newer one; crashes that keep, lose or tear what is in flight;
checkpoints, transfers, view changes and epoch swaps that compete for one
superblock and one block worker; members that change slots while votes,
connections and dials refer to them; callers that race a shutdown. The
repository's simulator has the same fault model (`src/README.md:194-210`). The
hazards of `PROJECT.json` name each at its line.

## 2. Modules

| Module | What it is |
|---|---|
| `Quorums` | quorum sizes and the primary of a view |
| `VsrReplica`, `Vsr` | one replica's state and functions; the cluster with network, storage and crashes |
| `ReplicatedLog` | the abstract specification of `Vsr`: one growing log of distinct requests |
| `StorageSession` | the root timeline, the envelope write and the block-job lane of one replica |
| `StateTransfer` | checkpoints, state transfer, the durable epoch swap and restarts of one backup |
| `Membership`, `ReconfigurePlan` | configurations and deltas; the planner |
| `ReconfigureLoop` | a reconfiguration from target to installed successor: the executor and the primary's endpoint |
| `PeerLinks`, `QuicLinks` | one node's connections over streams and over QUIC while the configuration changes |
| `FrameStreams` | frame reassembly of one connection over either transport |
| `ClientDriver`, `Aggregator`, `InflightBudget` | the way of a request through the driver, alone and batched, and the two-counter budget |
| `Sums` | the sum of a function over a finite set |
| `MCVsr`, `MCDriver`, `MCNode`, `MCProgress` | instances for TLC; `MCProgress` adds fairness and the liveness properties |
| `VsrReplicaProofs`, `VsrViewChangeProofs`, `VsrHandlerProofs`, `VsrProofs` | the durable-view discipline of `Vsr`, proved |
| `ReconfigureProofs` | votes and quorums across swaps, and promotions, proved |
| `DriverProofs`, `AggregatorPackProofs`, `AggregatorProofs` | the budgets and outcomes of the client side, proved |

### The replication core

`st[r]` is a record with the `Endpoint` fields that consensus reads, under their
names, and with `r`'s storage:

* `root` is the durable superblock root, `roots` the roots in flight: the first is
  at the device, a second one is queued behind it and is replaced by a newer one.
  Each carries the `PendingSbAction` that runs when it lands, or none if a later
  transition abandoned it.
* `wal` is what the WAL holds, `writing` what is at the device, `deferred` the
  appends behind the slot fence, each with its `Pending` continuation.
* `outgoing` and `events` collect what one call sends and applies. `Finish` empties
  them: they are always empty between steps. `panicked` records a failed `assert!`.

A log entry is the identity of its request (`prepare_identity`) and whether its
body is present; a request stands for the client, the number and the bytes. A
DoViewChange or StartView carries identities without bodies, as in the code.
`clients` is the set of requests a session watermark covers, `replied` those
with a cached reply. `nonce` counts restarts and plays the recovery nonce.

`msgs` is the set of all messages ever sent, which gives loss, duplication,
delay and reordering at once. `applied` is a history variable: every op any state
machine executed. A batch is one message per entry, delivered independently: more
behaviours than the code's, which delivers the entries of one batch together.

Every action is a whole handler with the functions it calls: `OnDoViewChange`
records the replica's own claim, then the sender's, and at the quorum runs
`start_view_as_new_primary` to its end, including the truncation, the session
rebuild and the root write. `OnPrepareHeld`, `OnPrepareReappend`,
`OnPrepareNext`, `OnPrepareGap` are the disjoint branches of `on_prepare`, and
`FillRepair` its early exit. `RootLands` and `WalDone` are `on_sb_done` and
`on_wal_done`. `CrashRestart` chooses what storage kept and runs recovery to its
conclusion. A message that the code drops has no action.

### Checkpoints, state transfer and the durable swap

`n` is one backup with its storage session `n.d`. Operators named after methods
take `n` and return it after the call; one action stands for each message handler,
timer, storage completion and block completion. The rest of the cluster is the
environment: it sends any message a correct cluster could, in any order, late or
twice. A checkpoint is its op number; its blocks are a small graph. What is
modelled is the control: which of a checkpoint, an install, a swap and a view
change may use the superblock, what each completion finds when it comes back, what
a crash leaves, and what a restart does with it. A catch-up that nobody validates
is reverted (`RevertCatchUp`, `endpoint/view_change.rs:150-228`); the windows it
waits are the timer's, so the revert may come at any time. `n.stranded` is a
history variable: a swap has been staged in a settled view with the superblock
idle, the state that conjunct (7) of `assert_invariants`
(`endpoint/mod.rs:3570-3594`) excludes and that section 5 reaches. `n.budget`
holds the bounds of one behaviour, the jobs that may fail in it and whether a
catch-up may be reverted. WAL appends are durable at once here; `Vsr` has them in
steps.

### Reconfiguration

`ep` is the endpoint of the node that drives a reconfiguration, `job` the
executor's state. `Advance` is one poll of `run_reconfigure`: it plans again from
the live configuration, proposes, waits or ends. The votes are bit sets over
slots, as in the code; `acked`, `holders`, `came`, `frontier` and `sound` are
history variables that say which member is behind a vote, who held the operation
that installed a configuration, and what a learner really holds. An entry starts
without votes: the primary's own comes when its append is durable
(`record_own_vote`), like any acknowledgement. Other primaries may commit
reconfigurations of their own, and leadership may come and go.

### Transports

`lk` and `qk` hold a node's connections in the order of their ids, with the
driver's and the router's record of each in one. A scenario gives the deltas that
will commit, the address book and its changes, and who calls in. `reconcile_routing`
runs in the tail of the handlers that run it in the code, so a configuration is
installed before it is reconciled. In `FrameStreams` a stream is the sequence of
its frames' lengths, and a decoder is how many bytes it has and which frames it
has decoded and handed on; bytes arrive in every possible cutting.

### The client side

`ClientDriver` has the caller's half (`Handle::submit` up to the send, and its
cancellation at every await), the command channel, the run loop with its pending
table and retransmissions, and the teardown in the order of the code. The cluster
is external: it executes the requests of one session in order. `Aggregator` puts
the batching pump on top: its bodies are submits of `ClientDriver`. In
`InflightBudget` each atomic operation of `try_acquire_many` and of the guard's
drop is a step of its own.

## 3. Runs

`CHECK_DEADLOCK FALSE` is right in every run: a node with nothing to do stops,
because requests, targets, changes and faults are finite.

| Run | Instance | Properties | Distinct states |
|---|---|---|---|
| `two_ops` | 2 replicas, 2 ops, 1 view change, all timers, slow storage | `TypeOK` `AtMostOnce` `LogRefinement` | 45,548 |
| `two_crash` | 2 replicas, 2 view changes, all timers, one crash in any view, torn appends, lazy truncation | `Agreement` `CommittedDurable` `DurableViewInv` `DurableViewBeforeParticipate` `NoPanic` `VotesAreFinal` | 180,080 |
| `two_rot` | 2 replicas, one crash with rotten slots, self-addressed messages delivered, catch-up probes that give up | `Agreement` `CommittedDurable` | 114,532 |
| `three_crash` | 3 replicas, one suspects, another crashes | `Agreement` `CommittedDurable` | 113,748 |
| `driver` | three direct calls; three batched callers; three threads reserving; seven peers' streams | `TypeOK` `BudgetExact` `OutcomeTruthful` `NoneStranded` `QueueBudgetExact` `VerdictTruthful` `OneInFlight` `FirstComeFirstPacked` `HeldWithinBudget` `NoLeak` `FramesWhole` | 1,086,140 |
| `node` | the parts of one node, in 26 scenarios | see below | 422,297 |
| `progress` | five parts under fairness | `CallsAnswered` `JobsFinish` `TransfersEnd` `PeersReached` | 49,833 |
| `genesis_restart` `stale_start_view` `revert` | section 5 | `Agreement` or `CommittedDurable` violated | |
| `swap_stranded` `satisfied_crossing` | section 5 | `SwapStagedUntilInstalled`, `SatisfiedCrossingRetired` violated | |

`MCDriver`, `MCNode` and `MCProgress` put parts side by side that share no state:
`part` is chosen at the start, that part runs, and the others stay where they
are. The states of such a run are the sum of its parts, not the product.

### Replication core

* `Agreement`: no two replicas apply different requests at one op.
* `AtMostOnce`: no request is applied at two ops.
* `LogRefinement`: what the replicas apply is a behaviour of `ReplicatedLog`.
* `CommittedDurable`: an applied op is in the stable storage of a replication
  quorum, for ever. This is what makes the next view change safe, and it is
  violated earlier, and in smaller instances, than `Agreement`.
* `DurableViewBeforeParticipate`: a message that speaks for a view
  (`advertises_authoritative_view`) comes from a replica whose durable root has it.
* `VotesAreFinal`: after a DoViewChange for a view a replica leads, acknowledges
  and votes in no older one.
* `DurableViewInv`: the discipline that implies the former two, replica by replica.
* `NoPanic`: no release-mode `assert!` of the modelled handlers fails.

### One node beside its log (`node`)

* `NeverPanics`, `EndpointInvariants`: no assertion of the checkpoint, transfer,
  recovery and storage-session code fails, and what `assert_invariants` says holds
  between any two calls, whichever of checkpoint, install, swap, view change, revert
  and restart meet. Two assertions, the one on a staged swap and the one on a swap
  root that lands over a staged install (`endpoint/checkpoint.rs:463-466`), are
  excepted once a swap was stranded.
* `Recoverable`: the durable root's envelope is stored, its blocks are flushed,
  and every applied op above it is in the WAL, at every moment a crash can choose.
* `ReconfigurationKept`: a committed reconfiguration is staged until it is
  installed, through view changes that abandon its root, crashes, transfers and
  checkpoints that overtake it. The exception is a swap that was stranded, by a
  reverted catch-up or a failed flush; nothing else loses one (section 5).
* `AnswersSound`: a checkpoint this node offers is one it can deliver, with the
  configuration the cluster had there, unless a swap was stranded before.
* `PlanReachesTarget`, `ToleranceKept`: every configuration the executor meets has
  a plan that ends at the target, and no step on the way tolerates fewer crashes
  than both ends.
* `VotesFollowMembers`, `SuccessorRemembers`, `PromotedHoldsLog`: votes stay with
  their members through swaps, an installed configuration's view-change quorums
  know the operation that installed it, and a learner is promoted only while it
  holds the log.
* `RoutingSound`, `LinkKept`: after any sequence of configurations, connects,
  losses and evictions each validated peer is routed over exactly one connection
  under the slot it holds now, and every member with a known address has a dial.

### The client side and the streams (`driver`)

* `BudgetExact`, `QueueBudgetExact`, `NoLeak`, `HeldWithinBudget`: the budgets are
  what is alive, whichever way a request ends and however the counters interleave.
* `OutcomeTruthful`, `VerdictTruthful`: a reply means executed, and a refusal means
  never sent, so that it may be retried.
* `NoneStranded`: nobody waits for a run loop that is gone.
* `OneInFlight`, `FirstComeFirstPacked`: bodies enter the session one after the
  other, and units in the order they were queued.
* `FramesWhole`: what is delivered is whole frames, in order, from a validated
  peer; nothing that arrived stays behind, and the close cause tells a torn frame
  from a clean end.

### Bounds

In `Vsr`, `MaxOp`, `MaxView` and `MaxCrashes` cap the counters; `MaxView` is a guard
of `Finish`. The other constants choose a slice of the environment: `Timers` the
timers that fire, `Suspicious` who times out on the primary, `Slow` whose storage
completes late (the others complete before the next message is handled),
`Crashers` and `CrashViews` who crashes and when, `Loopback`, `TornWrites`,
`BitRot` and `LazyTruncate` the kinds of fault. With everything switched on the
state space is out of TLC's reach for three replicas, so each run switches on
what its question needs. Two replicas have a commit quorum of 2 and a view-change
quorum of 1: every overtaking of view changes, roots and appends shows there.
Three are needed for quorums that share a single replica and for nacks. One op
suffices for a conflict at an op; two are needed for order, holes and retries.
`CatchUpWindows` scales `CATCH_UP_VALIDATION_WINDOWS` from 3 to 1: the code only
counts it down. The theorems of section 4 hold for every choice.

In `StateTransfer` a behaviour's `budget` bounds the ops (1 to 3), view changes (at
most 1), restarts (at most 1), the checkpoints donors hold and the op that
reconfigures. Three of the ten budgets allow the revert: with a transfer and a failing
restore, with a donor's duties, and with a crash; the others do without
it to keep the run short. A checkpoint every op (`CheckpointOps` 1) and a ring of two
(`WalCapacity` 2) make checkpoints, wrap-around and lagging past the ring happen
within two ops. In `ReconfigureLoop` a scenario bounds the client operations, views,
foreign proposals and refusals; targets grow, shrink, swap a voter, remove the
driving node and reach both caps (`MaxVotingReplicas` 4, `MaxNodes` 5). The link
scenarios have at most two deltas, one change of address and two accepts: a member
can shift to another slot, leave, and come back at another address. Caps of 3
connections, 1 in quarantine and 2 per peer are reached. Streams have up to three
frames of up to 3 bytes with caps of 1 before and 2 after validation, so the last
length is always over the cap.

Every property of every passing run has a mutant: a plausible slip in one
definition (such as a dropped guard, a vote counted twice, a reset that forgets a
field) which TLC must catch under the run's own configuration.

### Fairness (`progress`)

A step that is not named is never forced: no client submits, nothing crashes, no
configuration changes, no message arrives. Weak fairness is on what a running node
does by itself: storage and the block worker answer, the loop polls the executor,
the pump and the command channel, timers fire again, dials complete. Strong
fairness is on a donor's answer to a request that is repeated for ever
(`handle_timeout` re-solicits), because one answer can be lost but not all.

Three assumptions are of the form "from some time on", the usual partial
synchrony: `Timely` (no job or read fails any more, and a donor's answer does not
overtake the walk before it), no expiring round of health proofs, and `Lossless`
connections. They are needed: a checkpoint that arrives in the middle of every
walk re-pins the fetch each time (`begin_block_sync`,
`endpoint/state_sync.rs:1370-1421`), and a probe round that always expires never
proves a quorum. In each part behaviours that satisfy all the fairness conditions
exist, so the properties do not hold for lack of any.

* `CallsAnswered`: every request handed to the driver is answered, directly or
  batched, through losses, retirement and shutdown.
* `JobsFinish`: a reconfiguration the primary drives ends with its target reached.
* `TransfersEnd`: recoveries, transfers and staged swaps end. Its scenarios leave
  out what section 5 is about: the message of a later epoch, reverts and captures
  that fail. A stranded swap would wait for the next commit.
* `PeersReached`: once connections hold, every member with a known address is
  routed to, for good.

The replication core has no liveness run. A weak-fairness condition on each
handler makes TLC evaluate ENABLED for every action over every message in every
state, which is infeasible on this model.

## 4. Proofs

| Theorem | Module | Statement |
|---|---|---|
| `TypeCorrect` | `VsrProofs` | `Spec => []TypeOK` |
| `Discipline` | `VsrProofs` | `Spec => []DurableViewInv` |
| `DurableBeforeParticipate` | `VsrProofs` | `Spec => []DurableViewBeforeParticipate` |
| `VoteFinality` | `VsrProofs` | `Spec => VotesAreFinal` |
| `VotesFollow` | `ReconfigureProofs` | `RcSpec => []VotesFollowMembers` |
| `InstalledRemembers` | `ReconfigureProofs` | `RcSpec => []SuccessorRemembers` |
| `PromotionsSound` | `ReconfigureProofs` | `RcSpec => []PromotedHoldsLog` |
| `BudgetHolds`, `BudgetNeverLeaks` | `DriverProofs` | `BudgetSpec => []HeldWithinBudget`, `[]NoLeak` |
| `DriverTypeCorrect` | `DriverProofs` | `DirectSpec => []DriverTypeOK` |
| `DriverBudgetExact`, `DriverOutcomesTruthful`, `DriverStrandsNone` | `DriverProofs` | `DirectSpec => []BudgetExact`, `[]OutcomeTruthful`, `[]NoneStranded` |
| `AggregatorTypeCorrect` | `AggregatorProofs` | `AggSpec => []AggTypeOK` |
| `AggregatorBudgetExact`, `AggregatorVerdictsTruthful`, `AggregatorOneInFlight` | `AggregatorProofs` | `AggSpec => []QueueBudgetExact`, `[]VerdictTruthful`, `[]OneInFlight` |
| `AggregatedDriverSafe` | `AggregatorProofs` | `AggSpec => [](BudgetExact /\ OutcomeTruthful /\ NoneStranded)` |

### The durable-view discipline

Proved for every `N >= 2`, every set of requests, every bound and every choice
of timers and faults, from `ConstantsAssumption` and `EnvironmentAssumption`
alone.

`DurableViewBeforeParticipate` is not inductive: nothing in it says why an append
that completes, or a root that lands, may send a message for the view in memory.
`DurableView` supplies this for one replica:

* the durable root, the root at the device and the queued root are in view order,
  and none is ahead of the view in memory (`RootsOrdered`);
* only the newest root has a continuation, and it holds the current view
  (`RootAwaited`), so a continuation always finds its own view durable;
* a replica changing views has no op under vote and owes no acknowledgement: this is
  what `reset_for_view_transition` establishes;
* an acknowledgement is owed, and a request admitted, only in a durable view.

`IInv` is `TypeOK`, `DurableViewInv` and `DurableViewBeforeParticipate`.
The proof is layered. Most functions of the endpoint touch neither view nor root
and send nothing that speaks for a view; `Quiet(s, t, K)` says so, and names the
kinds of append the function submits. `Quiet` composes, and `QuietGood` turns it
into preservation of the discipline `Good`. The functions that do change a view
or speak for one have a `...Good` lemma each (`VsrReplicaProofs`,
`VsrViewChangeProofs`). `FinishShown` lifts one replica's `Good` to the cluster: it
is where messages and votes of earlier steps are related to the new durable view.
One lemma per action (`VsrHandlerProofs`, `VsrProofs`) and `NextShown` complete the
induction.

### Votes and quorums across swaps

Proved for configurations of every size, any targets and any sequence of proposals
of a delta (one member added, promoted, demoted or removed), commits, swaps, view
changes and foreign reconfigurations, from `StartStructured` alone: the first
configuration has passed `validate_structure`.

Neither `VotesFollowMembers` nor `SuccessorRemembers` is inductive. A swap rekeys
votes by looking members up in the old configuration and their slots in the new
one, which is only right when both have distinct members and the successor comes
from the predecessor by a delta; and the commit rule of a shrink is about the
successor's voters, before it is installed. `EpInv` says:

* the live, staged and inherited configurations and the successor in every log
  entry are `Structured`: distinct members, and voters within the list;
* the votes of every uncommitted entry are slots of the live configuration, and
  their members acknowledged the entry and vote (`EntryOK`);
* the members that held the last reconfiguration, with the one it promoted, meet
  every view-change quorum of the configuration committed to last (`Covered`), staged
  or installed.

`RekeyCasters` shows that rekeying keeps exactly the casters that vote in the
successor, and `DeltaStructured` that an accepted delta keeps a configuration
structured. `CommitCovers` is the counting argument: a commit has a quorum of the
old configuration and, when `shrink_successor_quorum_met` is asked, of the new, so
that fewer than a view-change quorum of the successor's voters lack the operation.
One lemma per action and `StepInv` complete the induction.

`PromotedHoldsLog` is an invariant of its own, `ProofInv`: what the endpoint has
recorded of a learner's log, and every answer on its way, is at most what the learner
holds. A challenge to another learner starts from nothing, so it must forget the proof
and the answers, and a swap and a view change forget them too. A promotion is
accepted on a proof that covers the head, hence while the learner holds the head.

### The in-flight budget

Proved for any finite set of threads and any limits, counts and sizes
(`BudgetAssumption`). `NoLeak` is inductive once the threads that are between the
increment and the decrement of each counter are named; `HeldWithinBudget` is not: a
counter may be above its limit while a thread that is about to be refused has raised
it. `BudgetInv` adds `SawAll`: of any threads that have raised the count and not
lowered it, one (the last to raise it) saw a count that covers all of them. Applied to
the threads that hold a reservation, each of which saw a count within the limit, it
bounds what they hold. Sums are cardinalities of sets of units
(`Sums`), because a sum defined by recursion over a set would need induction over data.

### The driver and the aggregator

Proved for any finite set of submits, any capacity of the channel and the budget
(`DriverAssumption`), and for any finite set of callers with entries of any weight,
any packing and queue limits (`AggregatorAssumption`, which also gives the driver a
submit for each body). `DirectSpec` has callers that submit through the handle, and
may drop a submit at any await; `AggSpec` has the pump as the only caller.

`DriverInv` says where each submit is (`Places`): at most once in the command channel,
without a number, or in the pending map under its own number, and one that waits is in
one of them. `Endings` says what the end of the loop leaves: the map is empty once the
loop no longer runs and the channel once it has stopped, which is what the order of the
teardown is for; and that `ReplyDropped` and `Retired` are told only by a loop that has
left and a session that is retired. The three properties follow and are not inductive
without them.

`AggInv` follows an entry: it is in the queue, deferred, in the open body, or in a
body that was handed over, in one of them at a time, and in one body ever; only the
last body can still be with the driver, and the earlier ones have an outcome; an
entry's verdict agrees with the outcome of its body. `OneInFlight` rests on both
invariants: a body that was given a number and has an outcome other than a reply
belongs to a driver or a session that has ended, which mints no further number.
`CallsEvolveInv` reduces every step of the driver to what `AggInv` reads of it.
`AggregatorPackProofs` has the steps up to the open body, `AggregatorProofs` the
rest and the theorems.

### Only model-checked

* `Agreement`, `AtMostOnce`, `CommittedDurable`, `LogRefinement`, `NoPanic`:
  `Agreement` and `CommittedDurable` do not hold without restrictions on the faults
  (section 5), so a proof needs those restrictions as hypotheses.
* `PlanReachesTarget`, `ToleranceKept`, `RoutingSound`, `LinkKept`, `FramesWhole`,
  `FirstComeFirstPacked`: they are about what a filter, a sort or a fold over a
  sequence computes, which takes induction over data and is outside the prover's
  reach.
* The properties of state transfer (`NeverPanics`, `EndpointInvariants`,
  `Recoverable`, `ReconfigurationKept`, `AnswersSound`): not proved yet.
* `CallsAnswered`, `JobsFinish`, `TransfersEnd`, `PeersReached`: liveness under
  fairness is outside the prover's reach.

## 5. Disagreements between the code and its comments

Five runs end in a counterexample. Each checks a property that the comments
claim, and `PROJECT.json` quotes them.

* `genesis_restart`. A restarted view-0 primary of a formatted store with nothing
  durable resumes at once, because "no pipeline was lost"
  (`endpoint/recovery/mod.rs:2385-2389`). It may have broadcast op 1 before the
  crash, since the Prepare is sent before the append is durable. It then mints
  another request as op 1 of view 0.
* `stale_start_view`. In RecoveringHead a StartView of the replica's own view is
  always adopted (`endpoint/view_change.rs:1516-1518`). One that was sent when the
  view began, and delivered late, truncates an op that the replica has
  acknowledged since.
* `revert`. A catch-up probe that is given up lands in Normal
  (`endpoint/view_change.rs:217`), "equivalent to the crash it stands in for". A
  restart from the same root, with `log_view < view`, would go on with the view
  change. `CutOffSpec` restricts the run to one replica that is cut off and the
  majority's progress: every behaviour of it is a behaviour of `Spec`.
* `swap_stranded`. A committed Reconfigure op is staged behind the checkpoint ahead
  of it. A catch-up to a later view drops that checkpoint, nobody validates the view,
  and the revert (`endpoint/view_change.rs:217`) lands in Normal without
  `maybe_swap_epoch`: the swap is staged, the view settled and the superblock idle,
  where "a staged epoch swap in a settled view with no superblock write in flight
  would never be submitted" (`endpoint/mod.rs:3587-3594`). The next commit starts a
  checkpoint before the swap (`endpoint/normal.rs:1620-1635`); its root covers the op
  with the old configuration, and a crash before the swap's root lands forgets the
  op. No fault is involved. A checkpoint whose flush fails strands the swap behind it
  as well, because `on_checkpoint_materialized` (`endpoint/checkpoint.rs:1157-1160`)
  drops the checkpoint and returns without starting the swap: `Budgets <- FaultBudgets`
  in `SwapStranded.cfg` shows it.
* `satisfied_crossing`. A swap's root is written, a view change abandons it, and a
  message of the next epoch starts a cross-epoch fetch. The root lands and installs
  the epoch (`endpoint/mod.rs:2932-2935`), but the fetch goes on requiring a
  checkpoint of another epoch: the downgrade in `retarget_recovery_fetch`
  (`endpoint/recovery/mod.rs:1849`) runs only when the landed root owes a checkpoint.
  `apply_sync` then refuses every answer (`endpoint/state_sync.rs:2029-2033`).

The passing runs stay clear of these by their instances, or name them in the
property, and say nothing about them. The replica that crashes in the `Vsr` runs
does not lead view 0. A stale StartView loses an acknowledged op only when the
restart also distrusts a later one, which takes two ops, or rot after view 0. The
stale revert takes three replicas and the `view_change_status` timer.
`ReconfigurationKept` and `AnswersSound` except a swap that was stranded.
`satisfied_crossing` breaks liveness, and the scenarios of `progress` have no
message of a later epoch.

### Remarks

Things met on the way that no run is about.

* compio `stream_driver/mod.rs:196-199` says at most one dial is in flight per
  configured peer; `rekey_peers` (1467) dials a member that shifts slots again
  while its first dial is under way. The second connection supersedes the first.
* Frames decoded from the same chunk ahead of an over-cap frame are delivered over
  QUIC and not over a byte stream; `FramesWhole` allows both.
* An executor whose deadline passes leaves its last proposal to commit. A caller
  that then issues the same target may get `AlreadyAMember` for the step that
  landed.
* A promotion needs a proof at the current head (`endpoint/reconfigure.rs:167`).
  `JobsFinish` has finitely many client operations; under a steady load the head
  may move before every proof.
* Ops that a state transfer skips emit no committed event, so a submit whose
  request is among them waits until its caller gives up or the driver stops
  (driver `session/mod.rs`); `CallsAnswered` is checked without such transfers,
  and `OutcomeTruthful` with them.

## 6. What the models leave out

Replication core:

* One fixed configuration, all voters, no checkpoints: those are in `StateTransfer`
  and `ReconfigureLoop`, where the rest of the cluster is abstract.
* A WAL backend has no obligation to cancel an append, and the model's never does.
* A crash settles what was in flight; an in-process rebuild of the endpoint over
  the same WAL, with completions of the old instance, is not modelled.
  (`StateTransfer` has the rebuild over the same superblock and block lane.)
* The Prepare buffer is covered by redelivery from `msgs`.
* Replies to clients are not modelled; `applied` stands for their effect. One
  request per client, so no session eviction.
* `MAX_VIEW_JUMP`, `REPAIR_WINDOW`, `MAX_PIPELINE` and `TAIL_GAP_WINDOW` are larger
  than the bounds.
* A backup's view-only RecoveryResponse is never adopted, and is left out.
  Retransmissions of GetView and Recovery would re-add a message to `msgs`.

State transfer: one replica that is a backup of every view, so a revert never
lands in the step-down of a primary (`Vsr` has it); one reconfiguration; image
contents and hashing; the batching and pacing of block requests. Reconfiguration:
the other replicas' logs, of which only what they acknowledge and hold is kept; a
learner never loses what it held, so a learner that loses its disk after its proof
is left out. Transports: outbound queues except for their overflow, QUIC's
single-stream layout, a replacement Control stream, an identity that is pending,
handshakes and cryptography. Client side: administrative commands, the shutdown's
storage drain, and payload encodings. `debug_assert!`s are modelled only where
`EndpointInvariants` or a `Check` of `StateTransfer` states them.

Not modelled at all, because there is no state machine or because another part
stands for it: the wire, disk and batch codecs, the session-block encoding, plain
values and configuration, the type-state of offline reconfiguration, TLS and
certificate adapters, the shutdown drain, test transports, the facade, and the
reactor bindings, whose loops have not been translated (the compio ones are).
