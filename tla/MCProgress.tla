----------------------------- MODULE MCProgress -----------------------------
(* What a node must eventually do, part by part: the parts of MCNode and    *)
(* the client side of the driver, under the fairness of their scheduling.   *)
EXTENDS MCNode, Aggregator

progressVars == <<nodeVars, driverVars, aggVars>>

ProgressBudgets ==
    {Bounds(1, 0, 1, {1}, 9, {"Flush"}), Bounds(1, 0, 1, {1}, 1, {"Restore"}),
     Bounds(2, 0, 0, {2}, 9, {"Flush", "Restore"})}

\* The primary of view 0 drives, and the target keeps it in its slot.
ProgressScenarios ==
    {Jobs({To({1, 2, 4}, {})}, 0, 0, 0, 0, FALSE), Jobs({To({1, 3}, {}), To({1}, {})}, 1, 0, 0, 1, FALSE)}

ProgressLinkScenarios ==
    {Links(<<Delta("DemoteVoter", 2)>>, Book({2, 3}), {}, 0, {}), Links(DemoteRemove(2), Book({2}), {<<2, 6>>}, 0, {})}

\* A single unit and a group of two.
ProgressWeight == <<1, 2>>

-----------------------------------------------------------------------------
ProgressInit == NodeInit /\ DriverInit /\ AggInit

Direct == part = "direct" /\ (DriverNext \/ DirectCalls) /\ UNCHANGED <<aggVars, nodeVars>>

\* The callers of the aggregator come and leave in order, and the network is quiet.
Aggregated ==
    /\ part = "aggregated" /\ UNCHANGED <<nodeVars, losses, installs>>
    /\ (DriverNext /\ UNCHANGED aggVars) \/ AggNext
    /\ \A c \in Callers \ {1} : entry'[c] # "idle" => entry[c - 1] # "idle"
    /\ \A c \in Callers \ {1} : c \notin handles' => c - 1 \notin handles

ProgressNext == (NodeNext /\ UNCHANGED <<driverVars, aggVars>>) \/ Direct \/ Aggregated

-----------------------------------------------------------------------------
(* Fairness.  A step that is not named here need never happen: no client    *)
(* submits, nothing crashes, no configuration changes, no message arrives.  *)

\* Steps of one part.
InTransfer(A) == part = "transfer" /\ A /\ UNCHANGED <<rcVars, lk, qk, part, driverVars, aggVars>>
InReconfigure(A) == part = "reconfigure" /\ A /\ UNCHANGED <<stVars, lk, qk, part, driverVars, aggVars>>
InLinks(A) == part = "links" /\ A /\ UNCHANGED <<stVars, rcVars, qk, part, driverVars, aggVars>>
InAggregated(A) == part = "aggregated" /\ A /\ UNCHANGED nodeVars

\* Storage and the block worker answer, timers fire again and again, and a donor that is asked again and again is
\* heard: its checkpoint, and the blocks of it that are still missing.  From some time on no job or read fails,
\* and a walk is over before the next donor answers.
Timely ==
    /\ n.d.done = NoDone /\ n'.d.done # NoDone => n'.d.done.ok
    /\ ~OnCheckpointReadFault
    /\ n'.deferred_pin \in {0, n.deferred_pin}

TransferFairness ==
    /\ <>[][Timely]_stVars
    /\ WF_progressVars(InTransfer(OnRootDone)) /\ WF_progressVars(InTransfer(OnEnvelopeDone))
    /\ WF_progressVars(InTransfer(RunJob(TRUE))) /\ WF_progressVars(InTransfer(OnBlockDone))
    /\ WF_progressVars(InTransfer(RecoverTimeout)) /\ WF_progressVars(InTransfer(SyncTimeout))
    /\ WF_progressVars(InTransfer(OnCheckpointRead))
    /\ SF_progressVars(InTransfer(OnSyncCheckpoint(n.budget.ops)))
    /\ SF_progressVars(InTransfer(\E block \in Dag(n.block_fetch.dag) \ n.d.stored : OnBlockResponse(block)))

\* The executor is polled, the voters and the challenged learner answer, the swap's root lands, and from some time
\* on a round of health proofs is answered before it expires.
AdvanceDue ==
    part = "reconfigure" /\ job.pc # "none" /\ ep.status # "Retired" /\ advance(FALSE) # [ep |-> ep, job |-> job]

ReconfigureFairness ==
    /\ <>[][~ProbeExpires]_rcVars
    /\ []<>~AdvanceDue \/ []<><<Advance(FALSE)>>_rcVars
    /\ WF_progressVars(InReconfigure(TryCommit)) /\ WF_progressVars(InReconfigure(SwapLands))
    /\ WF_progressVars(InReconfigure(\E i \in DOMAIN ep.tail, m \in Voters(ep.live) : OnPrepareOk(i, m)))
    /\ WF_progressVars(InReconfigure(LearnerCatchesUp))
    /\ WF_progressVars(InReconfigure(ep.frontier = ep.op /\ OnRequestLearnerProof))
    /\ WF_progressVars(InReconfigure(ep.op \in ep.replies /\ OnLearnerProof(ep.op)))
    /\ WF_progressVars(InReconfigure(\E m \in Voters(ep.live) : OnHealthProof(m)))

\* A peer that listens is connected to and completes the handshake, the loop turns, and from some time on no
\* connection is lost and no handshake outlasts its deadline.
Lossless ==
    /\ \A i \in DOMAIN lk.conns : ~(BytesRejected(i) \/ RouteOverflows(i) \/ BridgeEnds(i) \/ HandleDialReady(i, FALSE))
    /\ \A expired \in SUBSET DOMAIN lk.conns : expired # {} => ~Reconcile(expired)

LinkFairness ==
    /\ <>[][Lossless]_lk
    /\ WF_progressVars(InLinks(\E i \in DOMAIN lk.conns : HandleDialReady(i, TRUE)))
    /\ WF_progressVars(InLinks(\E i \in DOMAIN lk.conns, m \in 2..5 : lk.conns[i].dialed /\ HandshakeSettles(i, Member(m))))
    /\ WF_progressVars(InLinks(Reconcile({})))

\* The pump is a task of its own, and callers that were granted a slot send.
AggFairness ==
    /\ WF_progressVars(InAggregated(PumpStep \/ PollSubmit)) /\ WF_progressVars(InAggregated(Abandoned))
    /\ WF_progressVars(InAggregated(\E c \in Callers : send(c)))

ProgressSpec ==
    /\ ProgressInit /\ [][ProgressNext]_progressVars
    /\ TransferFairness /\ ReconfigureFairness /\ LinkFairness /\ DriverFairness /\ AggFairness

-----------------------------------------------------------------------------
\* Every request a client has handed to the driver is answered, directly or through the batching aggregator,
\* whatever is lost and even if the node retires or shuts down (deliver_event, drain_pending, AggregatorPump::run);
\* a request is handed over once, so again and again nobody waits.
CallsAnswered == []<>(SubmitsAnswered /\ EntriesAnswered)

\* A reconfiguration with its acknowledgement that the primary drives ends, and with the target reached: no
\* refusal, lapsed probe or moving head leaves the executor waiting (run_reconfigure).
JobsFinish == []<>(job.ack => job.pc = "none" /\ job.result = "Ok")

\* Again and again no recovery is under way, no state transfer and no committed reconfiguration that is not
\* installed, whatever failed before (handle_timeout's re-solicits, the deferred pins and probes of state_sync.rs
\* and recovery/mod.rs).  No catch-up is reverted and no capture fails in its instances: a stranded swap waits for a commit.
TransfersEnd == []<>(~Recovering(n) /\ n.sync = NoSync /\ n.pending_swap = 0)

\* Once the network is calm every member whose address is known is routed to, for good: losses, changes of slot and
\* of address before that leave no peer without a dial (StreamDriver::run).
PeersReached ==
    <>[](part = "links" => \A m \in Members(lk.live) \ {LocalMember} :
                              m \in DOMAIN lk.book => \E i \in DOMAIN lk.conns :
                                                         lk.conns[i].auth /\ lk.conns[i].member = m)

=============================================================================
