------------------------------- MODULE MCNode -------------------------------
(* The parts of one node beside its log, each in small instances, side by   *)
(* side: one of them runs and the others stay in their initial state.       *)
EXTENDS StateTransfer, ReconfigureLoop, QuicLinks

CONSTANTS
    Parts       \* the parts a run looks at

VARIABLE part

nodeVars == <<stVars, rcVars, lk, qk, part>>

\* State transfer: operations, view changes, restarts, the checkpoints donors hold, the operation that
\* reconfigures (9: none) and the jobs that may fail; then the checkpoints heard of from a later epoch, and
\* whether this replica serves.
Bounds(ops, views, restarts, donors, swap, faults) ==
    [ops |-> ops, views |-> views, restarts |-> restarts, donors |-> donors, reconfigure |-> swap,
     faults |-> faults, ahead |-> {}, serves |-> FALSE, reverts |-> FALSE]
Ahead(b, checkpoints) == [b EXCEPT !.ahead = checkpoints]
Serving(b) == [b EXCEPT !.serves = TRUE]
Reverting(b) == [b EXCEPT !.reverts = TRUE]

MCBudgets ==
    {Bounds(2, 0, 1, {1, 2}, 2, {"Flush"}), Reverting(Bounds(1, 1, 0, {1}, 9, {"Restore"})),
     Ahead(Bounds(1, 1, 0, {1}, 1, {}), {0}), Ahead(Bounds(2, 0, 0, {2}, 2, {}), {2}),
     Reverting(Serving(Bounds(2, 1, 0, {}, 2, {}))), Serving(Bounds(2, 0, 1, {}, 2, {})),
     Reverting(Bounds(2, 1, 1, {}, 2, {})), Bounds(2, 0, 1, {}, 2, {"Materialize"}),
     Bounds(3, 0, 0, {3}, 9, {"Materialize"}), Bounds(2, 0, 0, {1, 2}, 9, {"Materialize", "Flush"})}

\* A catch-up that no one answers while a reconfiguration waits for a checkpoint, and a crash.
StrandedBudgets == {Reverting(Bounds(2, 1, 1, {}, 2, {}))}

\* The same with a capture that fails instead.
FaultBudgets == {Bounds(2, 0, 1, {}, 2, {"Materialize"})}

\* A view change over the root of a swap, and a message of the successor epoch.
CrossingBudgets == {Ahead(Bounds(1, 1, 0, {1}, 1, {}), {0})}

\* Reconfiguration, from three voters.
Three == genesis(3, <<1, 2, 3>>)
To(voters, learners) == [voters |-> voters, learners |-> learners]
Jobs(targets, ops, views, foreign, refusals, late) ==
    [start |-> Three, targets |-> targets, downs |-> {{}}, deltas |-> {}, ops |-> ops, views |-> views,
     foreign |-> foreign, jobs |-> 1, refusals |-> refusals, late |-> late]

MCScenarios ==
    {Jobs({To({1, 2, 3, 4}, {})}, 1, 0, 0, 0, FALSE), Jobs({To({1, 2, 4}, {})}, 0, 0, 0, 0, TRUE),
     Jobs({To({1, 3}, {})}, 1, 0, 0, 1, FALSE),
     Jobs({To({1, 2}, {}), To({2, 3}, {}), To({1}, {2}), To({1, 2, 3, 4}, {5}), To({4, 5}, {1})}, 0, 0, 0, 0, FALSE),
     Jobs({To({1, 2}, {4})}, 1, 3, 0, 0, FALSE),
     [Jobs({To({1, 2}, {})}, 0, 1, 2, 0, FALSE) EXCEPT !.deltas = {Delta("AddLearner", 4), Delta("DemoteVoter", 1),
                                                                  Delta("RemoveLearner", 1)},
                                                      !.downs = {{3}}]}

\* Links: the node that answers at each address, and the members' first addresses.  Addresses 6 and 7 are
\* those members 2 and 3 move to.
MCListener == [a \in 2..7 |-> IF a > 5 THEN a - 4 ELSE a]
Book(members) == [who \in members |-> who]
Links(deltas, book, moves, accepts, callers) ==
    [start |-> Three, deltas |-> deltas, book |-> book, moves |-> moves, accepts |-> accepts, callers |-> callers]
DemoteRemove(who) == <<Delta("DemoteVoter", who), Delta("RemoveLearner", who)>>
DemoteBoth == <<Delta("DemoteVoter", 2), Delta("DemoteVoter", 3)>>

MCLinkScenarios ==
    {Links(DemoteBoth, Book({2}), {}, 1, {Member(2), Client(9)}),
     Links(<<Delta("DemoteVoter", 2)>>, Book({2, 3}), {}, 0, {}),
     Links(<<Delta("AddLearner", 4)>>, Book({2}), {<<4, 4>>}, 1, {Member(4)}),
     Links(DemoteRemove(2), Book({2}), {<<2, 6>>}, 0, {}),
     Links(<<>>, Book({2}), {}, 2, {Member(4), Member(5)}),
     Links(DemoteRemove(1), Book({2}), {}, 1, {Member(1), Member(2)})}

MCQuicScenarios ==
    {Links(DemoteBoth, Book({2}), {}, 1, {Member(2)}),
     Links(DemoteRemove(2), Book({2}), {<<2, 6>>}, 0, {}),
     Links(<<>>, Book({2}), {}, 2, {Member(4), Member(5)}),
     Links(<<Delta("DemoteVoter", 1)>>, Book({2}), {}, 1, {Member(1), Client(9)})}

-----------------------------------------------------------------------------
\* The scenarios of a part: all of them when it runs, one when it does not.
Starts(p, scenarios) == IF part = p THEN scenarios ELSE {CHOOSE sc \in scenarios : TRUE}

NodeInit ==
    /\ part \in Parts
    /\ \E b \in Starts("transfer", Budgets) : n = StStart(b)
    /\ \E b \in Starts("reconfigure", Scenarios) : ep = RcStart(b)
    /\ job = NoJob
    /\ \E sc \in Starts("links", LinkScenarios) : lk = LinkStart(sc)
    /\ \E sc \in Starts("quic", QuicScenarios) : qk = QuicStart(sc)

Transfer == part = "transfer" /\ StNext /\ UNCHANGED <<rcVars, lk, qk, part>>
Reconfiguring == part = "reconfigure" /\ RcNext /\ UNCHANGED <<stVars, lk, qk, part>>
Linking == part = "links" /\ LinkNext /\ UNCHANGED <<stVars, rcVars, qk, part>>
QuicLinking == part = "quic" /\ QuicNext /\ UNCHANGED <<stVars, rcVars, lk, part>>

NodeNext == Transfer \/ Reconfiguring \/ Linking \/ QuicLinking

NodeSpec == NodeInit /\ [][NodeNext]_nodeVars

\* Over either transport, every peer with a validated connection is routed over exactly one, and a member's
\* connection carries the slot the member holds now.
RoutingSound == StreamRoutingSound /\ QuicRoutingSound

\* Over either transport, every member whose address is known keeps a dial at that address under its slot.
LinkKept == StreamLinkKept /\ QuicLinkKept

=============================================================================
