-------------------------- MODULE ReconfigureLoop ---------------------------
(***************************************************************************)
(* A reconfiguration driven from one node: the executor of                 *)
(* viewstamp-driver/src/reconfigure/mod.rs (run_reconfigure, advance),     *)
(* which plans one delta at a time against the live configuration, and the *)
(* endpoint it drives: propose_membership with the learner's proof and the *)
(* voters' health proofs, the primary's vote counting over slots, the      *)
(* commit rule of a shrinking configuration and the swap that installs the *)
(* successor and rekeys the votes.                                         *)
(*                                                                         *)
(* ep is the endpoint, job the reconfiguration in hand.  A node that is    *)
(* not the primary learns what other primaries commit.  Ghosts: acked (the *)
(* members behind an operation's votes), frontier (what a learner really   *)
(* holds), holders and came (who held the operation that installed the     *)
(* live configuration, and whom it promoted), sound (every promotion was   *)
(* of a learner that held the log), from and passed (the voter counts      *)
(* before and since the job began), alone (nobody else reconfigured since).*)
(***************************************************************************)
EXTENDS ReconfigurePlan

CONSTANTS Local,        \* config.local(): this node
          Scenarios     \* the bounds a behaviour may have: the first configuration (start), the targets
                        \* and operator vetoes of its jobs, the operations, views, foreign proposals,
                        \* jobs and refusals, and whether the deadline may pass

(* The first configuration has passed validate_structure.                  *)
ASSUME StartStructured == \A b \in Scenarios : Structured(b.start)

VARIABLES ep, job

rcVars == <<ep, job>>

NoMembership == [epoch |-> -1, replica_count |-> 0, members |-> <<>>, config_id |-> <<>>]
NoProof == [target |-> 0, at_op |-> 0, proof |-> -1]
NoStep == [kind |-> "None", member |-> 0]
NoTarget == [voters |-> {}, learners |-> {}]
NoJob == [pc |-> "none", target |-> NoTarget, ack |-> FALSE, down |-> {}, step |-> NoStep,
          expected |-> <<>>, committed_any |-> FALSE, seen |-> {}, stall |-> FALSE,
          from |-> 0, passed |-> {}, alone |-> TRUE, result |-> "None"]

is_primary(e) == Local \in Voters(e.live) /\ slot_of(e.live, Local) = primary(e.live, e.view)

NormalPrimary(e) == e.status = "Normal" /\ is_primary(e)

(* A log entry not committed yet, with no vote; successor is NoMembership  *)
(* for a client's operation.                                               *)
Entry(successor) == [successor |-> successor, oks |-> {}, acked |-> {}]

has_pending_reconfigure(e) ==
    \/ e.swap # NoMembership
    \/ e.inherited # NoMembership
    \/ \E i \in DOMAIN e.tail : e.tail[i].successor # NoMembership

(* A bug: the primary does not count itself.                               *)
proven_live_voters_peers_only(e) ==
    IF NormalPrimary(e) /\ e.probing THEN e.responders ELSE {}

(* The live voters an unexpired probe round of a Normal primary proved.    *)
proven_live_voters(e) ==
    IF NormalPrimary(e) /\ e.probing THEN e.responders \union {Local} ELSE {}

solicit_health_proofs(e) ==
    IF NormalPrimary(e) /\ ~e.probing THEN [e EXCEPT !.probing = TRUE, !.responders = {}] ELSE e

-----------------------------------------------------------------------------
(* The endpoint: commit and install.                                       *)

(* The votes of every uncommitted operation follow their members to the    *)
(* slots of the successor (svc_from is rekeyed alike and not kept here).   *)
rekey_slot_quorums_for_swap(e, successor) ==
    [i \in DOMAIN e.tail |->
        [e.tail[i] EXCEPT !.oks = rekey_slot_bitset(e.live, @, successor)]]

(* The successor becomes the live configuration; a node it leaves out      *)
(* retires.  Proofs and probes of the old configuration end.               *)
swap_membership_in_place(e, successor) ==
    LET kept == [e EXCEPT !.tail = rekey_slot_quorums_for_swap(e, successor), !.live = successor,
                          !.swap = NoMembership, !.proof = NoProof, !.replies = {},
                          !.probing = FALSE, !.responders = {}]
    IN  IF Local \in Members(successor) THEN kept
        ELSE [kept EXCEPT !.tail = <<>>, !.status = "Retired"]

(* A bug: a shrink commits on the predecessor's quorum alone.              *)
shrink_successor_quorum_met_never_asked(e, entry) == TRUE

(* A shrink also needs a quorum of the successor's voters among the votes. *)
shrink_successor_quorum_met(e, entry) ==
    \/ entry.successor = NoMembership
    \/ entry.successor.replica_count >= e.live.replica_count
    \/ LET retained == {s \in entry.oks : member_at(e.live, s) \in Voters(entry.successor)}
       IN  Cardinality(retained) >= quorum(entry.successor.replica_count)

(* Committing stages the swap of a reconfiguration, which keeps the        *)
(* members that hold it.                                                   *)
commit_op(e, entry) ==
    IF entry.successor = NoMembership THEN e
    ELSE [e EXCEPT !.swap = entry.successor, !.holders = entry.acked,
                   !.came = Voters(entry.successor) \ Voters(e.live)]

TryCommit ==
    /\ is_primary(ep) /\ ep.tail # <<>>
    /\ LET next == Head(ep.tail)
       IN  /\ Cardinality({s \in next.oks : is_voter(ep.live, s)}) >= quorum(ep.live.replica_count)
           /\ shrink_successor_quorum_met(ep, next)
           /\ ep' = commit_op([ep EXCEPT !.tail = Tail(@)], next)
    /\ UNCHANGED job

(* The durable SwapEpoch root lands.                                       *)
SwapLands ==
    /\ ep.swap # NoMembership
    /\ ep' = swap_membership_in_place(ep, ep.swap)
    /\ job' = [job EXCEPT !.passed = IF job.pc = "none" THEN @ ELSE @ \union {ep.swap.replica_count}]

(* A voter's PrepareOk, or for this node the durability of its own append  *)
(* (record_own_vote).                                                      *)
OnPrepareOk(i, m) ==
    /\ NormalPrimary(ep) /\ m \in Voters(ep.live)
    /\ slot_of(ep.live, m) \notin ep.tail[i].oks
    /\ LET Voted(entry) == [entry EXCEPT !.oks = @ \union {slot_of(ep.live, m)}, !.acked = @ \union {m}]
       IN  ep' = [ep EXCEPT !.tail = [k \in DOMAIN @ |-> IF k = i THEN Voted(@[k]) ELSE @[k]]]
    /\ UNCHANGED job

(* A client's operation is minted: the head moves past a proof's.          *)
OnRequest ==
    /\ NormalPrimary(ep) /\ ep.requests < ep.budget.ops
    /\ ep' = [ep EXCEPT !.op = @ + 1, !.requests = @ + 1, !.tail = Append(@, Entry(NoMembership))]
    /\ UNCHANGED job

-----------------------------------------------------------------------------
(* Proposals.                                                              *)

(* A bug: a proof counts whatever the head was when it was asked for.      *)
fresh_proof_any_head(e, target) == e.proof.target = target /\ e.proof.proof >= e.proof.at_op

(* The proof covers the head the reconfiguration will sit on.              *)
fresh_proof(e, target) ==
    e.proof.target = target /\ e.proof.at_op >= e.op /\ e.proof.proof >= e.op

(* The challenge to the learner: an outstanding one for the same head is   *)
(* sent again, any other is replaced.  A learner not asked before may hold *)
(* nothing.                                                                *)
challenge(e, target) ==
    IF e.proof.target = target /\ e.proof.at_op = e.op /\ e.proof.proof = -1 THEN e
    ELSE [e EXCEPT !.proof = [target |-> target, at_op |-> e.op, proof |-> -1], !.replies = {},
                   !.frontier = IF e.proof.target = target THEN @ ELSE 0]

(* The verdict of propose_membership; refused stands for the admission     *)
(* checks that fail on load (Busy, AtCapacity).                            *)
propose_verdict(e, d, ack, refused) ==
    IF ~is_primary(e) THEN "NotPrimary"
    ELSE IF e.status # "Normal" \/ has_pending_reconfigure(e) \/ refused THEN "Retry"
    ELSE IF delta_error(e.live, d) # "Ok" THEN "Propose"
    ELSE IF f_of(apply_delta(e.live, d).replica_count) < f_of(e.live.replica_count) /\ ~ack
    THEN "Propose"
    ELSE IF d.kind = "PromoteLearner" /\ ~fresh_proof(e, d.member) THEN "ProofPending"
    ELSE "Ok"

propose_membership(e, d, verdict) ==
    CASE verdict = "ProofPending" -> challenge(e, d.member)
      [] verdict = "Ok" -> [e EXCEPT !.tail = Append(@, Entry(apply_delta(e.live, d))),
                                     !.op = @ + 1,
                                     !.sound = @ /\ (d.kind = "PromoteLearner" => e.frontier >= e.op),
                                     !.proof = IF d.kind = "PromoteLearner" THEN NoProof ELSE @,
                                     !.replies = IF d.kind = "PromoteLearner" THEN {} ELSE @]
      [] OTHER -> e

(* The learner under challenge commits what the primary has; it answers    *)
(* with what it holds at that moment.                                      *)
LearnerCatchesUp ==
    /\ ep.proof # NoProof /\ ep.frontier < ep.op
    /\ ep' = [ep EXCEPT !.frontier = ep.op]
    /\ UNCHANGED job

OnRequestLearnerProof ==
    /\ ep.proof # NoProof
    /\ ep' = [ep EXCEPT !.replies = @ \union {ep.frontier}]
    /\ UNCHANGED job

OnLearnerProof(frontier) ==
    /\ ep.proof # NoProof
    /\ ep' = [ep EXCEPT !.proof.proof = frontier, !.replies = @ \ {frontier}]
    /\ UNCHANGED job

OnHealthProof(m) ==
    /\ ep.probing /\ m \in Voters(ep.live) \ (ep.responders \union {Local})
    /\ ep' = [ep EXCEPT !.responders = @ \union {m}]
    /\ UNCHANGED job

ProbeExpires ==
    /\ ep.probing /\ ep.responders # {}
    /\ ep' = [ep EXCEPT !.probing = FALSE, !.responders = {}]
    /\ UNCHANGED job

-----------------------------------------------------------------------------
(* View changes and other primaries.                                       *)

(* A view change ends this primary's proposals; a reconfiguration not yet  *)
(* committed stays in the log or is truncated, a staged swap is kept.      *)
EnterViewChange(kept) ==
    /\ ep.status = "Normal" /\ ep.view < ep.budget.views
    /\ LET open == {ep.tail[i].successor : i \in DOMAIN ep.tail} \union {ep.inherited}
       IN  ep' = [ep EXCEPT !.status = "ViewChange", !.view = @ + 1, !.tail = <<>>,
                            !.proof = NoProof, !.replies = {}, !.probing = FALSE, !.responders = {},
                            !.inherited = IF kept /\ open # {NoMembership}
                                          THEN CHOOSE s \in open : s # NoMembership
                                          ELSE NoMembership]
    /\ UNCHANGED job

(* The view starts: its primary counts votes afresh for what it inherited. *)
StartView ==
    /\ ep.status = "ViewChange"
    /\ LET led == is_primary(ep) /\ ep.inherited # NoMembership
       IN  ep' = [ep EXCEPT !.status = "Normal",
                            !.tail = IF led THEN <<Entry(ep.inherited)>> ELSE <<>>,
                            !.inherited = IF led THEN NoMembership ELSE @]
    /\ UNCHANGED job

(* Another primary's proposal reaches this node's log, and its commit.     *)
ForeignPrepare(d) ==
    /\ ep.status = "Normal" /\ ~is_primary(ep) /\ ep.foreign < ep.budget.foreign
    /\ ~has_pending_reconfigure(ep) /\ delta_error(ep.live, d) = "Ok"
    /\ ep' = [ep EXCEPT !.inherited = apply_delta(ep.live, d), !.foreign = @ + 1]
    /\ job' = [job EXCEPT !.alone = FALSE]

ForeignCommit ==
    /\ ep.status = "Normal" /\ ~is_primary(ep) /\ ep.inherited # NoMembership
    /\ ep' = [ep EXCEPT !.swap = ep.inherited, !.inherited = NoMembership, !.holders = {},
                        !.came = {}]
    /\ UNCHANGED job

-----------------------------------------------------------------------------
(* The executor.                                                           *)

Finish(j, result) == [j EXCEPT !.pc = "none", !.result = result, !.step = NoStep, !.expected = <<>>]

Post(j, step) == [j EXCEPT !.pc = "post", !.step = step]

Stall(j) == [j EXCEPT !.pc = "plan", !.stall = TRUE]

(* A failure before any step committed is a verdict on the target.         *)
PlanFailed(j) == Finish(j, IF j.committed_any THEN "PlanConflict" ELSE "InvalidTarget")

(* The demotion to propose: this node last, apparently dead voters first,  *)
(* then by id, provided a quorum of the remaining voters is proven live.   *)
pick_fresh_quorum_preserving_demotion(m, candidates, down, fresh) ==
    LET alive  == fresh \ down
        rank(x) == <<IF x = Local THEN 1 ELSE 0, IF x \in alive THEN 1 ELSE 0, x>>
        before(x, y) == \/ rank(x)[1] < rank(y)[1]
                        \/ rank(x)[1] = rank(y)[1] /\ rank(x)[2] < rank(y)[2]
                        \/ rank(x)[1] = rank(y)[1] /\ rank(x)[2] = rank(y)[2] /\ x < y
        served == {x \in candidates :
                     Cardinality((Voters(m) \ {x}) \intersect alive) >= quorum(m.replica_count - 1)}
    IN  {x \in served : \A y \in served \ {x} : before(x, y)}

(* The next step of a plan: a demotion from those the plan starts with, a  *)
(* removal once a quorum is proven live, any other step as it is.          *)
plan_step(e, k, plan) ==
    LET next  == Head(plan)
        fresh == proven_live_voters(e)
        Demote(pick) == IF pick = {} THEN Stall(k) ELSE Post(k, Delta("DemoteVoter", CHOOSE x \in pick : TRUE))
    IN  IF plan = <<>> THEN Finish(k, "Ok")
        ELSE IF k.committed_any /\ next = Delta("RemoveLearner", Local) THEN Finish(k, "DemotedSelf")
        ELSE IF next.kind = "DemoteVoter"
        THEN Demote(pick_fresh_quorum_preserving_demotion(e.live, shrink_candidates(plan), k.down, fresh))
        ELSE IF next.kind = "RemoveLearner"
                  /\ Cardinality(Voters(e.live) \intersect fresh) < quorum(e.live.replica_count)
        THEN Stall(k)
        ELSE Post(k, next)

(* One turn of the planning loop against the live configuration, up to the *)
(* next await: a proposal, a stall or the end.                             *)
plan_turn(e, j) ==
    LET seen == j.seen \union (Members(e.live) \intersect TargetMembers(j.target))
        k    == [j EXCEPT !.seen = seen]
    IN  IF seen \ Members(e.live) # {} \/ plan_error(e.live, j.target) # "Ok" THEN PlanFailed(k)
        ELSE plan_step(e, k, plan_reconfiguration(e.live, j.target))

(* The first turn refuses a target that lowers the crash tolerance without *)
(* the operator's acknowledgement.                                         *)
preflight(e, j) ==
    LET to == Cardinality(j.target.voters)
    IN  IF to >= 1 /\ f_of(to) < f_of(e.live.replica_count) /\ ~j.ack
        THEN Finish(j, "ReducedFaultToleranceUnacknowledged")
        ELSE plan_turn(e, j)

(* The step in flight is installed: its configuration is the live one.     *)
note_installed(j) ==
    [j EXCEPT !.pc = "plan", !.expected = <<>>, !.committed_any = TRUE, !.stall = FALSE,
              !.seen = IF j.step.kind \in {"AddLearner", "PromoteLearner"}
                       THEN @ \union {j.step.member} ELSE @]

(* Polling the executor's future: the step in flight may be installed, and *)
(* the executor goes on from where it waits.                               *)
resume(e, j) ==
    CASE j.pc = "start"  -> preflight(e, j)
      [] j.pc = "plan"   -> plan_turn(e, j)
      [] j.pc = "retry"  -> Post(j, j.step)
      [] j.pc = "failed" -> Finish(j, j.result)
      [] OTHER           -> j

poll(e, j) ==
    resume(e, IF j.pc = "posted" /\ e.live.config_id = j.expected THEN note_installed(j) ELSE j)

(* The acknowledgement goes only with a demotion from an odd count.        *)
step_ack(e, j) == j.ack /\ j.step.kind = "DemoteVoter" /\ e.live.replica_count % 2 = 1

(* What the proposal's verdict does to the job.                            *)
take_verdict(e, j, verdict) ==
    CASE verdict = "Ok" -> [j EXCEPT !.pc = "posted", !.expected = apply_delta(e.live, j.step).config_id]
      [] verdict \in {"Retry", "ProofPending"} -> [j EXCEPT !.pc = "retry"]
      [] OTHER -> [j EXCEPT !.pc = "failed", !.result = verdict]

(* The result of a job that cannot go on: Ok where the target is reached,  *)
(* else what is given for a target with a plan and for one without.        *)
plan_outcome(e, j, unfinished, unplannable) ==
    IF plan_error(e.live, j.target) # "Ok" THEN unplannable
    ELSE IF plan_reconfiguration(e.live, j.target) = <<>> THEN "Ok"
    ELSE unfinished

(* The hard cancel once the deadline has passed.                           *)
cancel(e, j) == Finish(j, plan_outcome(e, j, IF j.stall THEN "InsufficientLiveness" ELSE "Timeout", "Timeout"))

(* One iteration of the driver's loop: the polled executor j posts a step, *)
(* and takes the verdict of its proposal.                                  *)
post_step(e, j, v, refused) ==
    [ep  |-> [propose_membership(e, j.step, v) EXCEPT !.refusals = IF refused THEN @ + 1 ELSE @],
     job |-> take_verdict(e, j, v)]

drive(e, j, refused) ==
    IF j.pc = "post" THEN post_step(e, j, propose_verdict(e, j.step, step_ack(e, j), refused), refused)
    ELSE [ep |-> e, job |-> j]

advance(refused) == LET Polled(e) == drive(e, poll(e, job), refused) IN Polled(solicit_health_proofs(ep))

Advance(refused) ==
    /\ job.pc # "none" /\ ep.status # "Retired"
    /\ refused => ep.refusals < ep.budget.refusals /\ poll(solicit_health_proofs(ep), job).pc = "post"
    /\ LET r == advance(refused) IN ep' = r.ep /\ job' = r.job

AdvancePastDeadline ==
    /\ job.pc \notin {"none", "start"} /\ ep.status # "Retired" /\ ep.budget.late
    /\ job' = cancel(ep, job)
    /\ ep' = solicit_health_proofs(ep)

(* The node left the configuration: the driver ends the job.               *)
finish_on_retire ==
    /\ job.pc # "none" /\ ep.status = "Retired"
    /\ job' = Finish(job, plan_outcome(ep, job, "Retired", "Retired"))
    /\ UNCHANGED ep

(* A reconfigure_to command starts a job when none is in hand.             *)
StartReconfigure(target, down, ack) ==
    /\ job.pc = "none" /\ ep.status # "Retired" /\ ep.jobs < ep.budget.jobs
    /\ ep' = [solicit_health_proofs(ep) EXCEPT !.jobs = @ + 1]
    /\ job' = [NoJob EXCEPT !.pc = "start", !.target = target, !.down = down, !.ack = ack,
                            !.from = ep.live.replica_count, !.alone = ~has_pending_reconfigure(ep)]

-----------------------------------------------------------------------------
RcStart(b) ==
    [live |-> b.start, status |-> "Normal", view |-> 0, op |-> 0,
     tail |-> <<>>, swap |-> NoMembership, inherited |-> NoMembership,
     proof |-> NoProof, replies |-> {}, frontier |-> 0, probing |-> FALSE,
     responders |-> {}, holders |-> {}, came |-> {}, sound |-> TRUE,
     requests |-> 0, foreign |-> 0, jobs |-> 0, refusals |-> 0, budget |-> b]

RcInit == (\E b \in Scenarios : ep = RcStart(b)) /\ job = NoJob

RcNext ==
    \/ TryCommit \/ SwapLands \/ OnRequest
    \/ \E i \in DOMAIN ep.tail, m \in Voters(ep.live) : OnPrepareOk(i, m)
    \/ LearnerCatchesUp \/ OnRequestLearnerProof
    \/ \E f \in ep.replies : OnLearnerProof(f)
    \/ \E m \in Voters(ep.live) : OnHealthProof(m)
    \/ ProbeExpires
    \/ \E kept \in BOOLEAN : EnterViewChange(kept)
    \/ StartView
    \/ \E d \in ep.budget.deltas : ForeignPrepare(d)
    \/ ForeignCommit
    \/ \E refused \in BOOLEAN : Advance(refused)
    \/ AdvancePastDeadline \/ finish_on_retire
    \/ \E t \in ep.budget.targets, down \in ep.budget.downs, ack \in BOOLEAN :
         StartReconfigure(t, down, ack)

RcSpec == RcInit /\ [][RcNext]_rcVars

-----------------------------------------------------------------------------
(* From every configuration a job meets, the plan either is refused for a  *)
(* cap or for an overlapping or empty target, or leads step by applicable  *)
(* step to exactly the target's voters and learners                        *)
(* (plan_reconfiguration re-simulates its own plan and maps any other      *)
(* failure to RemovesLastVoter).                                           *)
PlanReachesTarget ==
    job.pc # "none" =>
        LET t == Trajectory(ep.live, plan_reconfiguration(ep.live, job.target))
            error == plan_error(ep.live, job.target)
        IN  /\ error # "RemovesLastVoter"
            /\ error = "Ok" => Voters(t.at) = job.target.voters /\ Learners(t.at) = job.target.learners

(* A job that nobody interferes with never takes the cluster through a     *)
(* configuration that tolerates fewer crashes than both its first and its  *)
(* target configuration, whatever demotions the health proofs select, and  *)
(* never fails for a missing acknowledgement after it has begun.           *)
ToleranceKept ==
    job.alone =>
        /\ \A c \in job.passed : \/ f_of(c) >= f_of(job.from)
                                 \/ f_of(c) >= f_of(Cardinality(job.target.voters))
        /\ job.result # "Propose"

(* After any number of swaps the votes counted for an uncommitted          *)
(* operation are those of members that acknowledged it and still vote,     *)
(* although swaps move members between slots.                              *)
VotesFollowMembers ==
    \A i \in DOMAIN ep.tail :
        {member_at(ep.live, s) : s \in ep.tail[i].oks} \subseteq ep.tail[i].acked \intersect Voters(ep.live)

(* A configuration this primary has installed cannot forget the operation  *)
(* that installed it: each of its view-change quorums has a member that    *)
(* acknowledged that operation, or the member it promoted, which votes     *)
(* only after it has installed the configuration itself.                   *)
SuccessorRemembers ==
    (ep.swap = NoMembership /\ ep.holders # {}) =>
        \A Q \in SUBSET Voters(ep.live) :
            Cardinality(Q) >= quorum_view_change(ep.live.replica_count)
                => Q \intersect (ep.holders \union ep.came) # {}

(* A learner is promoted only while it holds every operation below the     *)
(* reconfiguration, however late its proof arrives.                        *)
PromotedHoldsLog == ep.sound

=============================================================================
