--------------------------- MODULE ReconfigurePlan ---------------------------
(***************************************************************************)
(* The planner of viewstamp-proto/src/reconfigure_plan/mod.rs: the         *)
(* sequence of single-member deltas from a configuration to a target, in   *)
(* the order that keeps the crash tolerance up, and the voters a shrink    *)
(* step may demote.  A target is a record of a set of voters and a set of  *)
(* learners; sets are visited in member order, as BTreeSet iterates.       *)
(***************************************************************************)
EXTENDS Membership, SequencesExt

Sorted(S) == SetToSortSeq(S, LAMBDA a, b : a < b)

Deltas(kind, S) == [i \in 1..Cardinality(S) |-> Delta(kind, Sorted(S)[i])]

TargetMembers(target) == target.voters \union target.learners

(* A bug: the parity test is inverted, so an odd configuration demotes     *)
(* first.                                                                  *)
promote_now_even(n, promotes_left, demotes_left) ==
    promotes_left /\ (demotes_left => n % 2 = 0)

(* With both kinds left, an odd configuration promotes and an even one     *)
(* demotes.                                                                *)
promote_now(n, promotes_left, demotes_left) ==
    promotes_left /\ (demotes_left => n % 2 = 1)

(* A demoted voter the target does not keep as a learner leaves at once.   *)
demote_steps_kept(x, target) == <<Delta("DemoteVoter", x)>>

demote_steps(x, target) ==
    <<Delta("DemoteVoter", x)>>
      \o IF x \in target.learners THEN <<>> ELSE <<Delta("RemoveLearner", x)>>

(* The interleaved promotions and demotions.                               *)
interleave(vc, target) ==
    LET promotes == Sorted(target.voters \ vc)
        demotes  == Sorted(vc \ target.voters)
        from[pi \in 0..Len(promotes), di \in 0..Len(demotes)] ==
            IF pi = Len(promotes) /\ di = Len(demotes) THEN <<>>
            ELSE IF promote_now(Cardinality(vc) + pi - di,
                                pi < Len(promotes), di < Len(demotes))
            THEN <<Delta("PromoteLearner", promotes[pi + 1])>> \o from[pi + 1, di]
            ELSE demote_steps(demotes[di + 1], target) \o from[pi, di + 1]
    IN  from[0, 0]

(* The steps before they are validated: collect unwanted learners, add the *)
(* voters to be, interleave, add the remaining learners.                   *)
steps(current, target) ==
    LET vc == Voters(current)
        lc == Learners(current)
    IN  Deltas("RemoveLearner", lc \ TargetMembers(target))
          \o Deltas("AddLearner", target.voters \ Members(current))
          \o interleave(vc, target)
          \o Deltas("AddLearner", target.learners \ Members(current))

(* The configuration a plan leads to, or the error of its first step that  *)
(* is not applicable.                                                      *)
Trajectory(current, plan) ==
    FoldLeft(LAMBDA t, d : IF t.error # "Ok" THEN t
                           ELSE [t EXCEPT !.error = delta_error(t.at, d),
                                          !.at = IF delta_error(@, d) = "Ok" THEN apply_delta(@, d) ELSE @],
             [at |-> current, error |-> "Ok"], plan)

(* What a step that is not applicable says of the whole plan.              *)
step_error(e) ==
    CASE e = "Ok" -> "Ok"
      [] e = "TooManyReplicas" -> "IntermediatePeakExceedsCap"
      [] e = "TooManyNodes" -> "IntermediateNodePeakExceedsCap"
      [] OTHER -> "RemovesLastVoter"

(* The verdict of plan_reconfiguration.                                    *)
plan_error(current, target) ==
    IF target.voters \intersect target.learners # {} THEN "VoterLearnerOverlap"
    ELSE IF target.voters = {} THEN "EmptyVoterSet"
    ELSE IF Cardinality(target.voters) > MaxVotingReplicas THEN "TooManyVoters"
    ELSE step_error(Trajectory(current, steps(current, target)).error)

plan_reconfiguration(current, target) == steps(current, target)

(* The demotions a shrink step may choose from: all of the plan's, unless  *)
(* the plan grows before its first one.                                    *)
shrink_candidates(plan) ==
    LET Demotes(i) == plan[i].kind = "DemoteVoter"
        Grows(i)   == plan[i].kind \in {"AddLearner", "PromoteLearner"}
    IN  {plan[i].member : i \in {k \in DOMAIN plan : Demotes(k) /\ \A g \in DOMAIN plan : Grows(g) =>
                                                        \E f \in 1..(g - 1) : Demotes(f)}}

=============================================================================
