----------------------------- MODULE Membership -----------------------------
(***************************************************************************)
(* Cluster configurations (viewstamp-proto/src/membership/mod.rs): which   *)
(* members hold which slots, the quorums, the single-member deltas and the *)
(* rekeying of slot-indexed vote sets when one configuration replaces      *)
(* another (endpoint/mod.rs, rekey_slot_bitset).                           *)
(*                                                                         *)
(* Slots are numbered from 0, as in the code: the member at slot s is      *)
(* members[s + 1].  Slots below replica_count vote, the rest learn.  The   *)
(* hash-chained config_id is the value it hashes, so two configurations    *)
(* have the same id exactly when they have the same history.               *)
(***************************************************************************)
EXTENDS Integers, Sequences, FiniteSets

CONSTANTS MaxVotingReplicas,    \* MAX_VOTING_REPLICAS (64)
          MaxNodes              \* u16::MAX, the cap on voters plus learners

(* The voters and the learners of a configuration, as sets of members.     *)
Voters(m) == {m.members[i] : i \in 1..m.replica_count}

Learners(m) == {m.members[i] : i \in (m.replica_count + 1)..Len(m.members)}

Members(m) == Voters(m) \union Learners(m)

(* The hash chain over the whole history.                                  *)
compute_config_id(epoch, replica_count, members, prev) ==
    <<epoch, replica_count, members, prev>>

build(epoch, replica_count, members, prev) ==
    [epoch |-> epoch, replica_count |-> replica_count, members |-> members,
     config_id |-> compute_config_id(epoch, replica_count, members, prev)]

genesis(replica_count, members) == build(0, replica_count, members, <<>>)

reconfigure(m, replica_count, members) ==
    build(m.epoch + 1, replica_count, members, m.config_id)

learner_count(m) == Len(m.members) - m.replica_count

(* The structural verdict on a configuration.                              *)
validate_structure(voters, learners, members) ==
    IF voters = 0 THEN "ZeroReplicaCount"
    ELSE IF voters > MaxVotingReplicas THEN "TooManyReplicas"
    ELSE IF voters + learners > MaxNodes THEN "TooManyNodes"
    ELSE IF Len(members) # voters + learners THEN "MemberCountMismatch"
    ELSE IF \E i, j \in 1..Len(members) : i < j /\ members[i] = members[j] THEN "DuplicateMember"
    ELSE "Ok"

member_at(m, slot) == m.members[slot + 1]

slot_of(m, who) == CHOOSE s \in 0..(Len(m.members) - 1) : member_at(m, s) = who

is_voter(m, slot) == slot < m.replica_count

quorum(n) == n \div 2 + 1

quorum_view_change(n) == n - quorum(n) + 1

(* Crash tolerance of n voters.                                            *)
f_of(n) == n - quorum(n)

primary(m, view) == view % m.replica_count

(* A member that a successor would seat as a voter without prior           *)
(* membership.                                                             *)
new_voters(m, successor) == Voters(successor) \ Members(m)

-----------------------------------------------------------------------------
(* Single-member deltas.                                                   *)

Delta(kind, member) == [kind |-> kind, member |-> member]

Without(s, who) == SelectSeq(s, LAMBDA x : x # who)

(* The members and the voter count a delta leads to.                       *)
SuccessorMembers(m, d) ==
    LET voters   == SubSeq(m.members, 1, m.replica_count)
        learners == SubSeq(m.members, m.replica_count + 1, Len(m.members))
    IN  CASE d.kind = "PromoteLearner" -> voters \o <<d.member>> \o Without(learners, d.member)
          [] d.kind = "DemoteVoter"    -> Without(voters, d.member) \o learners \o <<d.member>>
          [] d.kind = "AddLearner"     -> m.members \o <<d.member>>
          [] d.kind = "RemoveLearner"  -> Without(m.members, d.member)

SuccessorVoters(m, d) ==
    CASE d.kind = "PromoteLearner" -> m.replica_count + 1
      [] d.kind = "DemoteVoter"    -> m.replica_count - 1
      [] OTHER                     -> m.replica_count

SuccessorLearners(m, d) ==
    CASE d.kind \in {"PromoteLearner", "RemoveLearner"} -> learner_count(m) - 1
      [] OTHER                                          -> learner_count(m) + 1

(* The verdict of apply_delta.                                             *)
delta_error(m, d) ==
    IF d.kind # "AddLearner" /\ d.member \notin Members(m) THEN "UnknownMember"
    ELSE IF d.kind = "AddLearner" /\ d.member \in Members(m) THEN "AlreadyAMember"
    ELSE IF d.kind \in {"PromoteLearner", "RemoveLearner"} /\ d.member \notin Learners(m) THEN "NotALearner"
    ELSE IF d.kind = "DemoteVoter" /\ d.member \notin Voters(m) THEN "NotAVoter"
    ELSE IF d.kind = "DemoteVoter" /\ m.replica_count = 1 THEN "WouldRemoveLastVoter"
    ELSE validate_structure(SuccessorVoters(m, d), SuccessorLearners(m, d), SuccessorMembers(m, d))

(* The successor, for a delta without error.                               *)
apply_delta(m, d) == reconfigure(m, SuccessorVoters(m, d), SuccessorMembers(m, d))

-----------------------------------------------------------------------------
(* A configuration as validate_structure leaves it: at least one voter,    *)
(* every voter with a slot, no member with two.                            *)
Structured(m) ==
    /\ m.replica_count \in Nat /\ m.replica_count >= 1
    /\ Len(m.members) \in Nat /\ m.replica_count <= Len(m.members)
    /\ \A i, j \in 1..Len(m.members) : m.members[i] = m.members[j] => i = j

(* A bug: the vote set is kept as it is over a change of slots.            *)
rekey_slot_bitset_unchanged(m, bits, successor) == bits

(* A set of slots of m, carried over to the slots the same members hold as *)
(* voters of the successor.                                                *)
rekey_slot_bitset(m, bits, successor) ==
    {slot_of(successor, member_at(m, s)) :
        s \in {b \in bits : member_at(m, b) \in Voters(successor)}}

=============================================================================
