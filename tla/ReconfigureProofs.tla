------------------------- MODULE ReconfigureProofs --------------------------
(***************************************************************************)
(* Three theorems about a live reconfiguration, for configurations of every *)
(* size and any sequence of proposals, swaps and view changes: the votes   *)
(* counted for an operation follow their members through every change of   *)
(* slots, an installed configuration remembers what installed it, and a    *)
(* learner is promoted only while it holds the log.                        *)
(***************************************************************************)
EXTENDS ReconfigureLoop, FiniteSetTheorems, TLAPS

Slots(m) == 0..(Len(m.members) - 1)

\* The members behind a set of slots.
Casters(m, bits) == {member_at(m, s) : s \in bits}

\* Every view-change quorum of m has a member of the given set.
Covered(m, who) ==
    \A Q \in SUBSET Voters(m) :
        Cardinality(Q) >= quorum_view_change(m.replica_count) => Q \intersect who # {}

-----------------------------------------------------------------------------
(* Slots and members. *)

\* A voter's slot is a slot, and the voter's.
LEMMA SlotOfVoter ==
    ASSUME NEW m, Structured(m), NEW x \in Voters(m)
    PROVE  slot_of(m, x) \in Slots(m) /\ member_at(m, slot_of(m, x)) = x
<1>1. PICK i \in 1..m.replica_count : x = m.members[i]
  BY DEF Voters
<1>2. i - 1 \in Slots(m) /\ member_at(m, i - 1) = x
  BY <1>1 DEF Structured, Slots, member_at
<1>3. \E s \in 0..(Len(m.members) - 1) : member_at(m, s) = x
  BY <1>2 DEF Slots
<1> QED BY <1>3 DEF slot_of, Slots

\* Two slots have different members.
LEMMA MemberInjective ==
    ASSUME NEW m, Structured(m), NEW s \in Slots(m), NEW t \in Slots(m), member_at(m, s) = member_at(m, t)
    PROVE  s = t
BY DEF Structured, Slots, member_at

\* A set of slots has as many casters.
LEMMA CastersCount ==
    ASSUME NEW m, Structured(m), NEW bits, bits \subseteq Slots(m)
    PROVE  /\ IsFiniteSet(Casters(m, bits))
           /\ Cardinality(Casters(m, bits)) = Cardinality(bits)
<1>1. IsFiniteSet(bits)
  <2>1. IsFiniteSet(Slots(m))
    BY FS_Interval DEF Slots, Structured
  <2> QED BY <2>1, FS_Subset
<1> DEFINE f == [s \in bits |-> member_at(m, s)]
<1>2. f \in Bijection(bits, Casters(m, bits))
  <2>1. f \in [bits -> Casters(m, bits)]
    BY DEF Casters
  <2>2. \A s, t \in bits : f[s] = f[t] => s = t
    BY MemberInjective
  <2>3. \A x \in Casters(m, bits) : \E s \in bits : f[s] = x
    BY DEF Casters
  <2> HIDE DEF f
  <2> QED BY <2>1, <2>2, <2>3 DEF Bijection, Injection, Surjection, IsInjective
<1>3. ExistsBijection(bits, Casters(m, bits))
  BY <1>2 DEF ExistsBijection
<1> QED BY <1>1, <1>3, FS_Bijection

\* A configuration has replica_count voters.
LEMMA VotersCount ==
    ASSUME NEW m, Structured(m)
    PROVE  IsFiniteSet(Voters(m)) /\ Cardinality(Voters(m)) = m.replica_count
<1> DEFINE bits == 0..(m.replica_count - 1)
<1>1. bits \subseteq Slots(m)
  BY DEF Slots, Structured
<1>2. Casters(m, bits) = Voters(m)
  <2>1. ASSUME NEW s \in bits PROVE member_at(m, s) \in Voters(m)
    BY DEF member_at, Voters, Structured
  <2>2. ASSUME NEW i \in 1..m.replica_count PROVE m.members[i] \in Casters(m, bits)
    <3>1. i - 1 \in bits /\ m.members[i] = member_at(m, i - 1)
      BY DEF member_at, Structured
    <3> QED BY <3>1 DEF Casters
  <2> QED BY <2>1, <2>2 DEF Casters, Voters
<1>3. Cardinality(bits) = m.replica_count
  <2>1. \A b \in Nat : b >= 1 => Cardinality(0..(b - 1)) = b
    <3> TAKE b \in Nat
    <3> HAVE b >= 1
    <3>1. Cardinality(0..(b - 1)) = (b - 1) - 0 + 1
      BY FS_Interval
    <3> QED BY <3>1
  <2> QED BY <2>1 DEF Structured
<1> QED BY Zenon, <1>1, <1>2, <1>3, CastersCount

\* rekey_slot_bitset: the casters of the rekeyed set are the old casters that vote in the successor.
LEMMA RekeyCasters ==
    ASSUME NEW m, Structured(m), NEW successor, Structured(successor), NEW bits, bits \subseteq Slots(m)
    PROVE  /\ rekey_slot_bitset(m, bits, successor) \subseteq Slots(successor)
           /\ Casters(successor, rekey_slot_bitset(m, bits, successor)) = Casters(m, bits) \intersect Voters(successor)
<1> DEFINE kept == {b \in bits : member_at(m, b) \in Voters(successor)}
<1>1. \A b \in kept : /\ slot_of(successor, member_at(m, b)) \in Slots(successor)
                      /\ member_at(successor, slot_of(successor, member_at(m, b))) = member_at(m, b)
  BY SlotOfVoter
<1>2. rekey_slot_bitset(m, bits, successor) = {slot_of(successor, member_at(m, b)) : b \in kept}
  BY DEF rekey_slot_bitset
<1>3. Casters(successor, rekey_slot_bitset(m, bits, successor)) = {member_at(m, b) : b \in kept}
  <2> HIDE DEF kept
  <2> QED BY <1>1, <1>2 DEF Casters
<1> QED BY <1>1, <1>2, <1>3 DEF Casters

\* apply_delta leads to a structured configuration: validate_structure refuses any other.
LEMMA DeltaStructured ==
    ASSUME NEW m, Structured(m), NEW d, delta_error(m, d) = "Ok"
    PROVE  Structured(apply_delta(m, d))
<1> DEFINE voters == SuccessorVoters(m, d)
           learners == SuccessorLearners(m, d)
           members == SuccessorMembers(m, d)
<1>1. /\ validate_structure(voters, learners, members) = "Ok"
      /\ d.kind \in {"PromoteLearner", "RemoveLearner"} => d.member \in Learners(m)
  BY DEF delta_error
<1>2. voters \in Nat /\ learners \in Nat
  <2>1. learner_count(m) \in Nat
    <3>1. \A a, b \in Nat : a <= b => b - a \in Nat
      OBVIOUS
    <3> QED BY <3>1 DEF learner_count, Structured
  <2>2. d.member \in Learners(m) => learner_count(m) >= 1
    BY DEF learner_count, Structured, Learners
  <2>3. learners \in Nat
    BY <1>1, <2>1, <2>2 DEF SuccessorLearners
  <2>4. voters \in Nat
    BY DEF Structured, SuccessorVoters
  <2> QED BY <2>3, <2>4
<1> HIDE DEF voters, learners, members
<1>3. /\ voters # 0 /\ Len(members) = voters + learners
      /\ ~\E i, j \in 1..Len(members) : i < j /\ members[i] = members[j]
  BY <1>1 DEF validate_structure
<1>4. \A i, j \in 1..Len(members) : members[i] = members[j] => i = j
  BY <1>2, <1>3
<1>5. apply_delta(m, d).replica_count = voters /\ apply_delta(m, d).members = members
  BY DEF apply_delta, reconfigure, build, voters, members
<1> QED BY <1>2, <1>3, <1>4, <1>5 DEF Structured

-----------------------------------------------------------------------------
(* Quorums of two configurations. *)

\* What quorum(m) voters acknowledged, and quorum(successor) of its voters if it shrinks (try_commit and
\* shrink_successor_quorum_met), every view-change quorum of the successor holds or is newly promoted to.
LEMMA CommitCovers ==
    ASSUME NEW m, Structured(m), NEW successor, Structured(successor),
           NEW bits, bits \subseteq Slots(m), NEW who, Casters(m, bits) \subseteq who \intersect Voters(m),
           Cardinality({s \in bits : is_voter(m, s)}) >= quorum(m.replica_count),
           \/ successor.replica_count >= m.replica_count
           \/ Cardinality({s \in bits : member_at(m, s) \in Voters(successor)}) >= quorum(successor.replica_count)
    PROVE  Covered(successor, who \union (Voters(successor) \ Voters(m)))
<1> SUFFICES ASSUME NEW Q \in SUBSET Voters(successor),
                    Cardinality(Q) >= quorum_view_change(successor.replica_count),
                    Q \subseteq Voters(m)
             PROVE  Q \intersect who # {}
  BY DEF Covered
<1> DEFINE n == m.replica_count
           k == successor.replica_count
<1>1. n \in Nat \ {0} /\ k \in Nat \ {0}
  BY DEF Structured
<1>2. IsFiniteSet(Q) /\ Cardinality(Q) \in Nat
  BY VotersCount, FS_Subset, FS_CardinalityType
<1>3. CASE k >= n
  <2> DEFINE S == {s \in bits : is_voter(m, s)}
  <2>1. /\ Cardinality(Casters(m, S)) >= quorum(n) /\ Casters(m, S) \subseteq Voters(m) /\ Casters(m, S) \subseteq who
        /\ Cardinality(Casters(m, S)) \in Nat
    <3>1. S \subseteq Slots(m) /\ Casters(m, S) \subseteq Casters(m, bits)
      BY DEF Casters
    <3> HIDE DEF S
    <3>2. IsFiniteSet(Casters(m, S)) /\ Cardinality(Casters(m, S)) = Cardinality(S)
      BY <3>1, CastersCount
    <3> QED BY <3>1, <3>2, FS_CardinalityType DEF S
  <2>2. Cardinality(Q) + quorum(n) > n
    BY <1>1, <1>2, <1>3 DEF quorum, quorum_view_change
  <2>3. quorum(n) \in Nat
    BY <1>1 DEF quorum
  <2> HIDE DEF S, n
  <2>4. Cardinality(Q) + Cardinality(Casters(m, S)) > n
    BY <1>1, <1>2, <2>1, <2>2, <2>3
  <2>5. Q \intersect Casters(m, S) # {}
    BY <2>1, <2>4, VotersCount, FS_MajoritiesIntersect DEF n
  <2> QED BY <2>1, <2>5
<1>4. CASE Cardinality({s \in bits : member_at(m, s) \in Voters(successor)}) >= quorum(k)
  <2> DEFINE S == {s \in bits : member_at(m, s) \in Voters(successor)}
  <2>1. /\ Cardinality(Casters(m, S)) >= quorum(k) /\ Casters(m, S) \subseteq Voters(successor)
        /\ Casters(m, S) \subseteq who /\ Cardinality(Casters(m, S)) \in Nat
    <3>1. S \subseteq Slots(m) /\ Casters(m, S) \subseteq Casters(m, bits) /\ Casters(m, S) \subseteq Voters(successor)
      BY DEF Casters
    <3> HIDE DEF S
    <3>2. IsFiniteSet(Casters(m, S)) /\ Cardinality(Casters(m, S)) = Cardinality(S)
      BY <3>1, CastersCount
    <3> QED BY <1>4, <3>1, <3>2, FS_CardinalityType DEF S
  <2>2. Cardinality(Q) + quorum(k) > k /\ quorum(k) \in Nat
    BY <1>1, <1>2 DEF quorum, quorum_view_change
  <2> HIDE DEF S, k
  <2>3. Cardinality(Q) + Cardinality(Casters(m, S)) > k
    BY <1>1, <1>2, <2>1, <2>2
  <2>4. Q \intersect Casters(m, S) # {}
    BY <2>1, <2>3, VotersCount, FS_MajoritiesIntersect DEF k
  <2> QED BY <2>1, <2>4
<1> QED BY <1>3, <1>4

-----------------------------------------------------------------------------
(* Sequences of log entries. *)

Sequenced(t) == Len(t) \in Nat /\ t = [i \in 1..Len(t) |-> t[i]]

\* A sequence of its own elements.
LEMMA SequencedSeq ==
    ASSUME NEW t, Sequenced(t)
    PROVE  t \in Seq({t[i] : i \in 1..Len(t)})
BY DEF Sequenced

LEMMA SeqSequenced ==
    ASSUME NEW S, NEW t \in Seq(S)
    PROVE  Sequenced(t)
BY DEF Sequenced

\* Appending keeps the elements and adds one.
LEMMA AppendSequenced ==
    ASSUME NEW t, Sequenced(t), NEW x
    PROVE  /\ Sequenced(Append(t, x)) /\ Len(Append(t, x)) = Len(t) + 1
           /\ \A i \in 1..Len(Append(t, x)) : Append(t, x)[i] = IF i <= Len(t) THEN t[i] ELSE x
<1> DEFINE S == {t[i] : i \in 1..Len(t)} \union {x}
<1>1. t \in Seq(S) /\ x \in S
  BY DEF Sequenced
<1> HIDE DEF S
<1>2. Append(t, x) \in Seq(S)
  BY <1>1
<1>3. Sequenced(Append(t, x))
  BY Zenon, <1>2, SeqSequenced
<1> QED BY <1>1, <1>3

\* The head and the tail of a sequence that is not empty.
LEMMA TailSequenced ==
    ASSUME NEW t, Sequenced(t), t # <<>>
    PROVE  /\ Sequenced(Tail(t)) /\ Len(t) >= 1 /\ Len(Tail(t)) = Len(t) - 1 /\ Head(t) = t[1]
           /\ \A i \in 1..Len(Tail(t)) : Tail(t)[i] = t[i + 1]
<1> DEFINE S == {t[i] : i \in 1..Len(t)}
<1>1. t \in Seq(S)
  BY SequencedSeq
<1> HIDE DEF S
<1>2. Tail(t) \in Seq(S) /\ Len(t) >= 1
  BY <1>1
<1>3. Sequenced(Tail(t))
  BY Zenon, <1>2, SeqSequenced
<1> QED BY <1>1, <1>2, <1>3

-----------------------------------------------------------------------------
(* The inductive invariant. *)

Fields == {"live", "status", "view", "op", "tail", "swap", "inherited", "proof", "replies", "frontier", "probing",
           "responders", "holders", "came", "sound", "requests", "foreign", "jobs", "refusals", "budget"}

EntryFields == {"successor", "oks", "acked"}

\* The votes of an entry are votes of members that acknowledged it and vote in m.
EntryOK(m, entry) ==
    /\ entry = [x \in EntryFields |-> entry[x]]
    /\ entry.successor = NoMembership \/ Structured(entry.successor)
    /\ entry.oks \subseteq Slots(m)
    /\ Casters(m, entry.oks) \subseteq entry.acked \intersect Voters(m)

TailOK(m, t) == Sequenced(t) /\ \A i \in 1..Len(t) : EntryOK(m, t[i])

\* The configuration an endpoint is at, or committed to.
Latest(e) == IF e.swap = NoMembership THEN e.live ELSE e.swap

EpInv(e) ==
    /\ e = [x \in Fields |-> e[x]]
    /\ Structured(e.live)
    /\ e.swap = NoMembership \/ Structured(e.swap)
    /\ e.inherited = NoMembership \/ Structured(e.inherited)
    /\ TailOK(e.live, e.tail)
    /\ e.holders # {} => Covered(Latest(e), e.holders \union e.came)

\* The invariant says what the two properties say.
LEMMA InvVotes ==
    ASSUME EpInv(ep)
    PROVE  VotesFollowMembers
<1>1. DOMAIN ep.tail = 1..Len(ep.tail)
  BY DEF EpInv, TailOK, Sequenced
<1> QED BY Zenon, <1>1 DEF EpInv, TailOK, EntryOK, Casters, VotesFollowMembers

LEMMA InvRemembers ==
    ASSUME EpInv(ep)
    PROVE  SuccessorRemembers
BY DEF EpInv, Latest, Covered, SuccessorRemembers

\* An entry is minted without a vote.
LEMMA EntryUnvoted ==
    ASSUME NEW m, NEW successor, successor = NoMembership \/ Structured(successor)
    PROVE  EntryOK(m, Entry(successor))
BY DEF EntryOK, Entry, EntryFields, Casters

\* Appending an entry keeps the tail.
LEMMA TailAppend ==
    ASSUME NEW m, NEW t, TailOK(m, t), NEW entry, EntryOK(m, entry)
    PROVE  TailOK(m, Append(t, entry))
BY AppendSequenced DEF TailOK

\* The empty tail and the tail of one entry.
LEMMA EmptyTail ==
    ASSUME NEW m
    PROVE  TailOK(m, <<>>)
<1>1. <<>> \in Seq({}) /\ Len(<<>>) = 0
  OBVIOUS
<1>2. Sequenced(<<>>)
  BY Zenon, <1>1, SeqSequenced
<1>3. \A i \in 1..Len(<<>>) : EntryOK(m, <<>>[i])
  BY <1>1
<1> QED BY <1>2, <1>3 DEF TailOK

LEMMA SingleTail ==
    ASSUME NEW m, NEW entry, EntryOK(m, entry)
    PROVE  TailOK(m, <<entry>>)
<1>1. <<entry>> \in Seq({entry}) /\ Len(<<entry>>) = 1 /\ <<entry>>[1] = entry
  OBVIOUS
<1>2. Sequenced(<<entry>>)
  BY Zenon, <1>1, SeqSequenced
<1> QED BY <1>1, <1>2 DEF TailOK

\* A change of any other field keeps the invariant.
LEMMA EpUnchanged ==
    ASSUME NEW e, EpInv(e), NEW f, f = [x \in Fields |-> f[x]],
           f.live = e.live, f.swap = e.swap, f.inherited = e.inherited, f.tail = e.tail,
           f.holders = e.holders, f.came = e.came
    PROVE  EpInv(f)
BY DEF EpInv, Latest

-----------------------------------------------------------------------------
(* Each operator and action keeps the invariant. *)

LEMMA SolicitInv ==
    ASSUME NEW e, EpInv(e)
    PROVE  EpInv(solicit_health_proofs(e)) /\ solicit_health_proofs(e).live = e.live
<1>1. e = [x \in Fields |-> e[x]]
  BY DEF EpInv
<1> QED BY Zenon, <1>1, EpUnchanged DEF solicit_health_proofs, Fields

\* A proposal that is accepted appends a structured successor with the primary's own vote.
LEMMA ProposeInv ==
    ASSUME NEW e, EpInv(e), NEW d, NEW ack, NEW refused,
           NEW verdict, verdict = propose_verdict(e, d, ack, refused)
    PROVE  EpInv(propose_membership(e, d, verdict))
<1>1. e = [x \in Fields |-> e[x]]
  BY DEF EpInv
<1>2. CASE verdict = "ProofPending"
  <2>1. propose_membership(e, d, verdict) = challenge(e, d.member)
    BY <1>2 DEF propose_membership
  <2>2. EpInv(challenge(e, d.member))
    <3>1. \A p, q : EpInv([e EXCEPT !.proof = p, !.replies = {}, !.frontier = q])
      BY Zenon, <1>1, EpUnchanged DEF Fields
    <3> QED BY Zenon, <3>1 DEF challenge
  <2> QED BY <2>1, <2>2
<1>3. CASE verdict = "Ok"
  <2> DEFINE successor == apply_delta(e.live, d)
             f == propose_membership(e, d, verdict)
  <2>1. delta_error(e.live, d) = "Ok"
    BY <1>3 DEF propose_verdict
  <2>2. Structured(successor)
    BY <2>1, DeltaStructured DEF EpInv
  <2>3. EntryOK(e.live, Entry(successor))
    BY <2>2, EntryUnvoted
  <2>4. /\ f = [x \in Fields |-> f[x]]
        /\ f.live = e.live /\ f.swap = e.swap /\ f.inherited = e.inherited
        /\ f.holders = e.holders /\ f.came = e.came /\ f.tail = Append(e.tail, Entry(successor))
    <3>1. PICK a, b, c, h, r : f = [e EXCEPT !.tail = a, !.op = b, !.sound = c, !.proof = h, !.replies = r]
                              /\ a = Append(e.tail, Entry(successor))
      BY Zenon, <1>3 DEF propose_membership
    <3> HIDE DEF f, successor
    <3> QED BY Zenon, <1>1, <3>1 DEF Fields
  <2>5. TailOK(e.live, Append(e.tail, Entry(successor)))
    BY <2>3, TailAppend DEF EpInv
  <2> HIDE DEF f, successor
  <2>6. EpInv(f)
    BY Zenon, <2>4, <2>5 DEF EpInv, Latest
  <2> QED BY <2>6 DEF f
<1>4. CASE verdict \notin {"ProofPending", "Ok"}
  BY <1>4 DEF propose_membership
<1> QED BY <1>2, <1>3, <1>4

LEMMA AdvanceInv ==
    ASSUME EpInv(ep), NEW refused, Advance(refused)
    PROVE  EpInv(ep')
<1> DEFINE e == solicit_health_proofs(ep)
           j == poll(e, job)
           v == propose_verdict(e, j.step, step_ack(e, j), refused)
           p == propose_membership(e, j.step, v)
<1>1. EpInv(e)
  BY SolicitInv
<1>2. EpInv(p)
  BY <1>1, ProposeInv
<1>3. ep' = drive(e, j, refused).ep
  BY DEF Advance, advance
<1>4. ep' = e \/ ep' = [p EXCEPT !.refusals = IF refused THEN @ + 1 ELSE @]
  BY <1>3 DEF drive, post_step
<1> HIDE DEF e, j, v, p
<1>5. EpInv([p EXCEPT !.refusals = IF refused THEN @ + 1 ELSE @])
  <2>1. p = [x \in Fields |-> p[x]]
    BY <1>2 DEF EpInv
  <2> QED BY <1>2, <2>1, EpUnchanged DEF Fields
<1> QED BY <1>1, <1>4, <1>5

\* The steps that touch neither configurations nor votes.
LEMMA OtherInv ==
    ASSUME EpInv(ep),
           \/ LearnerCatchesUp \/ OnRequestLearnerProof \/ (\E f \in ep.replies : OnLearnerProof(f))
           \/ (\E m \in Voters(ep.live) : OnHealthProof(m)) \/ ProbeExpires
           \/ AdvancePastDeadline \/ finish_on_retire
           \/ (\E t \in ep.budget.targets, down \in ep.budget.downs, ack \in BOOLEAN : StartReconfigure(t, down, ack))
    PROVE  EpInv(ep')
<1>1. ep = [x \in Fields |-> ep[x]]
  BY DEF EpInv
<1>2. CASE LearnerCatchesUp
  BY <1>1, <1>2, EpUnchanged DEF LearnerCatchesUp, Fields
<1>3. CASE OnRequestLearnerProof
  BY <1>1, <1>3, EpUnchanged DEF OnRequestLearnerProof, Fields
<1>4. CASE \E f \in ep.replies : OnLearnerProof(f)
  BY Zenon, <1>1, <1>4, EpUnchanged DEF OnLearnerProof, Fields
<1>5. CASE \E m \in Voters(ep.live) : OnHealthProof(m)
  BY <1>1, <1>5, EpUnchanged DEF OnHealthProof, Fields
<1>6. CASE ProbeExpires
  BY Zenon, <1>1, <1>6, EpUnchanged DEF ProbeExpires, Fields
<1>7. CASE AdvancePastDeadline
  BY <1>7, SolicitInv DEF AdvancePastDeadline
<1>8. CASE finish_on_retire
  BY <1>8 DEF finish_on_retire
<1>9. CASE \E t \in ep.budget.targets, down \in ep.budget.downs, ack \in BOOLEAN : StartReconfigure(t, down, ack)
  <2> DEFINE e == solicit_health_proofs(ep)
  <2>1. ep' = [e EXCEPT !.jobs = @ + 1]
    BY Zenon, <1>9 DEF StartReconfigure
  <2>2. EpInv(e) /\ e = [x \in Fields |-> e[x]]
    BY Zenon, SolicitInv DEF EpInv
  <2> HIDE DEF e
  <2> QED BY <2>1, <2>2, EpUnchanged DEF Fields
<1> QED BY <1>2, <1>3, <1>4, <1>5, <1>6, <1>7, <1>8, <1>9

\* A committed reconfiguration is covered in its successor.
LEMMA CommitInv ==
    ASSUME EpInv(ep), TryCommit
    PROVE  EpInv(ep')
<1> DEFINE next == Head(ep.tail)
           e == [ep EXCEPT !.tail = Tail(@)]
<1>1. ep = [x \in Fields |-> ep[x]] /\ ep.tail # <<>> /\ Sequenced(ep.tail)
  BY DEF EpInv, TailOK, TryCommit
<1>2. EntryOK(ep.live, next)
  <2>1. next = ep.tail[1] /\ 1 \in 1..Len(ep.tail)
    BY <1>1, TailSequenced DEF Sequenced
  <2> HIDE DEF next
  <2> QED BY Zenon, <2>1 DEF EpInv, TailOK
<1>3. TailOK(ep.live, Tail(ep.tail))
  <2>1. \A i \in 1..Len(Tail(ep.tail)) : i + 1 \in 1..Len(ep.tail) /\ Tail(ep.tail)[i] = ep.tail[i + 1]
    BY <1>1, TailSequenced DEF Sequenced
  <2> QED BY Zenon, <1>1, <2>1, TailSequenced DEF EpInv, TailOK
<1>4. /\ e = [x \in Fields |-> e[x]] /\ e.live = ep.live /\ e.swap = ep.swap /\ e.inherited = ep.inherited
      /\ e.holders = ep.holders /\ e.came = ep.came /\ e.tail = Tail(ep.tail)
  BY Zenon, <1>1 DEF Fields
<1>5. /\ Cardinality({s \in next.oks : is_voter(ep.live, s)}) >= quorum(ep.live.replica_count)
      /\ shrink_successor_quorum_met(ep, next)
      /\ ep' = commit_op(e, next)
  BY DEF TryCommit
<1> HIDE DEF next, e
<1>6. EpInv(e)
  BY <1>3, <1>4 DEF EpInv, Latest
<1>7. CASE next.successor = NoMembership
  BY <1>5, <1>6, <1>7 DEF commit_op
<1>8. CASE next.successor # NoMembership
  <2>1. Structured(next.successor) /\ Structured(ep.live)
    BY <1>2, <1>8 DEF EntryOK, EpInv
  <2>2. \/ next.successor.replica_count >= ep.live.replica_count
        \/ Cardinality({s \in next.oks : member_at(ep.live, s) \in Voters(next.successor)})
             >= quorum(next.successor.replica_count)
    BY <1>5, <1>8 DEF shrink_successor_quorum_met
  <2>3. Covered(next.successor, next.acked \union (Voters(next.successor) \ Voters(ep.live)))
    BY Zenon, <1>2, <1>5, <2>1, <2>2, CommitCovers DEF EntryOK
  <2>4. ep' = [e EXCEPT !.swap = next.successor, !.holders = next.acked,
                        !.came = Voters(next.successor) \ Voters(e.live)]
    BY <1>5, <1>8 DEF commit_op
  <2>5. /\ ep' = [x \in Fields |-> ep'[x]] /\ ep'.live = e.live /\ ep'.swap = next.successor
        /\ ep'.inherited = e.inherited /\ ep'.tail = e.tail /\ ep'.holders = next.acked
        /\ ep'.came = Voters(next.successor) \ Voters(e.live)
    BY Zenon, <1>4, <2>4 DEF Fields
  <2>6. Latest(ep') = next.successor
    BY <1>8, <2>5 DEF Latest
  <2> QED BY <1>4, <1>6, <2>1, <2>3, <2>5, <2>6 DEF EpInv
<1> QED BY <1>7, <1>8

\* The swap rekeys every vote set.
LEMMA RekeyTail ==
    ASSUME NEW e, EpInv(e), NEW successor, Structured(successor)
    PROVE  TailOK(successor, rekey_slot_quorums_for_swap(e, successor))
<1> DEFINE t == rekey_slot_quorums_for_swap(e, successor)
           bits(i) == rekey_slot_bitset(e.live, e.tail[i].oks, successor)
<1>1. Sequenced(e.tail) /\ DOMAIN e.tail = 1..Len(e.tail) /\ Len(e.tail) \in Nat
  BY DEF EpInv, TailOK, Sequenced
<1>2. t = [i \in 1..Len(e.tail) |-> [e.tail[i] EXCEPT !.oks = bits(i)]]
  BY <1>1 DEF rekey_slot_quorums_for_swap
<1>3. Sequenced(t) /\ Len(t) = Len(e.tail)
  <2> HIDE DEF bits
  <2> DEFINE g(i) == [e.tail[i] EXCEPT !.oks = bits(i)]
             n == Len(e.tail)
  <2>1. t = [i \in 1..n |-> g(i)] /\ n \in Nat
    BY <1>1, <1>2
  <2> HIDE DEF t, g, n
  <2>2. t \in Seq({g(i) : i \in 1..n}) /\ Len(t) = n
    BY <2>1
  <2> QED BY <2>2, SeqSequenced DEF n
<1>4. ASSUME NEW i \in 1..Len(e.tail) PROVE EntryOK(successor, t[i])
  <2>1. EntryOK(e.live, e.tail[i]) /\ Structured(e.live)
    BY Zenon DEF EpInv, TailOK
  <2>2. /\ bits(i) \subseteq Slots(successor)
        /\ Casters(successor, bits(i)) = Casters(e.live, e.tail[i].oks) \intersect Voters(successor)
    BY Zenon, <2>1, RekeyCasters DEF EntryOK
  <2>3. t[i] = [e.tail[i] EXCEPT !.oks = bits(i)]
    BY <1>2
  <2> HIDE DEF bits, t
  <2>4. /\ t[i] = [x \in EntryFields |-> t[i][x]]
        /\ t[i].successor = e.tail[i].successor /\ t[i].oks = bits(i) /\ t[i].acked = e.tail[i].acked
    BY <2>1, <2>3 DEF EntryOK, EntryFields
  <2>5. Casters(e.live, e.tail[i].oks) \subseteq e.tail[i].acked
    BY <2>1 DEF EntryOK
  <2> QED BY Zenon, <2>1, <2>2, <2>4, <2>5 DEF EntryOK
<1> QED BY <1>3, <1>4 DEF TailOK

LEMMA SwapInv ==
    ASSUME EpInv(ep), SwapLands
    PROVE  EpInv(ep')
<1> DEFINE kept == [ep EXCEPT !.tail = rekey_slot_quorums_for_swap(ep, ep.swap), !.live = ep.swap,
                              !.swap = NoMembership, !.proof = NoProof, !.replies = {},
                              !.probing = FALSE, !.responders = {}]
<1>1. ep = [x \in Fields |-> ep[x]] /\ ep.swap # NoMembership /\ Structured(ep.swap)
  BY DEF EpInv, SwapLands
<1>2. TailOK(ep.swap, rekey_slot_quorums_for_swap(ep, ep.swap))
  BY <1>1, RekeyTail
<1>3. /\ kept = [x \in Fields |-> kept[x]] /\ kept.live = ep.swap /\ kept.swap = NoMembership
      /\ kept.inherited = ep.inherited /\ kept.holders = ep.holders /\ kept.came = ep.came
      /\ kept.tail = rekey_slot_quorums_for_swap(ep, ep.swap)
  BY Zenon, <1>1 DEF Fields
<1>4. ep' = kept \/ ep' = [kept EXCEPT !.tail = <<>>, !.status = "Retired"]
  BY DEF SwapLands, swap_membership_in_place
<1> HIDE DEF kept
<1>5. EpInv(kept)
  BY Zenon, <1>1, <1>2, <1>3 DEF EpInv, Latest
<1>6. EpInv([kept EXCEPT !.tail = <<>>, !.status = "Retired"])
  <2> DEFINE f == [kept EXCEPT !.tail = <<>>, !.status = "Retired"]
  <2>1. /\ f = [x \in Fields |-> f[x]] /\ f.live = kept.live /\ f.swap = kept.swap
        /\ f.inherited = kept.inherited /\ f.holders = kept.holders /\ f.came = kept.came /\ f.tail = <<>>
    BY Zenon, <1>3 DEF Fields
  <2>2. TailOK(kept.live, <<>>)
    BY EmptyTail
  <2> HIDE DEF f
  <2>3. EpInv(f)
    BY Zenon, <1>5, <2>1, <2>2 DEF EpInv, Latest
  <2> QED BY <2>3 DEF f
<1> QED BY <1>4, <1>5, <1>6

LEMMA PrepareOkInv ==
    ASSUME EpInv(ep), NEW i \in DOMAIN ep.tail, NEW m \in Voters(ep.live), OnPrepareOk(i, m)
    PROVE  EpInv(ep')
<1> DEFINE old == ep.tail[i]
           s == slot_of(ep.live, m)
           oks == old.oks \union {s}
           acked == old.acked \union {m}
           voted == [old EXCEPT !.oks = oks, !.acked = acked]
           t == [k \in DOMAIN ep.tail |-> IF k = i THEN voted ELSE ep.tail[k]]
<1>1. /\ ep = [x \in Fields |-> ep[x]] /\ Sequenced(ep.tail)
      /\ DOMAIN ep.tail = 1..Len(ep.tail) /\ Len(ep.tail) \in Nat
  BY DEF EpInv, TailOK, Sequenced
<1>2. EntryOK(ep.live, old) /\ Structured(ep.live)
  BY Zenon, <1>1 DEF EpInv, TailOK
<1>3. s \in Slots(ep.live) /\ member_at(ep.live, s) = m
  BY <1>2, SlotOfVoter
<1>4. EntryOK(ep.live, voted)
  <2> HIDE DEF old, s, oks, acked
  <2>1. /\ voted = [x \in EntryFields |-> voted[x]]
        /\ voted.successor = old.successor /\ voted.oks = oks /\ voted.acked = acked
    BY Zenon, <1>2 DEF EntryOK, EntryFields
  <2>2. Casters(ep.live, oks) = Casters(ep.live, old.oks) \union {m}
    BY <1>3 DEF Casters, oks
  <2> HIDE DEF voted
  <2> QED BY <1>2, <1>3, <2>1, <2>2 DEF EntryOK, oks, acked
<1>5. ep' = [ep EXCEPT !.tail = t]
  BY Zenon DEF OnPrepareOk
<1> HIDE DEF voted, old, oks, acked
<1>6. TailOK(ep.live, t)
  <2> DEFINE n == Len(ep.tail)
             g(k) == IF k = i THEN voted ELSE ep.tail[k]
  <2>1. t = [k \in 1..n |-> g(k)] /\ n \in Nat
    BY <1>1
  <2>2. \A k \in 1..n : EntryOK(ep.live, g(k))
    BY Zenon, <1>4 DEF EpInv, TailOK
  <2> HIDE DEF t, g, n
  <2>3. t \in Seq({g(k) : k \in 1..n}) /\ Len(t) = n
    BY <2>1
  <2>4. Sequenced(t)
    BY <2>3, SeqSequenced
  <2> QED BY <2>1, <2>2, <2>3, <2>4 DEF TailOK
<1> HIDE DEF t
<1>7. /\ ep' = [x \in Fields |-> ep'[x]] /\ ep'.live = ep.live /\ ep'.swap = ep.swap
      /\ ep'.inherited = ep.inherited /\ ep'.holders = ep.holders /\ ep'.came = ep.came /\ ep'.tail = t
  BY <1>1, <1>5 DEF Fields
<1> QED BY <1>6, <1>7 DEF EpInv, Latest

LEMMA RequestInv ==
    ASSUME EpInv(ep), OnRequest
    PROVE  EpInv(ep')
<1>1. ep = [x \in Fields |-> ep[x]]
  BY DEF EpInv
<1>2. TailOK(ep.live, Append(ep.tail, Entry(NoMembership)))
  BY EntryUnvoted, TailAppend DEF EpInv
<1>3. /\ ep' = [x \in Fields |-> ep'[x]] /\ ep'.live = ep.live /\ ep'.swap = ep.swap
      /\ ep'.inherited = ep.inherited /\ ep'.holders = ep.holders /\ ep'.came = ep.came
      /\ ep'.tail = Append(ep.tail, Entry(NoMembership))
  BY Zenon, <1>1 DEF OnRequest, Fields
<1> QED BY Zenon, <1>2, <1>3 DEF EpInv, Latest

LEMMA EnterViewChangeInv ==
    ASSUME EpInv(ep), NEW kept, EnterViewChange(kept)
    PROVE  EpInv(ep')
<1> DEFINE open == {ep.tail[i].successor : i \in DOMAIN ep.tail} \union {ep.inherited}
           inherited == IF kept /\ open # {NoMembership} THEN CHOOSE s \in open : s # NoMembership ELSE NoMembership
<1>1. ep = [x \in Fields |-> ep[x]] /\ DOMAIN ep.tail = 1..Len(ep.tail)
  BY DEF EpInv, TailOK, Sequenced
<1>2. \A s \in open : s = NoMembership \/ Structured(s)
  <2>1. \A i \in DOMAIN ep.tail : EntryOK(ep.live, ep.tail[i])
    BY Zenon, <1>1 DEF EpInv, TailOK
  <2>2. \A i \in DOMAIN ep.tail : ep.tail[i].successor = NoMembership \/ Structured(ep.tail[i].successor)
    BY Zenon, <2>1 DEF EntryOK
  <2> QED BY <2>2 DEF EpInv
<1>3. open # {NoMembership} => \E s \in open : s # NoMembership
  OBVIOUS
<1>4. ep' = [ep EXCEPT !.status = "ViewChange", !.view = @ + 1, !.tail = <<>>,
                       !.proof = NoProof, !.replies = {}, !.probing = FALSE, !.responders = {},
                       !.inherited = inherited]
  BY DEF EnterViewChange
<1> HIDE DEF open
<1>5. inherited = NoMembership \/ Structured(inherited)
  BY <1>2, <1>3
<1> HIDE DEF inherited
<1>6. /\ ep' = [x \in Fields |-> ep'[x]] /\ ep'.live = ep.live /\ ep'.swap = ep.swap
      /\ ep'.inherited = inherited /\ ep'.holders = ep.holders /\ ep'.came = ep.came /\ ep'.tail = <<>>
  BY Zenon, <1>1, <1>4 DEF Fields
<1> QED BY Zenon, <1>5, <1>6, EmptyTail DEF EpInv, Latest

LEMMA StartViewInv ==
    ASSUME EpInv(ep), StartView
    PROVE  EpInv(ep')
<1> DEFINE led == is_primary(ep) /\ ep.inherited # NoMembership
<1>1. ep = [x \in Fields |-> ep[x]]
  BY DEF EpInv
<1>2. led => TailOK(ep.live, <<Entry(ep.inherited)>>)
  BY Zenon, EntryUnvoted, SingleTail DEF EpInv
<1>3. ep' = [ep EXCEPT !.status = "Normal", !.tail = IF led THEN <<Entry(ep.inherited)>> ELSE <<>>,
                       !.inherited = IF led THEN NoMembership ELSE @]
  BY DEF StartView
<1> HIDE DEF led
<1>4. /\ ep' = [x \in Fields |-> ep'[x]] /\ ep'.live = ep.live /\ ep'.swap = ep.swap
      /\ ep'.inherited \in {ep.inherited, NoMembership} /\ ep'.holders = ep.holders /\ ep'.came = ep.came
      /\ ep'.tail = IF led THEN <<Entry(ep.inherited)>> ELSE <<>>
  BY Zenon, <1>1, <1>3 DEF Fields
<1>5. TailOK(ep.live, ep'.tail)
  BY <1>2, <1>4, EmptyTail
<1> QED BY <1>4, <1>5 DEF EpInv, Latest

LEMMA ForeignInv ==
    ASSUME EpInv(ep), (\E d \in ep.budget.deltas : ForeignPrepare(d)) \/ ForeignCommit
    PROVE  EpInv(ep')
<1>1. ep = [x \in Fields |-> ep[x]]
  BY DEF EpInv
<1>2. CASE \E d \in ep.budget.deltas : ForeignPrepare(d)
  <2>1. PICK d : ForeignPrepare(d)
    BY <1>2
  <2>2. Structured(apply_delta(ep.live, d))
    BY Zenon, <2>1, DeltaStructured DEF ForeignPrepare, EpInv
  <2>3. /\ ep' = [x \in Fields |-> ep'[x]] /\ ep'.live = ep.live /\ ep'.swap = ep.swap
        /\ ep'.inherited = apply_delta(ep.live, d) /\ ep'.holders = ep.holders /\ ep'.came = ep.came
        /\ ep'.tail = ep.tail
    BY Zenon, <1>1, <2>1 DEF ForeignPrepare, Fields
  <2> QED BY <2>2, <2>3 DEF EpInv, Latest
<1>3. CASE ForeignCommit
  <2>1. /\ ep' = [x \in Fields |-> ep'[x]] /\ ep'.live = ep.live /\ ep'.swap = ep.inherited
        /\ ep'.inherited = NoMembership /\ ep'.holders = {} /\ ep'.tail = ep.tail
    BY Zenon, <1>1, <1>3 DEF ForeignCommit, Fields
  <2> QED BY <2>1 DEF EpInv
<1> QED BY <1>2, <1>3

-----------------------------------------------------------------------------
LEMMA InitInv ==
    ASSUME RcInit
    PROVE  EpInv(ep)
<1>1. PICK b \in Scenarios : ep = RcStart(b)
  BY DEF RcInit
<1>2. /\ ep = [x \in Fields |-> ep[x]] /\ ep.live = b.start /\ ep.swap = NoMembership
      /\ ep.inherited = NoMembership /\ ep.tail = <<>> /\ ep.holders = {}
  BY Zenon, <1>1 DEF RcStart, Fields
<1> QED BY <1>2, StartStructured, EmptyTail DEF EpInv

LEMMA StepInv ==
    ASSUME EpInv(ep), [RcNext]_rcVars
    PROVE  EpInv(ep')
<1>1. CASE RcNext
  BY <1>1, CommitInv, SwapInv, RequestInv, PrepareOkInv, OtherInv, EnterViewChangeInv, StartViewInv, ForeignInv,
     AdvanceInv DEF RcNext
<1>2. CASE UNCHANGED rcVars
  BY <1>2 DEF rcVars
<1> QED BY <1>1, <1>2

\* Whatever is proposed, committed and installed, and through view changes, the votes counted for an uncommitted
\* operation are votes of members that acknowledged it and still vote (rekey_slot_quorums_for_swap).
THEOREM VotesFollow == RcSpec => []VotesFollowMembers
<1>1. RcInit => EpInv(ep)
  BY InitInv
<1>2. EpInv(ep) /\ [RcNext]_rcVars => EpInv(ep)'
  BY StepInv
<1>3. EpInv(ep) => VotesFollowMembers
  BY InvVotes
<1> QED BY <1>1, <1>2, <1>3, PTL DEF RcSpec

\* Whatever the size of the configuration that a delta changes, each view-change quorum of the installed one has a member
\* that acknowledged the operation that installed it, or one it promoted (try_commit, shrink_successor_quorum_met).
THEOREM InstalledRemembers == RcSpec => []SuccessorRemembers
<1>1. RcInit => EpInv(ep)
  BY InitInv
<1>2. EpInv(ep) /\ [RcNext]_rcVars => EpInv(ep)'
  BY StepInv
<1>3. EpInv(ep) => SuccessorRemembers
  BY InvRemembers
<1> QED BY <1>1, <1>2, <1>3, PTL DEF RcSpec

-----------------------------------------------------------------------------
(* The learner's proof. *)

ProofFields == {"target", "at_op", "proof"}

\* What a learner was heard to hold, or is about to be, it still holds: a challenge to another learner forgets both
\* the proof and the answers on their way.
ProofInv(e) ==
    /\ DOMAIN e = Fields
    /\ e.op \in Nat /\ e.frontier \in Nat
    /\ DOMAIN e.proof = ProofFields /\ e.proof.proof \in Int /\ e.proof.proof <= e.frontier
    /\ \A r \in e.replies : r \in Nat /\ r <= e.frontier
    /\ e.sound = TRUE

LEMMA NoProofBelow ==
    DOMAIN NoProof = ProofFields /\ NoProof.proof = -1
BY DEF NoProof, ProofFields

\* A step that hears of no learner, or forgets what it has heard.
Unheard(e, f) ==
    /\ DOMAIN f = Fields
    /\ f.op \in Nat
    /\ f.frontier = e.frontier
    /\ f.sound = e.sound
    /\ f.proof = e.proof \/ f.proof = NoProof
    /\ f.replies = e.replies \/ f.replies = {}

LEMMA ProofKept ==
    ASSUME NEW e, ProofInv(e), NEW f, Unheard(e, f)
    PROVE  ProofInv(f)
<1>1. CASE f.proof = e.proof
  BY <1>1 DEF ProofInv, Unheard
<1>2. CASE f.proof = NoProof
  BY <1>2, NoProofBelow DEF ProofInv, Unheard
<1> QED BY <1>1, <1>2 DEF Unheard

LEMMA SolicitProof ==
    ASSUME NEW e, ProofInv(e)
    PROVE  ProofInv(solicit_health_proofs(e))
<1>1. DOMAIN e = Fields /\ e.op \in Nat
  BY DEF ProofInv
<1>2. Unheard(e, [e EXCEPT !.probing = TRUE, !.responders = {}])
  BY <1>1 DEF Fields, Unheard
<1>3. ProofInv([e EXCEPT !.probing = TRUE, !.responders = {}])
  BY <1>2, ProofKept
<1> QED BY <1>3 DEF solicit_health_proofs

\* A promotion is accepted only on a proof that covers the head, and what the proof says the learner holds.
LEMMA ProposeProof ==
    ASSUME NEW e, ProofInv(e), NEW d, NEW ack, NEW refused,
           NEW verdict, verdict = propose_verdict(e, d, ack, refused)
    PROVE  ProofInv(propose_membership(e, d, verdict))
<1>1. DOMAIN e = Fields /\ e.op \in Nat /\ e.frontier \in Nat /\ e.sound = TRUE
  BY DEF ProofInv
<1>2. CASE verdict = "ProofPending"
  <2> DEFINE g(front) == [e EXCEPT !.proof = [target |-> d.member, at_op |-> e.op, proof |-> -1], !.replies = {},
                                   !.frontier = front]
  <2>1. ASSUME NEW front \in Nat PROVE ProofInv(g(front))
    <3> DEFINE p == [target |-> d.member, at_op |-> e.op, proof |-> -1]
    <3>1. DOMAIN p = ProofFields /\ p.proof = -1
      BY DEF ProofFields
    <3> HIDE DEF p
    <3>2. /\ DOMAIN g(front) = Fields /\ g(front).op = e.op /\ g(front).frontier = front
          /\ g(front).proof = p /\ g(front).replies = {} /\ g(front).sound = e.sound
      BY <1>1 DEF Fields, p
    <3> HIDE DEF g
    <3> QED BY <1>1, <3>1, <3>2 DEF ProofInv
  <2> DEFINE n == IF e.proof.target = d.member THEN e.frontier ELSE 0
  <2>2. n \in Nat
    BY <1>1
  <2>3. challenge(e, d.member) = e \/ challenge(e, d.member) = g(n)
    BY DEF challenge
  <2>4. propose_membership(e, d, verdict) = challenge(e, d.member)
    BY <1>2 DEF propose_membership
  <2> HIDE DEF g, n
  <2> QED BY <2>1, <2>2, <2>4, <2>3
<1>3. CASE verdict = "Ok"
  <2> DEFINE held == d.kind = "PromoteLearner" => e.frontier >= e.op
             f == propose_membership(e, d, verdict)
  <2>1. d.kind = "PromoteLearner" => fresh_proof(e, d.member)
    BY <1>3 DEF propose_verdict
  <2>2. held
    BY <1>1, <2>1 DEF fresh_proof, ProofInv
  <2> DEFINE t == Append(e.tail, Entry(apply_delta(e.live, d)))
             h == IF d.kind = "PromoteLearner" THEN NoProof ELSE e.proof
             r == IF d.kind = "PromoteLearner" THEN {} ELSE e.replies
  <2>3. f = [e EXCEPT !.tail = t, !.op = e.op + 1, !.sound = e.sound /\ held, !.proof = h, !.replies = r]
    BY <1>3 DEF propose_membership
  <2>4. (e.sound /\ held) = TRUE
    BY <1>1, <2>2
  <2>5. (h = e.proof \/ h = NoProof) /\ (r = e.replies \/ r = {})
    OBVIOUS
  <2> HIDE DEF f, held, t, h, r
  <2>6. /\ DOMAIN f = Fields /\ f.op = e.op + 1 /\ f.frontier = e.frontier /\ f.sound = TRUE
        /\ f.proof = h /\ f.replies = r
    <3>1. f = [e EXCEPT !.tail = t, !.op = e.op + 1, !.sound = TRUE, !.proof = h, !.replies = r]
      BY <2>3, <2>4, Zenon
    <3> QED BY <1>1, <3>1 DEF Fields
  <2>7. Unheard(e, f)
    <3>1. f.op \in Nat
      BY <1>1, <2>6
    <3>2. f.sound = e.sound
      BY <1>1, <2>6, Zenon
    <3> QED BY <2>5, <2>6, <3>1, <3>2, Zenon DEF Unheard
  <2>8. ProofInv(f)
    BY <2>7, ProofKept
  <2> QED BY <2>8 DEF f
<1>4. CASE verdict \notin {"ProofPending", "Ok"}
  BY <1>4 DEF propose_membership
<1> QED BY <1>2, <1>3, <1>4

LEMMA AdvanceProof ==
    ASSUME ProofInv(ep), NEW refused, Advance(refused)
    PROVE  ProofInv(ep')
<1> DEFINE e == solicit_health_proofs(ep)
           j == poll(e, job)
           v == propose_verdict(e, j.step, step_ack(e, j), refused)
           p == propose_membership(e, j.step, v)
<1>1. ProofInv(e)
  BY SolicitProof
<1>2. ProofInv(p)
  BY <1>1, ProposeProof
<1>3. ep' = drive(e, j, refused).ep
  BY DEF Advance, advance
<1>4. ep' = e \/ ep' = [p EXCEPT !.refusals = IF refused THEN @ + 1 ELSE @]
  BY <1>3 DEF drive, post_step
<1> HIDE DEF e, j, v, p
<1>5. ProofInv([p EXCEPT !.refusals = IF refused THEN @ + 1 ELSE @])
  <2>1. DOMAIN p = Fields /\ p.op \in Nat
    BY <1>2 DEF ProofInv
  <2>2. Unheard(p, [p EXCEPT !.refusals = IF refused THEN @ + 1 ELSE @])
    BY <2>1 DEF Fields, Unheard
  <2> QED BY <1>2, <2>2, ProofKept
<1> QED BY <1>1, <1>4, <1>5

\* The learner and its answers.
LEMMA LearnerProof ==
    ASSUME ProofInv(ep),
           LearnerCatchesUp \/ OnRequestLearnerProof \/ (\E f \in ep.replies : OnLearnerProof(f))
    PROVE  ProofInv(ep')
<1>1. /\ DOMAIN ep = Fields /\ DOMAIN ep.proof = ProofFields
      /\ ep.op \in Nat /\ ep.frontier \in Nat /\ ep.proof.proof \in Int /\ ep.proof.proof <= ep.frontier
  BY DEF ProofInv
<1>2. CASE LearnerCatchesUp
  <2>1. /\ DOMAIN ep' = Fields /\ ep'.op = ep.op /\ ep'.frontier = ep.op /\ ep'.sound = ep.sound
        /\ ep'.proof = ep.proof /\ ep'.replies = ep.replies /\ ep.frontier < ep.op
    BY <1>1, <1>2 DEF LearnerCatchesUp, Fields
  <2> QED BY <1>1, <2>1 DEF ProofInv
<1>3. CASE OnRequestLearnerProof
  <2>1. /\ DOMAIN ep' = Fields /\ ep'.op = ep.op /\ ep'.frontier = ep.frontier /\ ep'.sound = ep.sound
        /\ ep'.proof = ep.proof /\ ep'.replies = ep.replies \union {ep.frontier}
    BY <1>1, <1>3 DEF OnRequestLearnerProof, Fields
  <2> QED BY <1>1, <2>1 DEF ProofInv
<1>4. CASE \E f \in ep.replies : OnLearnerProof(f)
  <2>1. PICK f \in ep.replies : OnLearnerProof(f)
    BY <1>4
  <2> DEFINE h == [ep.proof EXCEPT !.proof = f]
  <2>2. DOMAIN h = ProofFields /\ h.proof = f
    BY <1>1 DEF ProofFields
  <2>3. /\ DOMAIN ep' = Fields /\ ep'.op = ep.op /\ ep'.frontier = ep.frontier /\ ep'.sound = ep.sound
        /\ ep'.proof = h /\ ep'.replies = ep.replies \ {f}
    <3>1. ep' = [ep EXCEPT !.proof.proof = f, !.replies = ep.replies \ {f}]
      BY <2>1, Zenon DEF OnLearnerProof
    <3>2. ep' = [ep EXCEPT !.proof = h, !.replies = ep.replies \ {f}]
      BY <3>1
    <3> HIDE DEF h
    <3> QED BY <1>1, <3>2 DEF Fields
  <2> HIDE DEF h
  <2> QED BY <1>1, <2>2, <2>3 DEF ProofInv
<1> QED BY <1>2, <1>3, <1>4

\* The steps of the endpoint that have nothing to do with a learner.
LEMMA EndpointProof ==
    ASSUME ProofInv(ep),
           \/ TryCommit \/ SwapLands \/ OnRequest
           \/ (\E i \in DOMAIN ep.tail, m \in Voters(ep.live) : OnPrepareOk(i, m))
           \/ (\E m \in Voters(ep.live) : OnHealthProof(m)) \/ ProbeExpires
           \/ (\E kept \in BOOLEAN : EnterViewChange(kept)) \/ StartView
           \/ (\E d \in ep.budget.deltas : ForeignPrepare(d)) \/ ForeignCommit
    PROVE  ProofInv(ep')
<1>1. DOMAIN ep = Fields /\ ep.op \in Nat
  BY DEF ProofInv
<1>2. CASE TryCommit
  <2> DEFINE e == [ep EXCEPT !.tail = Tail(@)]
             swapped(w, h, c) == [e EXCEPT !.swap = w, !.holders = h, !.came = c]
  <2>1. Unheard(ep, e)
    BY <1>1 DEF Fields, Unheard
  <2>2. ep' = commit_op(e, Head(ep.tail))
    BY <1>2 DEF TryCommit
  <2> HIDE DEF e
  <2>3. ProofInv(e)
    BY <2>1, ProofKept
  <2>4. DOMAIN e = Fields /\ e.op \in Nat
    BY <2>1 DEF Unheard
  <2>5. ASSUME NEW w, NEW h, NEW c PROVE ProofInv(swapped(w, h, c))
    <3>1. Unheard(e, swapped(w, h, c))
      BY <2>4 DEF Fields, Unheard
    <3> QED BY <2>3, <3>1, ProofKept
  <2> DEFINE n == Head(ep.tail)
             c0 == Voters(n.successor) \ Voters(e.live)
  <2>6. ep' = e \/ ep' = swapped(n.successor, n.acked, c0)
    BY <2>2 DEF commit_op
  <2> HIDE DEF swapped, n, c0
  <2> QED BY <2>3, <2>5, <2>6
<1>3. CASE SwapLands
  <2> DEFINE kept(t, l) == [ep EXCEPT !.tail = t, !.live = l, !.swap = NoMembership, !.proof = NoProof,
                                      !.replies = {}, !.probing = FALSE, !.responders = {}]
             retired(k) == [k EXCEPT !.tail = <<>>, !.status = "Retired"]
  <2>1. ASSUME NEW t, NEW l PROVE ProofInv(kept(t, l)) /\ ProofInv(retired(kept(t, l)))
    <3> DEFINE k == kept(t, l)
    <3>1. Unheard(ep, k)
      BY <1>1 DEF Fields, Unheard
    <3>2. ProofInv(k)
      BY <3>1, ProofKept
    <3>3. DOMAIN k = Fields /\ k.op \in Nat
      BY <3>1 DEF Unheard
    <3> HIDE DEF k
    <3>4. Unheard(k, retired(k))
      BY <3>3 DEF Fields, Unheard
    <3>5. ProofInv(retired(k))
      BY <3>2, <3>4, ProofKept
    <3> QED BY <3>2, <3>5 DEF k
  <2> DEFINE t0 == rekey_slot_quorums_for_swap(ep, ep.swap)
  <2>2. ep' = kept(t0, ep.swap) \/ ep' = retired(kept(t0, ep.swap))
    BY <1>3 DEF SwapLands, swap_membership_in_place
  <2> HIDE DEF kept, retired, t0
  <2> QED BY <2>1, <2>2
<1>4. CASE OnRequest
  <2>1. Unheard(ep, ep')
    BY <1>1, <1>4 DEF OnRequest, Fields, Unheard
  <2> QED BY <2>1, ProofKept
<1>5. CASE \E i \in DOMAIN ep.tail, m \in Voters(ep.live) : OnPrepareOk(i, m)
  <2>1. ASSUME NEW t PROVE ProofInv([ep EXCEPT !.tail = t])
    <3>1. Unheard(ep, [ep EXCEPT !.tail = t])
      BY <1>1 DEF Fields, Unheard
    <3> QED BY <3>1, ProofKept
  <2>2. PICK i \in DOMAIN ep.tail, m \in Voters(ep.live) : OnPrepareOk(i, m)
    BY <1>5
  <2> DEFINE voted(x) == [x EXCEPT !.oks = @ \union {slot_of(ep.live, m)}, !.acked = @ \union {m}]
             t0 == [k \in DOMAIN ep.tail |-> IF k = i THEN voted(ep.tail[k]) ELSE ep.tail[k]]
  <2>3. ep' = [ep EXCEPT !.tail = t0]
    BY <2>2, Zenon DEF OnPrepareOk
  <2> HIDE DEF t0
  <2> QED BY <2>1, <2>3
<1>6. CASE (\E m \in Voters(ep.live) : OnHealthProof(m)) \/ ProbeExpires
  <2>1. ASSUME NEW b, NEW r PROVE Unheard(ep, [ep EXCEPT !.responders = r])
                                  /\ Unheard(ep, [ep EXCEPT !.probing = b, !.responders = r])
    BY <1>1 DEF Fields, Unheard
  <2>2. CASE ProbeExpires
    <3>1. ep' = [ep EXCEPT !.probing = FALSE, !.responders = {}]
      BY <2>2 DEF ProbeExpires
    <3>2. Unheard(ep, ep')
      BY <3>1, <2>1, Zenon
    <3> QED BY <3>2, ProofKept
  <2>3. CASE \E m \in Voters(ep.live) : OnHealthProof(m)
    <3>1. PICK m : ep' = [ep EXCEPT !.responders = ep.responders \union {m}]
      BY <2>3, Zenon DEF OnHealthProof
    <3>2. Unheard(ep, ep')
      BY <3>1, <2>1, Zenon
    <3> QED BY <3>2, ProofKept
  <2> QED BY <1>6, <2>2, <2>3
<1>7. CASE \E kept \in BOOLEAN : EnterViewChange(kept)
  <2> DEFINE ended(s) == [ep EXCEPT !.status = "ViewChange", !.view = @ + 1, !.tail = <<>>, !.proof = NoProof,
                                    !.replies = {}, !.probing = FALSE, !.responders = {}, !.inherited = s]
  <2>1. ASSUME NEW s PROVE ProofInv(ended(s))
    <3>1. Unheard(ep, ended(s))
      BY <1>1 DEF Fields, Unheard
    <3> QED BY <3>1, ProofKept
  <2>2. PICK kept \in BOOLEAN : EnterViewChange(kept)
    BY <1>7
  <2> DEFINE open == {ep.tail[i].successor : i \in DOMAIN ep.tail} \union {ep.inherited}
             s0 == IF kept /\ open # {NoMembership} THEN CHOOSE s \in open : s # NoMembership ELSE NoMembership
  <2>3. ep' = ended(s0)
    BY <2>2, Zenon DEF EnterViewChange
  <2> HIDE DEF ended, s0
  <2> QED BY <2>1, <2>3
<1>8. CASE StartView
  <2> DEFINE started(t, s) == [ep EXCEPT !.status = "Normal", !.tail = t, !.inherited = s]
  <2>1. ASSUME NEW t, NEW s PROVE ProofInv(started(t, s))
    <3>1. Unheard(ep, started(t, s))
      BY <1>1 DEF Fields, Unheard
    <3> QED BY <3>1, ProofKept
  <2> DEFINE led == is_primary(ep) /\ ep.inherited # NoMembership
             t0 == IF led THEN <<Entry(ep.inherited)>> ELSE <<>>
             s0 == IF led THEN NoMembership ELSE ep.inherited
  <2>2. ep' = started(t0, s0)
    BY <1>8 DEF StartView
  <2> HIDE DEF started, t0, s0
  <2> QED BY <2>1, <2>2
<1>9. CASE (\E d \in ep.budget.deltas : ForeignPrepare(d)) \/ ForeignCommit
  <2> DEFINE logged(s, n) == [ep EXCEPT !.inherited = s, !.foreign = n]
             learnt(w) == [ep EXCEPT !.swap = w, !.inherited = NoMembership, !.holders = {}, !.came = {}]
  <2>1. ASSUME NEW s, NEW n PROVE Unheard(ep, logged(s, n)) /\ Unheard(ep, learnt(s))
    BY <1>1 DEF Fields, Unheard
  <2>2. CASE ForeignCommit
    <3>1. ep' = learnt(ep.inherited)
      BY <2>2 DEF ForeignCommit
    <3> HIDE DEF logged, learnt
    <3> QED BY <2>1, <3>1, ProofKept
  <2>3. CASE \E d \in ep.budget.deltas : ForeignPrepare(d)
    <3>1. PICK d : ep' = [ep EXCEPT !.inherited = apply_delta(ep.live, d), !.foreign = @ + 1]
      BY <2>3, Zenon DEF ForeignPrepare
    <3>2. ep' = logged(apply_delta(ep.live, d), ep.foreign + 1)
      BY <1>1, <3>1 DEF Fields
    <3> HIDE DEF logged, learnt
    <3> QED BY <2>1, <3>2, ProofKept
  <2> QED BY <1>9, <2>2, <2>3
<1> QED BY <1>2, <1>3, <1>4, <1>5, <1>6, <1>7, <1>8, <1>9

LEMMA StepProof ==
    ASSUME ProofInv(ep), [RcNext]_rcVars
    PROVE  ProofInv(ep')
<1>1. CASE AdvancePastDeadline \/ finish_on_retire
  BY <1>1, SolicitProof DEF AdvancePastDeadline, finish_on_retire
<1>2. CASE \E t \in ep.budget.targets, down \in ep.budget.downs, ack \in BOOLEAN : StartReconfigure(t, down, ack)
  <2> DEFINE e == solicit_health_proofs(ep)
  <2>1. ep' = [e EXCEPT !.jobs = @ + 1]
    BY <1>2 DEF StartReconfigure
  <2>2. ProofInv(e)
    BY SolicitProof
  <2> HIDE DEF e
  <2>3. ProofInv(e) /\ DOMAIN e = Fields /\ e.op \in Nat
    BY <2>2 DEF ProofInv
  <2>4. Unheard(e, ep')
    BY <2>1, <2>3 DEF Fields, Unheard
  <2> QED BY <2>3, <2>4, ProofKept
<1>3. CASE UNCHANGED rcVars
  BY <1>3 DEF rcVars
<1>4. CASE \E refused \in BOOLEAN : Advance(refused)
  BY <1>4, AdvanceProof
<1> QED BY <1>1, <1>2, <1>3, <1>4, LearnerProof, EndpointProof DEF RcNext

\* Whatever the order of proofs, operations and challenges to other learners, a learner is promoted only while it
\* holds every operation below the reconfiguration (fresh_proof, and the reset of the challenge).
THEOREM PromotionsSound == RcSpec => []PromotedHoldsLog
<1>1. RcInit => ProofInv(ep)
  <2> SUFFICES ASSUME NEW b \in Scenarios, ep = RcStart(b) PROVE ProofInv(ep)
    BY DEF RcInit
  <2>1. /\ DOMAIN ep = Fields /\ ep.op = 0 /\ ep.frontier = 0 /\ ep.proof = NoProof
        /\ ep.replies = {} /\ ep.sound = TRUE
    BY DEF RcStart, Fields
  <2> QED BY <2>1, NoProofBelow DEF ProofInv
<1>2. ProofInv(ep) /\ [RcNext]_rcVars => ProofInv(ep)'
  BY StepProof
<1>3. ProofInv(ep) => PromotedHoldsLog
  BY DEF ProofInv, PromotedHoldsLog
<1> QED BY <1>1, <1>2, <1>3, PTL DEF RcSpec

=============================================================================
