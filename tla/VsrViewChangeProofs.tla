------------------------ MODULE VsrViewChangeProofs ------------------------
(***************************************************************************)
(* What the view-change and recovery operators of VsrReplica do to a       *)
(* replica that keeps the durable-view discipline: each of them keeps it,  *)
(* and none of them changes the durable root.                              *)
(***************************************************************************)
EXTENDS VsrReplicaProofs

-----------------------------------------------------------------------------
(* Leaving a view. *)

\* Dropping the continuations of pending appends is quiet, and dropping all leaves none.
LEMMA DiscardQuiet ==
    ASSUME NEW s, IsReplica(s), NEW K
    PROVE  /\ Quiet(s, discard_pending(s, K), {})
           /\ Ops \subseteq K => Kinds(discard_pending(s, K)) \subseteq {"none"}
           /\ \E w, d : discard_pending(s, K) = [s EXCEPT !.writing = w, !.deferred = d]
<1> DEFINE writing == [op \in DOMAIN s.writing |->
                         IF op \in K THEN [s.writing[op] EXCEPT !.kind = "none"] ELSE s.writing[op]]
           deferred == Without(s.deferred, K)
           t == discard_pending(s, K)
<1>1. /\ s.writing \in [DOMAIN s.writing -> AppendWrite] /\ DOMAIN s.writing \subseteq Ops
      /\ IsMap(s.deferred, Ops, AppendWrite)
  BY DEF IsReplica, IsMap
<1>2. \A op \in DOMAIN s.writing : [s.writing[op] EXCEPT !.kind = "none"] \in AppendWrite
  BY <1>1 DEF AppendWrite, Pending
<1>3. IsMap(writing, Ops, AppendWrite)
  BY <1>1, <1>2 DEF IsMap
<1>4. IsMap(deferred, Ops, AppendWrite)
  BY Zenon, <1>1, WithoutType
<1>5. \A op \in DOMAIN writing : writing[op].kind = "none" \/ (op \notin K /\ writing[op].kind \in Kinds(s))
  BY <1>1 DEF Kinds, AppendWrite
<1>6. \A op \in DOMAIN deferred : op \in Ops /\ op \notin K /\ deferred[op].kind \in Kinds(s)
  BY <1>1 DEF Kinds, Without, Restrict, IsMap
<1>7. DOMAIN writing \subseteq Ops
  BY <1>1
<1>8. t = [s EXCEPT !.writing = writing, !.deferred = deferred]
  BY DEF discard_pending
<1> HIDE DEF writing, deferred, t
<1>9. IsReplica(t) /\ t.writing = writing /\ t.deferred = deferred
  BY <1>3, <1>4, <1>8 DEF IsReplica
<1>10. Kinds(t) \subseteq Kinds(s) \cup {"none"}
  BY <1>5, <1>6, <1>9 DEF Kinds
<1>11. Ops \subseteq K => Kinds(t) \subseteq {"none"}
  BY <1>5, <1>6, <1>7, <1>9 DEF Kinds
<1>12. SameView(s, t) /\ t.inflight = s.inflight /\ t.outgoing = s.outgoing
  BY <1>8 DEF SameView, IsReplica
<1> QED BY Zenon, <1>8, <1>9, <1>10, <1>11, <1>12 DEF Quiet, Keeps, Silent, t

\* A transition to another view drops what the old one owed.
LEMMA ResetEffect ==
    ASSUME NEW s, IsReplica(s)
    PROVE  LET t == reset_for_view_transition(s)
           IN  /\ IsReplica(t) /\ Kinds(t) \subseteq {"none"}
               /\ t.status = s.status /\ t.view = s.view /\ t.durable_view = s.durable_view
               /\ t.root = s.root /\ t.roots = s.roots /\ t.catching_up = s.catching_up
               /\ t.inflight = s.inflight /\ t.outgoing = s.outgoing
<1> DEFINE u == discard_pending(s, Ops)
           t == reset_for_view_transition(s)
<1>1. Quiet(s, u, {}) /\ Kinds(u) \subseteq {"none"} /\ IsReplica(u)
  BY Zenon, DiscardQuiet DEF Quiet, Keeps
<1>2. PICK w, d : u = [s EXCEPT !.writing = w, !.deferred = d]
  BY Zenon, DiscardQuiet
<1>3. u.outgoing = s.outgoing /\ u.inflight = s.inflight
  BY <1>2 DEF IsReplica
<1>4. t = [u EXCEPT !.svc_from = {}, !.clients = s.clients \cap s.replied,
                    !.pending_forfeit = FALSE, !.nack_from = EmptyMap]
  BY DEF reset_for_view_transition
<1> HIDE DEF u, t
<1>5. IsReplica(t)
  <2>1. IsMap(EmptyMap, Ops, SUBSET Replicas) /\ s.clients \cap s.replied \subseteq Requests
    BY EmptyMapType DEF IsReplica
  <2> QED BY <1>1, <1>4, <2>1 DEF IsReplica
<1>6. /\ t.status = u.status /\ t.view = u.view /\ t.durable_view = u.durable_view
      /\ t.root = u.root /\ t.roots = u.roots /\ t.catching_up = u.catching_up
      /\ t.inflight = u.inflight /\ t.outgoing = u.outgoing
      /\ t.writing = u.writing /\ t.deferred = u.deferred
  BY <1>1, <1>4 DEF IsReplica
<1>7. Kinds(t) \subseteq {"none"}
  BY <1>1, <1>6 DEF Kinds
<1> QED BY <1>1, <1>3, <1>5, <1>6, <1>7 DEF Quiet, Keeps, SameView, t

\* Starting a new view-change collection changes status and collection alone.
LEMMA CollectionEffect ==
    ASSUME NEW s, IsReplica(s), NEW b \in BOOLEAN
    PROVE  LET t == view_change(s, b)
           IN  /\ IsReplica(t) /\ t.catching_up = b
               /\ t.status = s.status /\ t.view = s.view /\ t.durable_view = s.durable_view
               /\ t.root = s.root /\ t.roots = s.roots /\ t.pending_forfeit = s.pending_forfeit
               /\ t.inflight = s.inflight /\ t.outgoing = s.outgoing
               /\ t.writing = s.writing /\ t.deferred = s.deferred
<1>1. IsMap(EmptyMap, Replicas, Dvc)
  BY EmptyMapType
<1>2. IsReplica(view_change(s, b))
  BY <1>1 DEF view_change, IsReplica
<1> QED BY <1>2 DEF view_change, IsReplica

\* Entering the change to a view stages it as a root; the vote waits for that root.
LEMMA EnterViewChangeGood ==
    ASSUME NEW s, NEW r, Good(s, r), NEW v \in Nat, s.view <= v
    PROVE  Good(enter_view_change(s, v), r) /\ enter_view_change(s, v).root = s.root
<1> DEFINE moved == [s EXCEPT !.view = v, !.status = "ViewChange", !.svc_target = v]
           clean == reset_for_view_transition(moved)
           vc == view_change(clean, FALSE)
           t == [vc EXCEPT !.inflight = EmptyMap]
<1>1. IsReplica(moved)
  BY DEF Good, IsReplica, Status
<1>2. moved.status = "ViewChange" /\ moved.view = v /\ moved.durable_view = s.durable_view
      /\ moved.root = s.root /\ moved.roots = s.roots /\ moved.outgoing = s.outgoing
  BY DEF Good, IsReplica
<1> HIDE DEF moved
<1>3. /\ IsReplica(clean) /\ Kinds(clean) \subseteq {"none"}
      /\ clean.status = "ViewChange" /\ clean.view = v /\ clean.durable_view = s.durable_view
      /\ clean.root = s.root /\ clean.roots = s.roots /\ clean.outgoing = s.outgoing
  BY <1>1, <1>2, ResetEffect
<1> HIDE DEF clean
<1>4. /\ IsReplica(vc) /\ vc.catching_up = FALSE
      /\ vc.status = "ViewChange" /\ vc.view = v /\ vc.durable_view = s.durable_view
      /\ vc.root = s.root /\ vc.roots = s.roots /\ vc.outgoing = s.outgoing
      /\ vc.writing = clean.writing /\ vc.deferred = clean.deferred
  BY Zenon, <1>3, CollectionEffect
<1> HIDE DEF vc
<1>5. IsReplica(t)
  BY <1>4, EmptyMapType DEF IsReplica
<1>6. /\ t.catching_up = FALSE
      /\ t.status = "ViewChange" /\ t.view = v /\ t.durable_view = s.durable_view
      /\ t.root = s.root /\ t.roots = s.roots /\ t.outgoing = s.outgoing
      /\ t.writing = clean.writing /\ t.deferred = clean.deferred /\ DOMAIN t.inflight = {}
  BY <1>4, EmptyMapType DEF IsReplica
<1> HIDE DEF t
<1>7. Kinds(t) \subseteq {"none"}
  BY <1>3, <1>6 DEF Kinds
<1>8. s.view \in Nat /\ s.root.view \in Nat /\ \A i \in DOMAIN s.roots : s.roots[i].root.view \in Nat
  BY Zenon, RootsType DEF Good, IsReplica
<1>9. RootsOrdered(t)
  BY <1>6, <1>8 DEF Good, DurableView, RootsOrdered
<1>10. Speaks(t, r)
  BY <1>6 DEF Good, Speaks
<1>11. "SendDoViewChange" \in SbAction
  BY DEF SbAction
<1>12. Good(submit_durable_view(t, "SendDoViewChange"), r)
  BY <1>5, <1>6, <1>7, <1>9, <1>10, <1>11, SubmitGood
<1>13. submit_durable_view(t, "SendDoViewChange").root = s.root
  BY <1>5, <1>6 DEF submit_durable_view, IsReplica
<1> QED BY <1>12, <1>13 DEF enter_view_change, moved, clean, vc, t

\* raise_svc_target only raises the proposed view.
LEMMA RaiseTarget ==
    ASSUME NEW s, IsReplica(s), NEW target \in Nat
    PROVE  /\ Quiet(s, raise_svc_target(s, target), {})
           /\ target <= raise_svc_target(s, target).svc_target
<1> DEFINE t == raise_svc_target(s, target)
<1>1. IsReplica(t) /\ target <= t.svc_target
  BY DEF raise_svc_target, IsReplica
<1>2. SameView(s, t) /\ t.writing = s.writing /\ t.deferred = s.deferred
      /\ t.outgoing = s.outgoing /\ t.inflight = s.inflight
  BY DEF raise_svc_target, SameView, IsReplica
<1> QED BY <1>1, <1>2, FrameQuiet

\* Joining a StartViewChange announces no view as authoritative.
LEMMA JoinQuiet ==
    ASSUME NEW s, IsReplica(s), NEW r \in Replicas
    PROVE  Quiet(s, join_svc(s, r), {}) /\ join_svc(s, r).svc_target = s.svc_target
<1> DEFINE t == [s EXCEPT !.svc_from = @ \cup {r}]
           ms == {StartViewChange(s, r)}
<1>1. IsReplica(t) /\ t.svc_target = s.svc_target
  BY DEF IsReplica
<1>2. Quiet(s, t, {})
  BY Zenon, <1>1, FrameQuiet DEF SameView, IsReplica
<1>3. ms \in SUBSET Message /\ \A m \in ms : ~advertises_authoritative_view(m)
  BY VoteType DEF StartViewChange, advertises_authoritative_view
<1> HIDE DEF t, ms
<1>4. Quiet(t, emit(t, ms), {})
  BY <1>1, <1>3, EmitQuiet
<1>5. Quiet(s, emit(t, ms), {})
  BY <1>2, <1>4, QuietStep
<1>6. emit(t, ms).svc_target = s.svc_target
  BY <1>1 DEF emit, IsReplica
<1> QED BY <1>5, <1>6 DEF join_svc, t, ms

\* A StartViewChange quorum moves the replica to the view with the discipline kept.
LEMMA MaybeStartGood ==
    ASSUME NEW s, NEW r, Good(s, r), s.view <= s.svc_target
    PROVE  Good(maybe_start_view_change(s), r) /\ maybe_start_view_change(s).root = s.root
<1>1. s.svc_target \in Nat
  BY DEF Good, IsReplica
<1> QED BY <1>1, EnterViewChangeGood DEF maybe_start_view_change

\* Proposing the next view keeps the discipline.
LEMMA ProposeNextViewGood ==
    ASSUME NEW s, NEW r \in Replicas, Good(s, r)
    PROVE  Good(propose_next_view(s, r), r) /\ propose_next_view(s, r).root = s.root
<1> DEFINE u == raise_svc_target(s, s.view + 1)
           v == join_svc(u, r)
<1>1. s.view \in Nat /\ s.view + 1 \in Nat /\ IsReplica(s)
  BY DEF Good, IsReplica
<1>2. Quiet(s, u, {}) /\ s.view + 1 <= u.svc_target /\ IsReplica(u)
  BY Zenon, <1>1, RaiseTarget DEF Quiet, Keeps
<1> HIDE DEF u
<1>3. Quiet(u, v, {}) /\ v.svc_target = u.svc_target
  BY <1>2, JoinQuiet
<1> HIDE DEF v
<1>4. Quiet(s, v, {})
  BY <1>2, <1>3, QuietStep
<1>5. Good(v, r)
  BY <1>4, QuietGood
<1>6. v.view = s.view /\ v.root = s.root
  BY <1>4 DEF Quiet, Keeps, SameView
<1>7. v.view <= v.svc_target
  BY <1>1, <1>2, <1>3, <1>6 DEF IsReplica
<1> QED BY <1>5, <1>6, <1>7, MaybeStartGood DEF propose_next_view, u, v

\* Sending a DoViewChange keeps the discipline when the view is durable.
LEMMA DoViewChangeGood ==
    ASSUME NEW s, NEW r \in Replicas, Good(s, r), s.view = s.root.view
    PROVE  Good(send_do_view_change(s, r), r) /\ send_do_view_change(s, r).root = s.root
<1>1. {DoViewChange(s, r)} \in SUBSET Message
  BY VoteType DEF Good
<1>2. \A m \in {DoViewChange(s, r)} : m.from = r /\ m.view = s.view
  BY DEF DoViewChange
<1>3. Good(emit(s, {DoViewChange(s, r)}), r)
  BY <1>1, <1>2, EmitGood
<1>4. emit(s, {DoViewChange(s, r)}).root = s.root
  BY <1>1, EmitKeeps DEF Good, Keeps, SameView
<1> QED BY <1>3, <1>4 DEF send_do_view_change

\* Sending a PrepareOk keeps the discipline when the view is durable.
LEMMA PrepareOkGood ==
    ASSUME NEW s, NEW r \in Replicas, Good(s, r), s.view = s.root.view, NEW op \in Ops
    PROVE  Good(send_prepare_ok(s, r, op), r) /\ send_prepare_ok(s, r, op).root = s.root
<1>1. {PrepareOk(s, r, op)} \in SUBSET Message
  BY VoteType DEF Good
<1>2. \A m \in {PrepareOk(s, r, op)} : m.from = r /\ m.view = s.view
  BY DEF PrepareOk
<1>3. Good(emit(s, {PrepareOk(s, r, op)}), r)
  BY <1>1, <1>2, EmitGood
<1>4. emit(s, {PrepareOk(s, r, op)}).root = s.root
  BY <1>1, EmitKeeps DEF Good, Keeps, SameView
<1> QED BY <1>3, <1>4 DEF send_prepare_ok

\* A catch-up awaits no root: it has nothing to say in the view it moved to.
LEMMA CatchUpGood ==
    ASSUME NEW s, NEW r \in Replicas, Good(s, r), NEW v \in Nat, s.view <= v
    PROVE  Good(catch_up_to_view(s, r, v), r) /\ catch_up_to_view(s, r, v).root = s.root
<1> DEFINE moved == [s EXCEPT !.view = v, !.status = "ViewChange", !.svc_target = v]
           clean == reset_for_view_transition(moved)
           vc == view_change(clean, TRUE)
           u == [vc EXCEPT !.inflight = EmptyMap]
           t == abandon_root(u)
<1>1. IsReplica(moved)
  BY DEF Good, IsReplica, Status
<1>2. moved.status = "ViewChange" /\ moved.view = v /\ moved.durable_view = s.durable_view
      /\ moved.root = s.root /\ moved.roots = s.roots /\ moved.outgoing = s.outgoing
  BY DEF Good, IsReplica
<1> HIDE DEF moved
<1>3. /\ IsReplica(clean) /\ Kinds(clean) \subseteq {"none"}
      /\ clean.status = "ViewChange" /\ clean.view = v /\ clean.durable_view = s.durable_view
      /\ clean.root = s.root /\ clean.roots = s.roots /\ clean.outgoing = s.outgoing
  BY <1>1, <1>2, ResetEffect
<1> HIDE DEF clean
<1>4. /\ IsReplica(vc)
      /\ vc.status = "ViewChange" /\ vc.view = v /\ vc.durable_view = s.durable_view
      /\ vc.root = s.root /\ vc.roots = s.roots /\ vc.outgoing = s.outgoing
      /\ vc.writing = clean.writing /\ vc.deferred = clean.deferred
  BY Zenon, <1>3, CollectionEffect
<1> HIDE DEF vc
<1>5. /\ IsReplica(u)
      /\ u.status = "ViewChange" /\ u.view = v /\ u.durable_view = s.durable_view
      /\ u.root = s.root /\ u.roots = s.roots /\ u.outgoing = s.outgoing
      /\ u.writing = clean.writing /\ u.deferred = clean.deferred /\ DOMAIN u.inflight = {}
  BY <1>4, EmptyMapType DEF IsReplica
<1> HIDE DEF u
<1>6. /\ IsReplica(t) /\ t = [u EXCEPT !.roots = t.roots]
      /\ \/ s.roots = <<>> /\ t.roots = <<>>
         \/ /\ s.roots # <<>> /\ Len(t.roots) = 1 /\ DOMAIN t.roots = {1}
            /\ t.roots[1].root = s.roots[1].root /\ t.roots[1].action = "none"
  BY <1>5, AbandonRoot
<1> HIDE DEF t
<1>7. /\ t.status = "ViewChange" /\ t.view = v /\ t.durable_view = s.durable_view
      /\ t.root = s.root /\ t.outgoing = s.outgoing
      /\ t.writing = clean.writing /\ t.deferred = clean.deferred /\ DOMAIN t.inflight = {}
  BY Zenon, <1>5, <1>6 DEF IsReplica
<1>8. Kinds(t) \subseteq {"none"}
  BY <1>3, <1>7 DEF Kinds
<1>9. s.view \in Nat /\ s.root.view \in Nat /\ s.durable_view = s.root.view
      /\ s.root.view <= s.view
  BY RootsType DEF Good, IsReplica, DurableView, RootsOrdered
<1>10. RootsOrdered(t) /\ RootAwaited(t)
  <2>1. CASE s.roots = <<>>
    BY <1>6, <1>7, <1>9, <2>1 DEF RootsOrdered, RootAwaited
  <2>2. CASE s.roots # <<>>
    <3>1. 1 \in DOMAIN s.roots
      BY <2>2, RootsType DEF Good, IsReplica
    <3>2. s.roots[1].root.view \in Nat /\ s.root.view <= s.roots[1].root.view
          /\ s.roots[1].root.view <= s.view
      BY <3>1, RootsType DEF Good, DurableView, RootsOrdered
    <3>3. Len(t.roots) = 1 /\ DOMAIN t.roots = {1} /\ t.roots[1].root.view = s.roots[1].root.view
          /\ t.roots[1].action = "none"
      BY <1>6, <2>2
    <3> QED BY <1>7, <1>9, <3>2, <3>3 DEF RootsOrdered, RootAwaited
  <2> QED BY <2>1, <2>2
<1>11. DurableView(t, r)
  BY <1>7, <1>8, <1>10 DEF DurableView
<1>12. Good(t, r)
  BY <1>6, <1>7, <1>11 DEF Good, Speaks
<1>13. {GetView(t, r)} \in SUBSET Message
       /\ \A m \in {GetView(t, r)} : ~advertises_authoritative_view(m)
  <2>1. GetView(t, r) \in Message
    BY <1>6, AnnounceType
  <2>2. GetView(t, r).type = "GetView"
    BY DEF GetView
  <2> QED BY <2>1, <2>2 DEF advertises_authoritative_view
<1>14. Quiet(t, emit(t, {GetView(t, r)}), {})
  BY <1>6, <1>13, EmitQuiet
<1>15. Good(emit(t, {GetView(t, r)}), r) /\ emit(t, {GetView(t, r)}).root = s.root
  BY <1>7, <1>12, <1>14, QuietGood DEF Quiet, Keeps, SameView
<1> QED BY <1>15 DEF catch_up_to_view, send_get_view, moved, clean, vc, u, t

\* A reverted catch-up lands on the newest view storage was given.
LEMMA RevertGood ==
    ASSUME NEW s, NEW r, Good(s, r), s.status = "ViewChange",
           NEW v \in Nat, v = Max2(s.durable_view, effective_root(s).view), v < s.view
    PROVE  /\ Good(revert_catch_up_to_effective_view(s, r, v), r)
           /\ revert_catch_up_to_effective_view(s, r, v).root = s.root
<1> DEFINE u == view_change(s, FALSE)
           t == revert_catch_up_to_effective_view(s, r, v)
<1>1. IsReplica(s) /\ s.view \in Nat /\ s.durable_view \in Nat /\ s.durable_view = s.root.view
  BY DEF Good, IsReplica, DurableView, RootsOrdered
<1>2. /\ IsReplica(u) /\ u.catching_up = FALSE
      /\ u.durable_view = s.durable_view
      /\ u.root = s.root /\ u.roots = s.roots /\ u.outgoing = s.outgoing
      /\ u.writing = s.writing /\ u.deferred = s.deferred
  BY Zenon, <1>1, CollectionEffect
<1>3. t = [u EXCEPT !.view = v, !.svc_target = v, !.svc_from = {}, !.status = "Normal",
                    !.pending_forfeit = @ \/ Primary(v) = r]
  BY DEF revert_catch_up_to_effective_view
<1> HIDE DEF u, t
<1>4. (u.pending_forfeit \/ Primary(v) = r) \in BOOLEAN
  OBVIOUS
<1>5. IsReplica(t)
  BY <1>2, <1>3, <1>4 DEF IsReplica, Status
<1>6. /\ t.status = "Normal" /\ t.view = v /\ t.durable_view = s.durable_view
      /\ t.root = s.root /\ t.roots = s.roots /\ t.outgoing = s.outgoing
      /\ t.writing = s.writing /\ t.deferred = s.deferred /\ t.catching_up = FALSE
      /\ Primary(v) = r => t.pending_forfeit
  BY Zenon, <1>2, <1>3 DEF IsReplica
<1>7. Kinds(t) = Kinds(s) /\ Kinds(s) \subseteq {"RepairFill", "none"}
  BY <1>6 DEF Kinds, Good, DurableView
<1>8. /\ Len(s.roots) \in Nat /\ DOMAIN s.roots = 1 .. Len(s.roots)
      /\ \A i \in DOMAIN s.roots : s.roots[i].root.view \in Nat
      /\ s.root.view \in Nat
  BY <1>1, RootsType
<1>9. effective_root(s).view \in Nat
      /\ \A i \in DOMAIN s.roots : s.roots[i].root.view <= effective_root(s).view
                                   /\ (i = Len(s.roots) => s.roots[i].root.view = effective_root(s).view)
  <2>1. CASE s.roots = <<>>
    BY <1>8, <2>1 DEF effective_root
  <2>2. CASE s.roots # <<>>
    <3>1. Len(s.roots) \in DOMAIN s.roots
      BY <1>1, <1>8, <2>2 DEF IsReplica
    <3>2. effective_root(s).view = s.roots[Len(s.roots)].root.view
      BY <2>2 DEF effective_root
    <3>3. \A i \in DOMAIN s.roots : s.roots[i].root.view <= s.roots[Len(s.roots)].root.view
      BY <1>8, <3>1 DEF Good, DurableView, RootsOrdered
    <3> QED BY <1>8, <3>1, <3>2, <3>3
  <2> QED BY <2>1, <2>2
<1>10. s.durable_view <= v /\ effective_root(s).view <= v
  BY <1>1, <1>9, Max2Type
<1>11. RootsOrdered(t)
  <2>1. \A i \in DOMAIN s.roots : s.roots[i].root.view <= v
    BY <1>8, <1>9, <1>10
  <2> QED BY <1>1, <1>6, <1>10, <2>1 DEF Good, DurableView, RootsOrdered
<1>12. RootAwaited(t)
  <2>1. \A i \in DOMAIN s.roots : s.roots[i].action = "none"
    <3> SUFFICES ASSUME NEW i \in DOMAIN s.roots, s.roots[i].action # "none" PROVE FALSE
      OBVIOUS
    <3>1. i = Len(s.roots) /\ s.roots[i].root.view = s.view
      BY DEF Good, DurableView, RootAwaited
    <3>2. s.roots[i].root.view = effective_root(s).view
      BY <1>9, <3>1
    <3> QED BY <1>1, <1>9, <1>10, <3>1, <3>2
  <2> QED BY <1>6, <2>1 DEF RootAwaited
<1>13. DurableView(t, r)
  BY <1>6, <1>7, <1>11, <1>12 DEF DurableView, is_primary
<1> QED BY <1>5, <1>6, <1>13 DEF Good, Speaks, t

-----------------------------------------------------------------------------
(* Forming and adopting a view. *)

\* The canonical log selected from typed DoViewChanges is typed.
LEMMA SelectType ==
    ASSUME NEW dvcs, IsMap(dvcs, Replicas, Dvc), DOMAIN dvcs # {}
    PROVE  LET star == select_canonical_log(dvcs)
           IN  star.op \in Frontier /\ star.commit \in Frontier /\ IsMap(star.log, Ops, Requests)
<1> DEFINE D == DOMAIN dvcs
           log_view_star == Max({dvcs[q].log_view : q \in D})
           canonical == {q \in D : dvcs[q].log_view = log_view_star}
           claimed == Max({dvcs[q].op : q \in canonical})
           max_present == Max({0} \cup UNION {DOMAIN dvcs[q].log : q \in canonical})
           commit_star == Max({dvcs[q].commit : q \in D})
           head == Min2(claimed, Max2(max_present, commit_star))
           lacked == {op \in 0 .. MaxOp :
                        Cardinality({q \in D : dvcs[q].op <= op}) >= quorum_nack_prepare(N)}
           op_head == IF lacked = {} THEN head ELSE Min2(head, Max2(Min(lacked), commit_star))
           held(op) == {q \in canonical : op \in DOMAIN dvcs[q].log}
           log == [op \in {o \in 1 .. op_head : held(o) # {}} |-> dvcs[Min(held(op))].log[op]]
<1>1. D \subseteq 0 .. (N - 1) /\ D \subseteq Nat /\ D # {} /\ N \in Nat /\ MaxOp \in Nat
  BY FrontierType DEF IsMap, Replicas
<1>2. \A q \in D : /\ dvcs[q].log_view \in Nat /\ dvcs[q].op \in 0 .. MaxOp
                   /\ dvcs[q].commit \in 0 .. MaxOp /\ IsMap(dvcs[q].log, Ops, Requests)
  <2> SUFFICES ASSUME NEW q \in D
               PROVE  /\ dvcs[q].log_view \in Nat /\ dvcs[q].op \in 0 .. MaxOp
                      /\ dvcs[q].commit \in 0 .. MaxOp /\ IsMap(dvcs[q].log, Ops, Requests)
    OBVIOUS
  <2>1. dvcs[q] \in Dvc
    BY DEF IsMap
  <2>2. dvcs[q].log_view \in Nat /\ dvcs[q].op \in 0 .. MaxOp /\ dvcs[q].commit \in 0 .. MaxOp
        /\ dvcs[q].log \in MapsTo(Ops, Requests)
    BY <2>1 DEF Dvc, Frontier
  <2> QED BY <2>2, MapsToIsMap
<1>3. canonical # {} /\ canonical \subseteq D
  <2> DEFINE f == [q \in D |-> dvcs[q].log_view]
  <2>1. f \in [D -> Nat]
    BY <1>2
  <2>2. Max({f[q] : q \in D}) \in {f[q] : q \in D}
    BY Zenon, <1>1, <2>1, ImageMax
  <2>3. {f[q] : q \in D} = {dvcs[q].log_view : q \in D}
    OBVIOUS
  <2>4. log_view_star \in {dvcs[q].log_view : q \in D}
    BY <2>2, <2>3
  <2> QED BY <2>4
<1> HIDE DEF log_view_star, D
<1>4. claimed \in 0 .. MaxOp
  <2>1. {dvcs[q].op : q \in canonical} \subseteq 0 .. MaxOp /\ {dvcs[q].op : q \in canonical} # {}
    BY <1>2, <1>3
  <2> QED BY <1>1, <2>1, MaxMember
<1>5. max_present \in 0 .. MaxOp
  <2> DEFINE S == {0} \cup UNION {DOMAIN dvcs[q].log : q \in canonical}
  <2>1. \A q \in canonical : DOMAIN dvcs[q].log \subseteq 0 .. MaxOp
    BY <1>2, <1>3, FrontierType DEF IsMap, Frontier
  <2>2. S \subseteq 0 .. MaxOp
    <3> SUFFICES ASSUME NEW x \in S PROVE x \in 0 .. MaxOp
      BY Zenon
    <3>1. CASE x = 0
      BY <1>1, <3>1
    <3>2. CASE x # 0
      <4>1. PICK q \in canonical : x \in DOMAIN dvcs[q].log
        BY <3>2, Zenon
      <4> QED BY <2>1, <4>1
    <3> QED BY <3>1, <3>2
  <2>3. S # {}
    OBVIOUS
  <2> QED BY <1>1, <2>2, <2>3, MaxMember
<1>6. commit_star \in 0 .. MaxOp
  <2>1. {dvcs[q].commit : q \in D} \subseteq 0 .. MaxOp /\ {dvcs[q].commit : q \in D} # {}
    BY Zenon, <1>1, <1>2
  <2> QED BY <1>1, <2>1, MaxMember
<1>7. lacked # {} => Min(lacked) \in 0 .. MaxOp
  <2>1. lacked \subseteq 0 .. MaxOp /\ lacked \subseteq Nat
    OBVIOUS
  <2> HIDE DEF lacked
  <2> QED BY Zenon, <2>1, MinMember
<1> HIDE DEF claimed, max_present, commit_star, lacked
<1>8. head \in 0 .. MaxOp
  BY <1>4, <1>5, <1>6 DEF Min2, Max2
<1> HIDE DEF head
<1>9. op_head \in 0 .. MaxOp
  BY <1>6, <1>7, <1>8 DEF Min2, Max2
<1> HIDE DEF op_head, canonical
<1>10. IsMap(log, Ops, Requests)
  <2>1. ASSUME NEW op \in 1 .. op_head, held(op) # {}
        PROVE  op \in Ops /\ dvcs[Min(held(op))].log[op] \in Requests
    <3>1. held(op) \subseteq Nat /\ held(op) \subseteq D
      BY Zenon, <1>1, <1>3
    <3>2. Min(held(op)) \in held(op)
      BY <2>1, <3>1, MinMember
    <3> DEFINE q == Min(held(op))
    <3>3. q \in D /\ op \in DOMAIN dvcs[q].log
      BY <3>1, <3>2
    <3> HIDE DEF q
    <3>4. dvcs[q].log[op] \in Requests
      BY <1>2, <3>3 DEF IsMap
    <3>5. op \in Ops
      BY <1>1, <1>9, <2>1 DEF Ops
    <3> QED BY <3>4, <3>5 DEF q
  <2> QED BY Zenon, <2>1 DEF IsMap
<1>11. select_canonical_log(dvcs) =
         [op |-> op_head, commit |-> commit_star, sound |-> commit_star <= head, log |-> log]
  BY Zenon DEF select_canonical_log, D, log_view_star, canonical, claimed, max_present, commit_star,
         head, lacked, op_head
<1> HIDE DEF log
<1> QED BY <1>6, <1>9, <1>10, <1>11 DEF Frontier

\* reconcile_session_watermarks touches the sessions alone.
LEMMA ReconcileQuiet ==
    ASSUME NEW s, IsReplica(s) PROVE Quiet(s, reconcile_session_watermarks(s), {})
<1>1. IsReplica(reconcile_session_watermarks(s))
  BY DEF reconcile_session_watermarks, IsReplica
<1> QED BY Zenon, <1>1, FrameQuiet DEF reconcile_session_watermarks, SameView, IsReplica

\* adopt_log touches no view or root and sends nothing.
LEMMA AdoptLogQuiet ==
    ASSUME NEW s, IsReplica(s), NEW entries, IsMap(entries, Ops, Requests)
    PROVE  Quiet(s, adopt_log(s, entries), {})
<1> DEFINE kept == {op \in DOMAIN s.log : op <= s.commit_min} \ DOMAIN entries
           has(op) == Present(s, op) /\ s.log[op].req = entries[op]
           adopted == [op \in kept \cup DOMAIN entries |->
                         IF op \in kept THEN s.log[op]
                         ELSE [req |-> entries[op], body |-> IF has(op) THEN "Present" ELSE "Repairing"]]
           u == [s EXCEPT !.log = adopted]
<1>1. \A op \in DOMAIN entries : entries[op] \in Requests /\ op \in Ops
  BY DEF IsMap
<1>2. \A op \in DOMAIN entries :
        [req |-> entries[op], body |-> IF has(op) THEN "Present" ELSE "Repairing"] \in LogEntry
  BY <1>1 DEF LogEntry
<1>3. IsMap(adopted, Ops, LogEntry)
  BY <1>1, <1>2, LogType DEF IsMap
<1> HIDE DEF adopted
<1>4. IsReplica(u)
  BY <1>3 DEF IsReplica
<1>5. Quiet(s, u, {})
  BY Zenon, <1>4, FrameQuiet DEF SameView, IsReplica
<1> HIDE DEF u
<1>6. Quiet(u, reconcile_session_watermarks(u), {})
  BY <1>4, ReconcileQuiet
<1>7. Quiet(s, reconcile_session_watermarks(u), {})
  BY <1>5, <1>6, QuietStep
<1> QED BY <1>7 DEF adopt_log, u, adopted

\* Adopting the canonical log touches no view or root and announces none.
LEMMA AdoptStarQuiet ==
    ASSUME NEW s, IsReplica(s), NEW r \in Replicas, NEW star,
           star.op \in Frontier, star.commit \in Frontier, IsMap(star.log, Ops, Requests)
    PROVE  Quiet(s, adopt_star(s, r, star), {})
<1> DEFINE a == assert(s, star.sound)
           b == adopt_log(a, star.log)
           c == [b EXCEPT !.op = star.op, !.commit_max = star.commit, !.repair = @ \ DOMAIN star.log]
           t == advance_commit(c, r, star.commit)
<1>1. Quiet(s, a, {}) /\ IsReplica(a)
  BY AssertQuiet DEF Quiet, Keeps
<1> HIDE DEF a
<1>2. Quiet(a, b, {}) /\ IsReplica(b)
  BY <1>1, AdoptLogQuiet DEF Quiet, Keeps
<1> HIDE DEF b
<1>3. IsReplica(c)
  BY Zenon, <1>2 DEF IsReplica
<1>4. Quiet(b, c, {})
  BY Zenon, <1>2, <1>3, FrameQuiet DEF SameView, IsReplica
<1> HIDE DEF c
<1>5. Quiet(c, t, {})
  BY <1>3, AdvanceCommitQuiet
<1> HIDE DEF t
<1>6. Quiet(s, b, {})
  BY <1>1, <1>2, QuietStep
<1>7. Quiet(s, c, {})
  BY <1>4, <1>6, QuietStep
<1>8. Quiet(s, t, {})
  BY <1>5, <1>7, QuietStep
<1> QED BY <1>8 DEF adopt_star, a, b, c, t

\* Cutting the log at an uncommitted gap touches no view or root.
LEMMA CutQuiet ==
    ASSUME NEW s, IsReplica(s) PROVE Quiet(s, cut_at_gap(s), {})
<1> DEFINE gaps == {op \in (s.commit_max + 1) .. s.op : ~Held(s, op)}
           op == Min(gaps) - 1
           above == (op + 1) .. MaxOp
           t == cut_at_gap(s)
<1>1. CASE gaps = {}
  BY <1>1, FrameQuiet DEF cut_at_gap, SameView
<1>2. CASE gaps # {}
  <2>1. gaps \subseteq Ops /\ gaps \subseteq Nat
    BY ConstantsAssumption DEF IsReplica, Frontier, Ops
  <2>2. Min(gaps) \in gaps
    BY <1>2, <2>1, MinMember
  <2>3. op \in Frontier
    BY <2>1, <2>2, ConstantsAssumption DEF Ops, Frontier
  <2>4. t = [s EXCEPT !.op = op, !.log = Without(s.log, above), !.repair = @ \cap 1 .. op]
    BY <1>2 DEF cut_at_gap
  <2> HIDE DEF op, t, gaps, above
  <2>5. IsMap(s.log, Ops, LogEntry)
    BY DEF IsReplica
  <2>6. IsMap(Without(s.log, above), Ops, LogEntry)
    BY <2>5, WithoutType, Zenon
  <2>7. IsReplica(t)
    BY <2>3, <2>4, <2>6 DEF IsReplica
  <2>8. SameView(s, t) /\ t.writing = s.writing /\ t.deferred = s.deferred
        /\ t.outgoing = s.outgoing /\ t.inflight = s.inflight
    BY <2>4 DEF SameView, IsReplica
  <2> QED BY <2>7, <2>8, FrameQuiet DEF t
<1> QED BY <1>1, <1>2

\* Settling the log on disk and in the sessions touches no view or root.
LEMMA SettleQuiet ==
    ASSUME NEW s, IsReplica(s) PROVE Quiet(s, settle_log(s), {})
<1> DEFINE a == assert(s, committed_survives(s, s.op + 1))
           b == truncate(a, s.op)
           c == [b EXCEPT !.clients = @ \cup Range(log_entries(s))]
           t == reconcile_session_watermarks(c)
<1>1. Quiet(s, a, {}) /\ IsReplica(a)
  BY AssertQuiet DEF Quiet, Keeps
<1> HIDE DEF a
<1>2. Quiet(a, b, {}) /\ IsReplica(b)
  BY <1>1, TruncateQuiet DEF Quiet, Keeps
<1> HIDE DEF b
<1>3. Range(log_entries(s)) \subseteq Requests
  <2>1. IsMap(log_entries(s), Ops, Requests)
    BY Zenon, HeadersType DEF log_entries
  <2> QED BY <2>1 DEF Range, IsMap
<1>4. IsReplica(c)
  BY <1>2, <1>3 DEF IsReplica
<1>5. Quiet(b, c, {})
  BY Zenon, <1>2, <1>4, FrameQuiet DEF SameView, IsReplica
<1> HIDE DEF c
<1>6. Quiet(c, t, {})
  BY <1>4, ReconcileQuiet
<1> HIDE DEF t
<1>7. Quiet(s, b, {})
  BY <1>1, <1>2, QuietStep
<1>8. Quiet(s, c, {})
  BY <1>5, <1>7, QuietStep
<1>9. Quiet(s, t, {})
  BY <1>6, <1>8, QuietStep
<1> QED BY <1>9 DEF settle_log, a, b, c, t

\* Leading a view: Normal in it, with its tail under vote and its own votes in flight.
LEMMA LeadViewEffect ==
    ASSUME NEW s, IsReplica(s), NEW r \in Replicas
    PROVE  LET t == lead_view(s, r)
           IN  /\ IsReplica(t) /\ Silent(s, t)
               /\ t.status = "Normal" /\ t.catching_up = FALSE
               /\ t.view = s.view /\ t.durable_view = s.durable_view
               /\ t.root = s.root /\ t.roots = s.roots
               /\ Kinds(t) \subseteq Kinds(s) \cup {"AdoptVote", "none"}
<1> DEFINE open == (s.commit_max + 1) .. s.op
           votes == [op \in open |-> [req |-> identity(s, op), oks |-> {}]]
           u == view_change(s, FALSE)
           driving == [u EXCEPT !.log_view = s.view, !.status = "Normal",
                                !.pending_forfeit = FALSE, !.inflight = votes]
           K == {op \in (s.commit_min + 1) .. s.op : Repairing(s, op)}
           w == request_repair(driving, r, K)
           t == adopt_append(w, open, "AdoptVote")
<1>1. IsMap(votes, Ops, Inflight)
  <2>1. open \subseteq Ops
    BY ConstantsAssumption DEF IsReplica, Frontier, Ops
  <2>2. \A op \in open : [req |-> identity(s, op), oks |-> {}] \in Inflight
    BY IdentityType DEF Inflight
  <2> QED BY <2>1, <2>2 DEF IsMap
<1>2. K \subseteq Ops
  BY LogType DEF Repairing, Held
<1>3. IsReplica(u) /\ u.catching_up = FALSE /\ u.view = s.view /\ u.durable_view = s.durable_view
      /\ u.root = s.root /\ u.roots = s.roots /\ u.outgoing = s.outgoing
      /\ u.writing = s.writing /\ u.deferred = s.deferred
  BY Zenon, CollectionEffect
<1> HIDE DEF votes, K, u, open
<1>4. IsReplica(driving)
  BY <1>1, <1>3 DEF IsReplica, Status
<1>5. /\ driving.catching_up = FALSE /\ driving.view = s.view /\ driving.status = "Normal"
      /\ driving.durable_view = s.durable_view
      /\ driving.root = s.root /\ driving.roots = s.roots /\ driving.outgoing = s.outgoing
      /\ driving.writing = s.writing /\ driving.deferred = s.deferred
  BY <1>3 DEF IsReplica
<1> HIDE DEF driving
<1>6. Quiet(driving, w, {}) /\ IsReplica(w)
  BY <1>2, <1>4, RequestRepairQuiet DEF Quiet, Keeps
<1> HIDE DEF w
<1>7. Quiet(w, t, {"AdoptVote"})
  BY <1>6, AdoptAppend DEF Pending
<1> HIDE DEF t
<1>8. Quiet(driving, t, {"AdoptVote"})
  BY <1>6, <1>7, QuietStep
<1>9. Kinds(driving) = Kinds(s)
  BY <1>5 DEF Kinds
<1>10. lead_view(s, r) = t
  BY DEF lead_view, open, votes, u, driving, K, w, t
<1> QED BY <1>5, <1>8, <1>9, <1>10 DEF Quiet, Keeps, SameView, Silent

\* A new primary that starts its view keeps the discipline: it waits for its root.
LEMMA StartViewAsNewPrimaryGood ==
    ASSUME NEW s, NEW r \in Replicas, Good(s, r), s.status = "ViewChange", DOMAIN s.dvc_from # {}
    PROVE  /\ Good(start_view_as_new_primary(s, r), r)
           /\ start_view_as_new_primary(s, r).root = s.root
<1> DEFINE star == select_canonical_log(s.dvc_from)
           a == adopt_star(s, r, star)
           b == cut_at_gap(a)
           c == settle_log(b)
           d == lead_view(c, r)
<1>1. IsReplica(s) /\ IsMap(s.dvc_from, Replicas, Dvc)
  BY DEF Good, IsReplica
<1>2. star.op \in Frontier /\ star.commit \in Frontier /\ IsMap(star.log, Ops, Requests)
  BY <1>1, SelectType
<1> HIDE DEF star
<1>3. Quiet(s, a, {}) /\ IsReplica(a)
  BY <1>1, <1>2, AdoptStarQuiet DEF Quiet, Keeps
<1> HIDE DEF a
<1>4. Quiet(a, b, {}) /\ IsReplica(b)
  BY <1>3, CutQuiet DEF Quiet, Keeps
<1> HIDE DEF b
<1>5. Quiet(b, c, {}) /\ IsReplica(c)
  BY <1>4, SettleQuiet DEF Quiet, Keeps
<1> HIDE DEF c
<1>6. Quiet(s, b, {})
  BY <1>3, <1>4, QuietStep
<1>7. Quiet(s, c, {})
  BY <1>5, <1>6, QuietStep
<1>8. Good(c, r) /\ c.root = s.root /\ c.status = "ViewChange"
  BY Zenon, <1>7, QuietGood DEF Quiet, Keeps, SameView
<1>9. /\ IsReplica(d) /\ Silent(c, d)
      /\ d.status = "Normal" /\ d.catching_up = FALSE
      /\ d.view = c.view /\ d.durable_view = c.durable_view
      /\ d.root = c.root /\ d.roots = c.roots
      /\ Kinds(d) \subseteq Kinds(c) \cup {"AdoptVote", "none"}
  BY Zenon, <1>5, LeadViewEffect
<1> HIDE DEF d
<1>10. RootsOrdered(d)
  BY <1>8, <1>9 DEF Good, DurableView, RootsOrdered
<1>11. Speaks(d, r)
  BY <1>8, <1>9 DEF Good, Speaks, Silent
<1>12. Kinds(d) \cap {"Ack", "AdoptAck"} = {}
  BY <1>8, <1>9 DEF Good, DurableView
<1>13. "StartViewAsPrimary" \in SbAction
  BY DEF SbAction
<1>14. Good(submit_durable_view(d, "StartViewAsPrimary"), r)
  BY <1>9, <1>10, <1>11, <1>12, <1>13, SubmitGood
<1>15. submit_durable_view(d, "StartViewAsPrimary").root = s.root
  BY <1>8, <1>9 DEF submit_durable_view, IsReplica
<1> QED BY <1>14, <1>15 DEF start_view_as_new_primary, star, a, b, c, d

\* A new primary whose root is durable may announce its view.
LEMMA ParticipateGood ==
    ASSUME NEW s, NEW r \in Replicas, Good(s, r), s.view = s.root.view
    PROVE  /\ Good(start_view_participate(s, r), r)
           /\ SameView(s, start_view_participate(s, r))
<1> DEFINE ms == {StartView(s, r, Others(r))}
           u == emit(s, ms)
<1>1. ms \in SUBSET Message
  BY AnnounceType DEF Good, Others
<1>2. \A m \in ms : m.from = r /\ m.view = s.view
  BY DEF StartView
<1> HIDE DEF ms
<1>3. Good(u, r) /\ SameView(s, u)
  BY <1>1, <1>2, EmitGood, EmitKeeps DEF Good, Keeps
<1> HIDE DEF u
<1>4. Good(try_commit(u, r), r)
  BY <1>3, TryCommitGood DEF SameView
<1>5. SameView(s, try_commit(u, r))
  BY <1>3, TryCommitKeeps DEF Good, Keeps, SameView
<1>6. SameView(s, s)
  BY DEF SameView
<1> QED BY <1>4, <1>5, <1>6 DEF start_view_participate, u, ms

\* Adopting a canonical head: Normal in its view, which is staged as a root.
LEMMA AdoptCanonicalHeadGood ==
    ASSUME NEW s, NEW r \in Replicas, Good(s, r), NEW v \in Nat, s.view <= v,
           NEW head \in CanonicalHead
    PROVE  /\ Good(adopt_canonical_head(s, r, v, head), r)
           /\ adopt_canonical_head(s, r, v, head).root = s.root
<1> DEFINE a == assert(s, head.commit <= head.op /\ head.op >= s.commit_min)
           b == adopt_log(a, head.log)
           c == [b EXCEPT !.view = v, !.op = head.op]
           d == drop_held_from_repair(c)
           e == advance_commit(d, r, head.commit)
           f == view_change(e, FALSE)
           g == [f EXCEPT !.log_view = e.view, !.status = "Normal"]
           h == reset_for_view_transition(g)
           i == submit_durable_view(h, "AdoptedStartView")
<1>1. head.op \in Frontier /\ head.commit \in Frontier /\ IsMap(head.log, Ops, Requests)
  BY MapsToIsMap DEF CanonicalHead
<1>2. Quiet(s, a, {}) /\ IsReplica(a)
  BY AssertQuiet DEF Good, Quiet, Keeps
<1> HIDE DEF a
<1>3. Quiet(a, b, {}) /\ IsReplica(b)
  BY <1>1, <1>2, AdoptLogQuiet DEF Quiet, Keeps
<1> HIDE DEF b
<1>4. Quiet(s, b, {})
  BY <1>2, <1>3, QuietStep
<1>5. IsReplica(c)
  BY <1>1, <1>3 DEF IsReplica
<1>6. c.view = v /\ c.durable_view = b.durable_view /\ c.root = b.root /\ c.roots = b.roots
      /\ c.outgoing = b.outgoing
  BY <1>3 DEF IsReplica
<1> HIDE DEF c
<1>7. IsReplica(d)
  BY <1>5 DEF drop_held_from_repair, IsReplica
<1>8. Quiet(c, d, {})
  BY Zenon, <1>5, <1>7, FrameQuiet DEF drop_held_from_repair, SameView, IsReplica
<1> HIDE DEF d
<1>9. Quiet(d, e, {}) /\ IsReplica(e)
  BY <1>1, <1>7, AdvanceCommitQuiet DEF Quiet, Keeps
<1> HIDE DEF e
<1>10. Quiet(c, e, {})
  BY <1>8, <1>9, QuietStep
<1>11. e.view = v /\ e.durable_view = s.durable_view /\ e.root = s.root /\ e.roots = s.roots
       /\ Silent(s, e)
  BY <1>4, <1>6, <1>10 DEF Quiet, Keeps, SameView, Silent
<1>12. /\ IsReplica(f) /\ f.catching_up = FALSE /\ f.view = e.view
       /\ f.durable_view = e.durable_view /\ f.root = e.root /\ f.roots = e.roots
       /\ f.outgoing = e.outgoing
  BY Zenon, <1>9, CollectionEffect
<1> HIDE DEF f
<1>13. IsReplica(g)
  BY <1>9, <1>12 DEF IsReplica, Status
<1>14. /\ g.status = "Normal" /\ g.catching_up = FALSE /\ g.view = e.view
       /\ g.durable_view = e.durable_view /\ g.root = e.root /\ g.roots = e.roots
       /\ g.outgoing = e.outgoing
  BY <1>12 DEF IsReplica
<1> HIDE DEF g
<1>15. /\ IsReplica(h) /\ Kinds(h) \subseteq {"none"}
       /\ h.status = "Normal" /\ h.catching_up = FALSE /\ h.view = v
       /\ h.durable_view = s.durable_view /\ h.root = s.root /\ h.roots = s.roots
       /\ h.outgoing = e.outgoing
  BY <1>11, <1>13, <1>14, ResetEffect
<1> HIDE DEF h
<1>16. s.view \in Nat /\ s.root.view \in Nat /\ \A k \in DOMAIN s.roots : s.roots[k].root.view \in Nat
  BY Zenon, RootsType DEF Good, IsReplica
<1>17. RootsOrdered(h)
  <2>1. RootsOrdered(s)
    BY DEF Good, DurableView
  <2>2. h.durable_view = h.root.view /\ h.root.view <= h.view /\ Len(h.roots) <= 2
    BY <1>15, <1>16, <2>1 DEF RootsOrdered
  <2>3. \A k \in DOMAIN h.roots : h.root.view <= h.roots[k].root.view /\ h.roots[k].root.view <= h.view
    BY <1>15, <1>16, <2>1 DEF RootsOrdered
  <2>4. \A k, l \in DOMAIN h.roots : k <= l => h.roots[k].root.view <= h.roots[l].root.view
    BY <1>15, <2>1 DEF RootsOrdered
  <2> QED BY <2>2, <2>3, <2>4 DEF RootsOrdered
<1>18. Speaks(h, r)
  BY <1>11, <1>15 DEF Good, Speaks, Silent
<1>19. "AdoptedStartView" \in SbAction
  BY DEF SbAction
<1>20. Kinds(h) \cap {"Ack", "AdoptAck"} = {}
  BY <1>15
<1>21. Good(i, r)
  BY <1>15, <1>17, <1>18, <1>19, <1>20, SubmitGood
<1>22. i.root = s.root
  BY <1>15 DEF submit_durable_view, IsReplica
<1>23. i = follow_view(e)
  BY DEF follow_view, f, g, h, i
<1> HIDE DEF i
<1> DEFINE j == assert(i, committed_survives(i, i.op + 1))
           t == truncate(j, i.op)
<1>24. Quiet(i, j, {}) /\ IsReplica(j)
  BY <1>21, AssertQuiet DEF Good, Quiet, Keeps
<1> HIDE DEF j
<1>25. Quiet(j, t, {})
  BY <1>24, TruncateQuiet
<1> HIDE DEF t
<1>26. Quiet(i, t, {})
  BY <1>24, <1>25, QuietStep
<1>27. Good(t, r) /\ t.root = s.root
  BY Zenon, <1>21, <1>22, <1>26, QuietGood DEF Quiet, Keeps, SameView
<1>28. adopt_canonical_head(s, r, v, head) = truncate_wal_above_adopted_head(i)
  BY <1>23 DEF adopt_canonical_head, adopt_head, a, b, c, d, e
<1> QED BY <1>27, <1>28 DEF truncate_wal_above_adopted_head, j, t

\* A backup that follows a durable view may acknowledge the adopted tail.
LEMMA StartViewAcksGood ==
    ASSUME NEW s, NEW r, Good(s, r), s.status = "Normal", s.view = s.durable_view
    PROVE  Good(start_view_acks(s), r) /\ start_view_acks(s).root = s.root
<1> DEFINE K == (Max2(s.commit_min, s.commit_max) + 1) .. s.op
<1> HIDE DEF K
<1>1. Quiet(s, adopt_append(s, K, "AdoptAck"), {"AdoptAck"})
  BY AdoptAppend DEF Good, Pending
<1>2. Good(adopt_append(s, K, "AdoptAck"), r)
  BY <1>1, QuietGood
<1> QED BY <1>1, <1>2 DEF start_view_acks, K, Quiet, Keeps, SameView

\* Retrying the appends of the adopted tail keeps the discipline.
LEMMA RetryTailGood ==
    ASSUME NEW s, NEW r, Good(s, r)
    PROVE  /\ Good(retry_unappended_adopted_tail(s, r), r)
           /\ retry_unappended_adopted_tail(s, r).root = s.root
<1> DEFINE tail == (Max2(s.commit_min, s.commit_max) + 1) .. s.op
           missing == {op \in tail : op \notin appending(s) /\ ~op_durably_appended(s, op)}
           kind == IF is_primary(s, r) THEN "AdoptVote" ELSE "AdoptAck"
           t == adopt_append(s, missing, kind)
<1>1. CASE s.status # "Normal" \/ pending_durable_view(s)
  BY <1>1 DEF retry_unappended_adopted_tail
<1>2. CASE ~(s.status # "Normal" \/ pending_durable_view(s))
  <2>1. kind \in Pending
    BY DEF Pending
  <2>2. retry_unappended_adopted_tail(s, r) = t
    BY <1>2 DEF retry_unappended_adopted_tail
  <2> HIDE DEF kind, missing
  <2>3. Quiet(s, t, {kind})
    BY <2>1, AdoptAppend DEF Good
  <2>4. ~s.catching_up
    BY <1>2 DEF Good, DurableView
  <2>5. s.view = s.durable_view
    BY <1>2, <2>4, NotPending
  <2>6. Good(t, r)
    BY <1>2, <2>3, <2>5, QuietGood
  <2> QED BY <2>2, <2>3, <2>6 DEF Quiet, Keeps, SameView
<1> QED BY <1>1, <1>2

-----------------------------------------------------------------------------
(* Recovery. *)

\* A replica as read from its superblock and WAL keeps the discipline.
LEMMA BootedGood ==
    ASSUME NEW root \in Root, NEW wal, IsMap(wal, Ops, WalSlot), NEW op \in Frontier,
           NEW log, IsMap(log, Ops, LogEntry), NEW nonce \in Nat, NEW r
    PROVE  Good(Booted(root, wal, op, log, nonce), r)
<1> DEFINE s == Booted(root, wal, op, log, nonce)
<1>1. root.view \in Nat /\ root.log_view \in Nat /\ root.commit \in Frontier
  BY DEF Root
<1>2. /\ IsMap(EmptyMap, Ops, Inflight) /\ IsMap(EmptyMap, Ops, SUBSET Replicas)
      /\ IsMap(EmptyMap, Replicas, Dvc) /\ IsMap(EmptyMap, Ops, AppendWrite)
      /\ DOMAIN EmptyMap = {}
  BY EmptyMapType
<1>3. <<>> \in Seq(RootWrite)
  OBVIOUS
<1>4. IsReplica(s)
  BY Zenon, <1>1, <1>2, <1>3, FrontierType DEF Booted, IsReplica, Status
<1>5. /\ s.status = "Normal" /\ s.view = root.view /\ s.durable_view = root.view /\ s.root = root
      /\ s.roots = <<>> /\ s.catching_up = FALSE /\ s.outgoing = {}
      /\ s.writing = EmptyMap /\ s.deferred = EmptyMap
  BY DEF Booted
<1>6. Kinds(s) = {}
  BY <1>2, <1>5 DEF Kinds
<1> HIDE DEF s
<1>7. RootsOrdered(s) /\ RootAwaited(s)
  <2>1. s.durable_view = s.root.view /\ s.root.view <= s.view
    BY <1>1, <1>5
  <2>2. Len(s.roots) = 0 /\ DOMAIN s.roots = {}
    BY <1>5
  <2>3. RootsOrdered(s)
    BY <2>1, <2>2 DEF RootsOrdered
  <2>4. RootAwaited(s)
    BY <2>2 DEF RootAwaited
  <2> QED BY <2>3, <2>4
<1>8. DurableView(s, r)
  BY <1>5, <1>6, <1>7 DEF DurableView
<1>9. Speaks(s, r)
  BY <1>5 DEF Speaks
<1> QED BY <1>4, <1>5, <1>8, <1>9 DEF Good, s

\* The end of recovery (resume, view change or RecoveringHead) keeps the discipline.
LEMMA CompleteRecoveryGood ==
    ASSUME NEW s, NEW r, Good(s, r)
    PROVE  Good(complete_recovery(s, r), r) /\ complete_recovery(s, r).root = s.root
<1>1. s.view \in Nat /\ s.view + 1 \in Nat /\ s.view <= s.view /\ s.view <= s.view + 1
  BY DEF Good, IsReplica
<1>2. Good(enter_view_change(s, s.view), r) /\ enter_view_change(s, s.view).root = s.root
  BY <1>1, EnterViewChangeGood
<1>3. Good(enter_view_change(s, s.view + 1), r) /\ enter_view_change(s, s.view + 1).root = s.root
  BY <1>1, EnterViewChangeGood
<1> QED BY <1>2, <1>3 DEF complete_recovery

\* A restart keeps the discipline and the durable root.
LEMMA RecoverGood ==
    ASSUME NEW root \in Root, NEW wal, IsMap(wal, Ops, WalSlot), NEW r \in Replicas,
           NEW nonce \in Nat
    PROVE  Good(recover(root, wal, r, nonce), r) /\ recover(root, wal, r, nonce).root = root
<1> DEFINE op == Max({0} \cup DOMAIN wal \cup DOMAIN root.headers)
           verified == {o \in DOMAIN wal : classify_committed_slot(root, wal[o], o)}
           known == DOMAIN root.headers \ DOMAIN wal
           entry(o) == IF o \in known THEN [req |-> root.headers[o], body |-> "Repairing"]
                       ELSE [req |-> wal[o].req, body |-> IF wal[o].clean THEN "Present" ELSE "Repairing"]
           unsure == op > root.commit /\ op \in verified \cup known /\ entry(op).body = "Repairing"
           held == (verified \cup known) \ (IF unsure THEN {op} ELSE {})
           log == [o \in held |-> entry(o)]
           s == Booted(root, wal, op, log, nonce)
           t == [s EXCEPT !.status = "RecoveringHead"]
<1>1. IsMap(root.headers, Ops, Requests)
  BY MapsToIsMap DEF Root
<1>2. op \in Frontier
  <2> DEFINE S == {0} \cup DOMAIN wal \cup DOMAIN root.headers
  <2>1. S \subseteq 0 .. MaxOp /\ S # {}
    BY <1>1, FrontierType DEF IsMap, Frontier
  <2> QED BY <2>1, FrontierType, MaxMember DEF Frontier
<1>3. \A o \in verified \cup known : o \in Ops /\ entry(o) \in LogEntry
  <2>1. \A o \in known : o \in Ops /\ entry(o) \in LogEntry
    BY <1>1 DEF IsMap, LogEntry
  <2>2. \A o \in verified : o \in Ops /\ o \in DOMAIN wal /\ o \notin known /\ wal[o].req \in Requests
    BY DEF IsMap, WalSlot
  <2>3. \A o \in verified : entry(o) \in LogEntry
    BY <2>2 DEF LogEntry
  <2> QED BY <2>1, <2>2, <2>3
<1> HIDE DEF op, verified, known, unsure
<1>4. IsMap(log, Ops, LogEntry)
  BY Zenon, <1>3 DEF IsMap
<1> HIDE DEF log
<1>5. Good(s, r) /\ s.root = root
  BY Zenon, <1>2, <1>4, BootedGood DEF Booted
<1>6. s.roots = <<>> /\ s.view = s.durable_view /\ s.catching_up = FALSE /\ s.outgoing = {}
      /\ s.writing = EmptyMap /\ s.deferred = EmptyMap
  BY DEF Booted
<1> HIDE DEF s, held
<1>7. IsReplica(t)
  BY <1>5 DEF Good, IsReplica, Status
<1>8. t.status = "RecoveringHead" /\ t.view = s.view /\ t.durable_view = s.durable_view
      /\ t.root = s.root /\ t.roots = <<>> /\ t.catching_up = FALSE /\ t.outgoing = {}
      /\ t.writing = EmptyMap /\ t.deferred = EmptyMap
  BY <1>5, <1>6 DEF Good, IsReplica
<1> HIDE DEF t
<1>9. RootsOrdered(t) /\ RootAwaited(t)
  <2>1. s.durable_view = s.root.view /\ s.root.view <= s.view
    BY <1>5 DEF Good, DurableView, RootsOrdered
  <2>2. t.durable_view = t.root.view /\ t.root.view <= t.view
    BY <2>1, <1>8
  <2>3. Len(t.roots) <= 2 /\ DOMAIN t.roots = {}
    BY <1>8
  <2> QED BY <2>2, <2>3 DEF RootsOrdered, RootAwaited
<1>10. Kinds(t) = {}
  BY <1>8, EmptyMapType DEF Kinds
<1>11. DurableView(t, r)
  BY <1>8, <1>9, <1>10 DEF DurableView
<1>12. Good(t, r)
  BY <1>7, <1>8, <1>11 DEF Good, Speaks
<1>13. {Recovery(s, r)} \in SUBSET Message
       /\ \A m \in {Recovery(s, r)} : ~advertises_authoritative_view(m)
  <2>1. Recovery(s, r) \in Message
    BY <1>5, AnnounceType DEF Good
  <2>2. Recovery(s, r).type = "Recovery"
    BY DEF Recovery
  <2> QED BY <2>1, <2>2 DEF advertises_authoritative_view
<1>14. Quiet(t, emit(t, {Recovery(s, r)}), {})
  BY <1>7, <1>13, EmitQuiet
<1>15. Good(emit(t, {Recovery(s, r)}), r) /\ emit(t, {Recovery(s, r)}).root = root
  BY Zenon, <1>5, <1>8, <1>12, <1>14, QuietGood DEF Quiet, Keeps, SameView
<1>16. Good(complete_recovery(s, r), r) /\ complete_recovery(s, r).root = root
  BY <1>5, CompleteRecoveryGood
<1> QED BY Zenon, <1>15, <1>16 DEF recover, op, verified, known, unsure, held, log, s, t

=============================================================================
