--------------------------- MODULE VsrHandlerProofs ---------------------------
(***************************************************************************)
(* The inductive invariant of Vsr, and the steps of normal operation and   *)
(* of the view change that preserve it.  The invariant is the type         *)
(* invariant with the durable-view discipline and, for every replica, what *)
(* DurableView says of it: see VsrReplica.  VsrProofs has the other steps  *)
(* and the theorems.                                                       *)
(***************************************************************************)
EXTENDS Vsr, VsrViewChangeProofs

IInv == TypeOK /\ DurableViewInv /\ DurableViewBeforeParticipate

\* What every step shows.
Shown == IInv' /\ VoteIsFinal

-----------------------------------------------------------------------------
(* From one replica to the cluster. *)

\* Between steps every replica keeps the discipline of VsrReplicaProofs.
LEMMA ReplicaGood ==
    ASSUME IInv, NEW r \in Replicas
    PROVE  Good(st[r], r)
BY DEF IInv, TypeOK, DurableViewInv, Good, Speaks

\* The fields of a message, by its type.
LEMMA MessageTypes ==
    ASSUME NEW m \in Message
    PROVE  /\ m.from \in Replicas /\ m.to \in SUBSET Replicas
           /\ m.type \in {"Prepare", "RepairBatch"} =>
                m.view \in Nat /\ m.op \in Ops /\ m.req \in Requests /\ m.commit \in Frontier
           /\ m.type = "PrepareOk" => m.view \in Nat /\ m.op \in Ops
           /\ m.type = "Commit" => m.view \in Nat /\ m.commit \in Frontier
           /\ m.type \in {"StartViewChange", "GetView"} => m.view \in Nat
           /\ m.type = "DoViewChange" => m.view \in Nat /\ m.dvc \in Dvc
           /\ m.type = "StartView" => m.view \in Nat /\ m.head \in CanonicalHead
           /\ m.type = "RecoveryResponse" =>
                m.view \in Nat /\ m.nonce \in Nat /\ m.head \in CanonicalHead
           /\ m.type = "Recovery" => m.nonce \in Nat
           /\ m.type \in {"RequestPrepare", "RequestPrepareRange"} => m.op \in Ops
           /\ m.type = "Nack" => m.view \in Nat /\ m.op \in Ops
           /\ advertises_authoritative_view(m) => m.view \in Nat
BY DEF Message, advertises_authoritative_view

\* A step whose new replica state keeps the discipline, and whose durable view does not
\* fall, preserves the invariant and every vote: the core of the induction.
LEMMA FinishShown ==
    ASSUME IInv, NEW r \in Replicas, NEW s, Good(s, r), st[r].root.view <= s.root.view,
           Finish(r, s)
    PROVE  Shown
<1> DEFINE t == [s EXCEPT !.outgoing = {}, !.events = {}]
<1>1. IsReplica(s) /\ DurableView(s, r) /\ Speaks(s, r)
  BY DEF Good
<1>2. IsReplica(t) /\ t.outgoing = {} /\ t.events = {}
  BY <1>1 DEF IsReplica
<1>3. t.root = s.root
  BY <1>1 DEF IsReplica
<1>4. DurableView(t, r)
  <2>1. /\ t.status = s.status /\ t.view = s.view /\ t.durable_view = s.durable_view
        /\ t.roots = s.roots /\ t.catching_up = s.catching_up /\ t.inflight = s.inflight
        /\ t.writing = s.writing /\ t.deferred = s.deferred
        /\ t.pending_forfeit = s.pending_forfeit
    BY <1>1 DEF IsReplica
  <2> HIDE DEF t
  <2>2. RootsOrdered(t) /\ RootAwaited(t)
    BY <1>1, <1>3, <2>1 DEF DurableView, RootsOrdered, RootAwaited
  <2>3. Kinds(t) = Kinds(s)
    BY <2>1 DEF Kinds
  <2>4. pending_sb(t) = pending_sb(s) /\ (is_primary(t, r) <=> is_primary(s, r))
    BY <2>1 DEF pending_sb, is_primary
  <2> QED BY <1>1, <2>1, <2>2, <2>3, <2>4 DEF DurableView
<1>5. st' = [st EXCEPT ![r] = t] /\ msgs' = msgs \cup s.outgoing /\ applied' = applied \cup s.events
  BY DEF Finish
<1> HIDE DEF t
<1>6. DOMAIN st = Replicas
  BY DEF IInv, TypeOK
<1>7. st'[r] = t /\ \A q \in Replicas : q # r => st'[q] = st[q]
  BY <1>5, <1>6
<1>8. TypeOK'
  <2>1. DOMAIN st' = Replicas
    BY <1>5, <1>6
  <2>2. \A q \in Replicas : IsReplica(st'[q]) /\ st'[q].outgoing = {} /\ st'[q].events = {}
    BY <1>2, <1>7 DEF IInv, TypeOK
  <2>3. s.outgoing \subseteq Message /\ s.events \subseteq Ops \X Requests
    BY <1>1 DEF IsReplica
  <2>4. msgs' \subseteq Message /\ applied' \subseteq Ops \X Requests
    BY <1>5, <2>3 DEF IInv, TypeOK
  <2> QED BY <2>1, <2>2, <2>4 DEF TypeOK
<1>9. DurableViewInv'
  BY <1>4, <1>7 DEF IInv, DurableViewInv
<1>10. \A q \in Replicas : st[q].root.view \in Nat /\ st'[q].root.view \in Nat
                           /\ st[q].root.view <= st'[q].root.view
  <2>1. \A q \in Replicas : st[q].root.view \in Nat /\ st'[q].root.view \in Nat
    BY <1>8, RootsType DEF IInv, TypeOK
  <2> QED BY <1>3, <1>7, <2>1
<1>11. \A m \in s.outgoing : advertises_authoritative_view(m) =>
          m.from = r /\ m.view = st'[r].root.view
  BY <1>1, <1>3, <1>7 DEF Speaks
<1>12. \A m \in msgs : advertises_authoritative_view(m) =>
          m.from \in Replicas /\ m.view \in Nat /\ m.view <= st[m.from].root.view
  BY MessageTypes DEF IInv, TypeOK, DurableViewBeforeParticipate
<1>13. DurableViewBeforeParticipate'
  <2> SUFFICES ASSUME NEW m \in msgs', advertises_authoritative_view(m)
               PROVE  m.view <= st'[m.from].root.view
    BY DEF DurableViewBeforeParticipate
  <2>1. CASE m \in msgs
    BY <1>10, <1>12, <2>1
  <2>2. CASE m \in s.outgoing
    BY <1>10, <1>11, <2>2
  <2> QED BY <1>5, <2>1, <2>2
<1>14. VoteIsFinal
  <2> SUFFICES ASSUME NEW m \in msgs' \ msgs, NEW d \in msgs,
                      m.type \in {"Prepare", "PrepareOk", "Commit", "StartView", "DoViewChange"},
                      d.type = "DoViewChange", d.from = m.from
               PROVE  d.view <= m.view
    BY DEF VoteIsFinal
  <2>1. m \in s.outgoing /\ advertises_authoritative_view(m) /\ advertises_authoritative_view(d)
    BY <1>5 DEF advertises_authoritative_view
  <2>2. m.from = r /\ m.view = st'[r].root.view
    BY <1>11, <2>1
  <2>3. d.view \in Nat /\ d.view <= st[r].root.view
    BY <1>12, <2>1, <2>2
  <2> QED BY <1>10, <2>2, <2>3
<1> QED BY <1>8, <1>9, <1>13, <1>14 DEF Shown, IInv

\* The same for a handler, timer or completion that leaves the durable root alone.
LEMMA StepShown ==
    ASSUME IInv, NEW r \in Replicas, NEW s, Good(s, r), s.root = st[r].root,
           Step(r, s) \/ Complete(r, s)
    PROVE  Shown
<1>1. Finish(r, s)
  BY DEF Step, Complete
<1>2. s.root.view \in Nat
  BY RootsType DEF Good
<1>3. st[r].root.view <= s.root.view
  BY <1>2
<1> QED BY <1>1, <1>3, FinishShown

\* A step that leaves the view alone and says nothing for it.
LEMMA QuietShown ==
    ASSUME IInv, NEW r \in Replicas, NEW s, NEW K, Quiet(st[r], s, K),
           st[r].status = "ViewChange" => K \subseteq {"RepairFill", "none"},
           K \cap {"Ack", "AdoptAck"} # {} => st[r].view = st[r].durable_view,
           Step(r, s) \/ Complete(r, s)
    PROVE  Shown
<1>1. Good(s, r)
  BY ReplicaGood, QuietGood
<1>2. s.root = st[r].root
  BY DEF Quiet, Keeps, SameView
<1> QED BY <1>1, <1>2, StepShown

\* A participant sends messages of its view.
LEMMA EmitShown ==
    ASSUME IInv, NEW r \in Replicas, NEW ms \in SUBSET Message, st[r].view = st[r].root.view,
           \A m \in ms : advertises_authoritative_view(m) => m.from = r /\ m.view = st[r].view,
           Step(r, emit(st[r], ms))
    PROVE  Shown
<1>1. Good(emit(st[r], ms), r)
  BY ReplicaGood, EmitGood
<1>2. emit(st[r], ms).root = st[r].root
  BY ReplicaGood, EmitKeeps DEF Good, Keeps, SameView
<1> QED BY <1>1, <1>2, StepShown

\* Normal, and awaiting no root: the view is durable.
LEMMA NormalDurable ==
    ASSUME IInv, NEW r \in Replicas, st[r].status = "Normal", ~pending_durable_view(st[r])
    PROVE  st[r].view = st[r].durable_view /\ st[r].view = st[r].root.view
<1>1. Good(st[r], r)
  BY ReplicaGood
<1>2. ~st[r].catching_up
  BY <1>1 DEF Good, DurableView
<1> QED BY <1>1, <1>2, NotPending

-----------------------------------------------------------------------------
(* Normal operation. *)

\* Why Step is always enough: a message was delivered, and it is well formed.
LEMMA DeliveredType ==
    ASSUME IInv, NEW r \in Replicas, NEW m \in msgs, NEW type, Delivered(r, m, type)
    PROVE  m \in Message /\ m.type = type
BY DEF IInv, TypeOK, Delivered

\* on_request preserves the invariant: the mint broadcasts a Prepare of a durable view.
LEMMA OnRequestShown ==
    ASSUME IInv, NEW r \in Replicas, NEW q \in Requests, OnRequest(r, q)
    PROVE  Shown
<1> DEFINE s == st[r]
           op == s.op + 1
           c == [s EXCEPT !.clients = @ \cup {q}]
           minted == append_prepare(c, op, q, s.view)
           inflight == Put(s.inflight, op, [req |-> q, oks |-> {}])
           open == [minted EXCEPT !.inflight = inflight]
           ms == {Prepare(minted, r, Others(r), op)}
<1>1. Good(s, r)
  BY ReplicaGood
<1>2. /\ s.status = "Normal" /\ is_primary(s, r) /\ pending_sb(s) = "none" /\ ~s.pending_forfeit
      /\ op <= MaxOp
      /\ Step(r, emit(open, ms))
  BY DEF OnRequest
<1> HIDE DEF s
<1>3. IsReplica(s) /\ s.view \in Nat /\ op \in Ops /\ s.view = s.durable_view /\ s.view = s.root.view
  <2>1. IsReplica(s) /\ DurableView(s, r)
    BY <1>1 DEF Good
  <2>2. s.view \in Nat /\ s.op \in Nat
    BY <2>1, FrontierType DEF IsReplica, Frontier
  <2>3. op \in Ops
    BY <1>2, <2>2 DEF Ops
  <2>4. s.view = s.durable_view
    BY <1>2, <2>1 DEF DurableView
  <2>5. s.durable_view = s.root.view
    BY <2>1 DEF DurableView, RootsOrdered
  <2> QED BY <2>1, <2>2, <2>3, <2>4, <2>5
<1>4. IsReplica(c)
  BY Zenon, <1>3 DEF IsReplica
<1>5. Quiet(s, c, {})
  BY Zenon, <1>3, <1>4, FrameQuiet DEF SameView, IsReplica
<1>6. Good(c, r) /\ c.view = s.view /\ c.durable_view = s.durable_view /\ c.root = s.root
      /\ c.status = s.status /\ c.inflight = s.inflight
  BY Zenon, <1>1, <1>3, <1>5, QuietGood DEF Quiet, Keeps, SameView, IsReplica
<1> HIDE DEF c, op
<1>7. Quiet(c, minted, {"Ack"}) /\ minted.inflight = c.inflight /\ op \in DOMAIN minted.log
  BY <1>3, <1>4, AppendPrepare
<1> HIDE DEF minted
<1>8. Good(minted, r) /\ IsReplica(minted)
  BY <1>2, <1>3, <1>6, <1>7, QuietGood DEF Good
<1>9. /\ minted.view = s.view /\ minted.durable_view = s.durable_view /\ minted.root = s.root
      /\ minted.status = s.status
  BY <1>6, <1>7 DEF Quiet, Keeps, SameView
<1>10. IsMap(inflight, Ops, Inflight)
  <2>1. IsMap(s.inflight, Ops, Inflight) /\ [req |-> q, oks |-> {}] \in Inflight
    BY <1>3 DEF IsReplica, Inflight
  <2> QED BY Zenon, <1>3, <2>1, PutType
<1> HIDE DEF inflight
<1>11. IsReplica(open)
  BY <1>8, <1>10 DEF IsReplica
<1>12. Good(open, r) /\ open.view = s.view /\ open.root = s.root
  <2>1. /\ SameView(minted, open) /\ open.writing = minted.writing /\ open.deferred = minted.deferred
        /\ open.outgoing = minted.outgoing
    BY <1>8 DEF SameView, IsReplica
  <2> HIDE DEF open
  <2>2. RootsOrdered(open) /\ RootAwaited(open) /\ Speaks(open, r)
    BY <1>8, <2>1 DEF Good, DurableView, SameView, RootsOrdered, RootAwaited, Speaks
  <2>3. Kinds(open) = Kinds(minted)
    BY <2>1 DEF Kinds
  <2>4. open.status = "Normal" /\ open.view = open.durable_view
    BY Zenon, <1>2, <1>3, <1>9, <2>1 DEF SameView
  <2>5. open.catching_up => open.status = "ViewChange"
    BY <1>8, <2>1 DEF Good, DurableView, SameView
  <2>6. DurableView(open, r)
    BY <2>2, <2>4, <2>5 DEF DurableView
  <2> QED BY <1>9, <1>11, <2>1, <2>2, <2>6 DEF Good, SameView
<1>13. ms \in SUBSET Message
  BY <1>7, <1>8, ServedType DEF Others
<1>14. \A m \in ms : m.from = r /\ m.view = open.view
  BY <1>9, <1>12 DEF Prepare
<1> HIDE DEF open, ms
<1>15. Good(emit(open, ms), r)
  BY <1>3, <1>12, <1>13, <1>14, EmitGood
<1>16. emit(open, ms).root = s.root
  BY <1>11, <1>12, <1>13, EmitKeeps DEF Keeps, SameView
<1> QED BY <1>2, <1>15, <1>16, StepShown DEF s

\* The body of a repaired op is appended; no acknowledgement is owed for it.
LEMMA FillShown ==
    ASSUME IInv, NEW r \in Replicas, NEW m \in Message, m.type \in {"Prepare", "RepairBatch"},
           NEW view \in Nat, Step(r, fill_repair(st[r], m, view))
    PROVE  Shown
<1> DEFINE s == st[r]
           reqs == [op \in {m.op} |-> m.req]
           t == submit_or_defer_append(s, reqs, view, "RepairFill")
           nack_from == Without(s.nack_from, {m.op})
           u == [t EXCEPT !.nack_from = nack_from]
<1>1. Good(s, r) /\ IsReplica(s)
  BY ReplicaGood DEF Good
<1>2. m.op \in Ops /\ m.req \in Requests
  BY MessageTypes
<1>3. IsMap(reqs, Ops, Requests)
  BY <1>2 DEF IsMap
<1>4. Step(r, u)
  BY DEF fill_repair
<1> HIDE DEF s, reqs
<1>5. Quiet(s, t, {"RepairFill"})
  BY <1>1, <1>3, SubmitAppend DEF Pending
<1>6. IsMap(nack_from, Ops, SUBSET Replicas)
  <2>1. IsMap(s.nack_from, Ops, SUBSET Replicas)
    BY <1>1 DEF IsReplica
  <2> QED BY <2>1, WithoutType, Zenon
<1> HIDE DEF t, nack_from
<1>7. IsReplica(t)
  BY <1>5 DEF Quiet, Keeps
<1>8. IsReplica(u)
  BY <1>6, <1>7 DEF IsReplica
<1>9. Quiet(t, u, {})
  BY Zenon, <1>7, <1>8, FrameQuiet DEF SameView, IsReplica
<1> HIDE DEF u
<1>10. Quiet(s, u, {"RepairFill"} \cup {})
  BY <1>5, <1>9, QuietStep
<1>11. Quiet(s, u, {"RepairFill"})
  BY <1>10
<1> QED BY <1>4, <1>11, QuietShown DEF s

\* A body that fills a hole (fill_repair) announces nothing.
LEMMA FillRepairShown ==
    ASSUME IInv, NEW r \in Replicas, NEW m \in msgs, FillRepair(r, m) \/ OnRepairBatch(r, m)
    PROVE  Shown
<1>1. st[r].view \in Nat
  BY DEF IInv, TypeOK, IsReplica
<1>2. CASE FillRepair(r, m)
  <2>1. m \in Message /\ m.type = "Prepare" /\ Step(r, fill_repair(st[r], m, m.view))
    BY <1>2, DeliveredType DEF FillRepair
  <2> QED BY <2>1, MessageTypes, FillShown
<1>3. CASE OnRepairBatch(r, m)
  <2>1. m \in Message /\ m.type = "RepairBatch" /\ Step(r, fill_repair(st[r], m, st[r].view))
    BY <1>3, DeliveredType DEF OnRepairBatch
  <2> QED BY <1>1, <2>1, FillShown
<1> QED BY <1>2, <1>3

\* A backup that follows a Prepare first learns its commit frontier; its view is durable.
LEMMA FollowsType ==
    ASSUME IInv, NEW r \in Replicas, NEW m \in msgs, FollowsPrepare(r, m)
    PROVE  LET s == advance_commit(st[r], r, m.commit)
           IN  /\ m.op \in Ops /\ m.req \in Requests /\ m.view \in Nat
               /\ Quiet(st[r], s, {}) /\ Good(s, r) /\ IsReplica(s)
               /\ s.view = s.durable_view /\ s.view = s.root.view
               /\ s.status = "Normal" /\ s.root = st[r].root
               /\ st[r].view = st[r].durable_view /\ st[r].status = "Normal"
<1> DEFINE s == advance_commit(st[r], r, m.commit)
<1>1. Delivered(r, m, "Prepare") /\ st[r].status = "Normal" /\ ~pending_durable_view(st[r])
  BY DEF FollowsPrepare
<1>2. m.op \in Ops /\ m.req \in Requests /\ m.view \in Nat /\ m.commit \in Frontier
  BY <1>1, DeliveredType, MessageTypes
<1>3. Good(st[r], r) /\ IsReplica(st[r])
  BY ReplicaGood DEF Good
<1>4. Quiet(st[r], s, {})
  BY <1>2, <1>3, AdvanceCommitQuiet
<1>5. Good(s, r)
  BY <1>3, <1>4, QuietGood
<1>6. st[r].view = st[r].durable_view /\ st[r].view = st[r].root.view
  BY <1>1, NormalDurable
<1> HIDE DEF s
<1>7. /\ s.view = s.durable_view /\ s.view = s.root.view /\ s.status = "Normal"
      /\ s.root = st[r].root
  BY <1>1, <1>4, <1>6 DEF Quiet, Keeps, SameView
<1>8. IsReplica(s)
  BY <1>5 DEF Good
<1> QED BY <1>1, <1>2, <1>4, <1>5, <1>6, <1>7, <1>8 DEF s

\* on_prepare of a held op acknowledges it in a durable view only.
LEMMA OnPrepareHeldShown ==
    ASSUME IInv, NEW r \in Replicas, NEW m \in msgs, OnPrepareHeld(r, m)
    PROVE  Shown
<1> DEFINE s == advance_commit(st[r], r, m.commit)
           again == m.op \notin appending(s) /\ op_durably_appended(s, m.op)
<1>1. FollowsPrepare(r, m) /\ Step(r, IF again THEN send_prepare_ok(s, r, m.op) ELSE s)
  BY DEF OnPrepareHeld
<1>2. m.op \in Ops /\ Good(s, r) /\ s.view = s.root.view /\ s.root = st[r].root
  BY <1>1, FollowsType
<1> HIDE DEF s, again
<1>3. Good(send_prepare_ok(s, r, m.op), r) /\ send_prepare_ok(s, r, m.op).root = s.root
  BY <1>2, PrepareOkGood
<1>4. CASE again
  BY <1>1, <1>2, <1>3, <1>4, StepShown
<1>5. CASE ~again
  BY <1>1, <1>2, <1>5, StepShown
<1> QED BY <1>4, <1>5

\* on_prepare of a changed op submits an append in a durable view only.
LEMMA OnPrepareReappendShown ==
    ASSUME IInv, NEW r \in Replicas, NEW m \in msgs, OnPrepareReappend(r, m)
    PROVE  Shown
<1> DEFINE s == advance_commit(st[r], r, m.commit)
           fenced == m.op \in appending(s)
           t == append_prepare(s, m.op, m.req, m.view)
<1>1. FollowsPrepare(r, m) /\ Step(r, IF fenced THEN s ELSE t)
  BY DEF OnPrepareReappend
<1>2. /\ m.op \in Ops /\ m.req \in Requests /\ m.view \in Nat
      /\ Good(s, r) /\ IsReplica(s) /\ s.view = s.durable_view /\ s.status = "Normal"
      /\ s.root = st[r].root
  BY <1>1, FollowsType
<1> HIDE DEF s, fenced
<1>3. Quiet(s, t, {"Ack"})
  BY <1>2, AppendPrepare
<1>4. Good(t, r) /\ t.root = s.root
  BY <1>2, <1>3, QuietGood DEF Quiet, Keeps, SameView
<1> HIDE DEF t
<1>5. CASE fenced
  BY <1>1, <1>2, <1>5, StepShown
<1>6. CASE ~fenced
  BY <1>1, <1>2, <1>4, <1>6, StepShown
<1> QED BY <1>5, <1>6

\* on_prepare of the next op submits an append in a durable view only.
LEMMA OnPrepareNextShown ==
    ASSUME IInv, NEW r \in Replicas, NEW m \in msgs, OnPrepareNext(r, m)
    PROVE  Shown
<1> DEFINE s == advance_commit(st[r], r, m.commit)
           t == append_prepare(s, m.op, m.req, m.view)
           u == advance_commit(t, r, t.commit_max)
<1>1. FollowsPrepare(r, m) /\ Step(r, u)
  BY DEF OnPrepareNext
<1>2. /\ m.op \in Ops /\ m.req \in Requests /\ m.view \in Nat
      /\ Good(s, r) /\ IsReplica(s) /\ s.view = s.durable_view /\ s.status = "Normal"
      /\ s.root = st[r].root
  BY <1>1, FollowsType
<1> HIDE DEF s
<1>3. Quiet(s, t, {"Ack"})
  BY <1>2, AppendPrepare
<1>4. Good(t, r) /\ t.root = s.root
  BY <1>2, <1>3, QuietGood DEF Quiet, Keeps, SameView
<1> HIDE DEF t
<1>5. IsReplica(t) /\ t.commit_max \in Frontier
  BY <1>4 DEF Good, IsReplica
<1>6. Quiet(t, u, {})
  BY <1>5, AdvanceCommitQuiet
<1>7. Good(u, r) /\ u.root = t.root
  BY Zenon, <1>4, <1>6, QuietGood DEF Quiet, Keeps, SameView
<1> QED BY <1>1, <1>2, <1>4, <1>7, StepShown

\* on_prepare beyond the head asks for the gap and announces nothing.
LEMMA OnPrepareGapShown ==
    ASSUME IInv, NEW r \in Replicas, NEW m \in msgs, OnPrepareGap(r, m)
    PROVE  Shown
<1> DEFINE s == advance_commit(st[r], r, m.commit)
           t == request_tail_gap(s, r)
<1>1. FollowsPrepare(r, m) /\ Step(r, t)
  BY DEF OnPrepareGap
<1>2. Good(s, r) /\ IsReplica(s) /\ s.root = st[r].root
  BY Zenon, <1>1, FollowsType
<1> HIDE DEF s
<1>3. Quiet(s, t, {})
  BY <1>2, RequestTailGapQuiet
<1>4. Good(t, r) /\ t.root = s.root
  BY Zenon, <1>2, <1>3, QuietGood DEF Quiet, Keeps, SameView
<1> QED BY <1>1, <1>2, <1>4, StepShown

\* on_prepare_ok may commit, and announces a durable view only.
LEMMA OnPrepareOkShown ==
    ASSUME IInv, NEW r \in Replicas, NEW m \in msgs, OnPrepareOk(r, m)
    PROVE  Shown
<1> DEFINE s == st[r]
           counts == m.op \in DOMAIN s.inflight /\ s.inflight[m.op].req = m.req
           t == IF counts THEN [s EXCEPT !.inflight[m.op].oks = @ \cup {m.from}] ELSE s
<1>1. Delivered(r, m, "PrepareOk") /\ s.status = "Normal" /\ Step(r, try_commit(t, r))
  BY Zenon DEF OnPrepareOk
<1>2. m.from \in Replicas
  BY Zenon, <1>1, DeliveredType, MessageTypes
<1>3. Good(s, r) /\ IsReplica(s)
  BY ReplicaGood DEF Good
<1> HIDE DEF s
<1>4. Quiet(s, t, {})
  <2>1. CASE counts
    <3>1. t = record_own_vote(s, m.from, m.op)
      BY <2>1 DEF record_own_vote
    <3> QED BY <1>2, <1>3, <3>1, RecordOwnVoteQuiet
  <2>2. CASE ~counts
    BY <1>3, <2>2, FrameQuiet DEF SameView
  <2> QED BY <2>1, <2>2
<1> HIDE DEF t
<1>5. Good(t, r) /\ ~t.catching_up /\ t.root = s.root
  <2>1. Good(t, r)
    BY <1>3, <1>4, QuietGood
  <2>2. ~s.catching_up
    BY <1>1, <1>3 DEF Good, DurableView
  <2> QED BY <1>4, <2>1, <2>2 DEF Quiet, Keeps, SameView
<1>6. Good(try_commit(t, r), r)
  BY <1>5, TryCommitGood
<1>7. try_commit(t, r).root = t.root
  BY <1>5, TryCommitKeeps DEF Good, Keeps, SameView
<1> QED BY <1>1, <1>5, <1>6, <1>7, StepShown DEF s

\* on_commit applies, and asks for what is missing.
LEMMA OnCommitShown ==
    ASSUME IInv, NEW r \in Replicas, NEW m \in msgs, OnCommit(r, m)
    PROVE  Shown
<1> DEFINE s == st[r]
           t == advance_commit(s, r, m.commit)
           u == request_tail_gap(t, r)
<1>1. Delivered(r, m, "Commit") /\ Step(r, u)
  BY DEF OnCommit
<1>2. m.commit \in Frontier
  BY <1>1, DeliveredType, MessageTypes
<1>3. IsReplica(s)
  BY DEF IInv, TypeOK
<1> HIDE DEF s
<1>4. Quiet(s, t, {})
  BY <1>2, <1>3, AdvanceCommitQuiet
<1> HIDE DEF t
<1>5. Quiet(t, u, {})
  BY <1>4, RequestTailGapQuiet DEF Quiet, Keeps
<1> HIDE DEF u
<1>6. Quiet(s, u, {} \cup {})
  BY <1>4, <1>5, QuietStep
<1>7. Quiet(s, u, {})
  BY <1>6
<1> QED BY <1>1, <1>7, QuietShown DEF s

\* catch_up_to_view raises the memory view and probes, with no vote in the view.
LEMMA CatchUpShown ==
    ASSUME IInv, NEW r \in Replicas, NEW m \in msgs, CatchUp(r, m)
    PROVE  Shown
<1>1. m \in Message /\ m.type \in {"Prepare", "PrepareOk", "Commit"}
  BY DeliveredType DEF CatchUp
<1>2. m.view \in Nat
  BY <1>1, MessageTypes
<1>3. m.view > st[r].view /\ Step(r, catch_up_to_view(st[r], r, m.view))
  BY DEF CatchUp
<1>4. st[r].view \in Nat
  BY DEF IInv, TypeOK, IsReplica
<1>5. st[r].view <= m.view
  BY <1>2, <1>3, <1>4
<1>6. Good(st[r], r)
  BY ReplicaGood
<1> QED BY <1>2, <1>3, <1>5, <1>6, CatchUpGood, StepShown

\* A participating primary's view is durable.
LEMMA PrimaryTimerDurable ==
    ASSUME IInv, NEW r \in Replicas, participates_as_primary(st[r], r)
    PROVE  st[r].view = st[r].root.view
BY NormalDurable DEF participates_as_primary

\* The commit heartbeat announces a durable view.
LEMMA CommitHeartbeatShown ==
    ASSUME IInv, NEW r \in Replicas, CommitHeartbeat(r)
    PROVE  Shown
<1>1. st[r].view = st[r].root.view /\ Step(r, emit(st[r], {Commit(st[r], r)}))
  BY PrimaryTimerDurable DEF CommitHeartbeat, PrimaryTimer
<1>2. {Commit(st[r], r)} \in SUBSET Message
  BY AnnounceType DEF IInv, TypeOK
<1>3. \A m \in {Commit(st[r], r)} : m.from = r /\ m.view = st[r].view
  BY DEF Commit
<1> QED BY <1>1, <1>2, <1>3, EmitShown

\* The prepare timer's retransmissions announce a durable view.
LEMMA PrepareRetransmitShown ==
    ASSUME IInv, NEW r \in Replicas, PrepareRetransmit(r)
    PROVE  Shown
<1> DEFINE s == st[r]
           open == {op \in (s.commit_min + 1) .. s.op : Present(s, op)}
           ms == {Prepare(s, r, Others(r), op) : op \in open}
<1>1. st[r].view = st[r].root.view /\ Step(r, emit(st[r], ms))
  BY PrimaryTimerDurable DEF PrepareRetransmit, PrimaryTimer
<1>2. IsReplica(s)
  BY DEF IInv, TypeOK
<1>3. ms \in SUBSET Message
  <2>1. \A op \in open : op \in DOMAIN s.log
    BY DEF Present, Held
  <2> HIDE DEF open
  <2> QED BY <1>2, <2>1, ServedType DEF Others
<1>4. \A m \in ms : m.from = r /\ m.view = st[r].view
  BY DEF Prepare
<1> HIDE DEF ms
<1> QED BY <1>1, <1>3, <1>4, EmitShown

\* A step that proposes the next view preserves the invariant.
LEMMA ProposeShown ==
    ASSUME IInv, NEW r \in Replicas, Step(r, propose_next_view(st[r], r))
    PROVE  Shown
BY ReplicaGood, ProposeNextViewGood, StepShown

\* maybe_forfeit preserves the invariant, whether it proposes at once or is deferred.
LEMMA ForfeitShown ==
    ASSUME IInv, NEW r \in Replicas, Forfeit(r)
    PROVE  Shown
<1> DEFINE s == st[r]
           t == [s EXCEPT !.pending_forfeit = TRUE]
<1>1. Step(r, propose_next_view(t, r))
  BY DEF Forfeit
<1>2. Good(s, r)
  BY ReplicaGood
<1> HIDE DEF s
<1>3. IsReplica(t)
  BY <1>2 DEF Good, IsReplica
<1>4. /\ t.status = s.status /\ t.view = s.view /\ t.durable_view = s.durable_view
      /\ t.root = s.root /\ t.roots = s.roots /\ t.catching_up = s.catching_up
      /\ t.inflight = s.inflight /\ t.writing = s.writing /\ t.deferred = s.deferred
      /\ t.outgoing = s.outgoing /\ t.pending_forfeit
  BY <1>2 DEF Good, IsReplica
<1> HIDE DEF t
<1>5. Good(t, r)
  <2>1. RootsOrdered(t) /\ RootAwaited(t) /\ Speaks(t, r)
    BY Zenon, <1>2, <1>4 DEF Good, DurableView, RootsOrdered, RootAwaited, Speaks
  <2>2. Kinds(t) = Kinds(s)
    BY <1>4 DEF Kinds
  <2> QED BY <1>2, <1>3, <1>4, <2>1, <2>2 DEF Good, DurableView
<1> QED BY <1>1, <1>4, <1>5, ProposeNextViewGood, StepShown DEF s

-----------------------------------------------------------------------------
(* View change. *)

\* primary_idle and a deferred step-down preserve the invariant.
LEMMA SuspectShown ==
    ASSUME IInv, NEW r \in Replicas, PrimaryIdle(r) \/ StepDown(r)
    PROVE  Shown
BY ProposeShown DEF PrimaryIdle, StepDown

\* view_change_status preserves the invariant, the revert of a probe included.
LEMMA ViewChangeStatusShown ==
    ASSUME IInv, NEW r \in Replicas, ViewChangeStatus(r)
    PROVE  Shown
<1> DEFINE s == st[r]
           revert_to == Max2(s.durable_view, effective_root(s).view)
           windows == s.catchup_windows + 1
           timed == [s EXCEPT !.catchup_windows = windows]
           gives_up == windows >= CatchUpWindows /\ s.view > revert_to
<1>1. /\ s.status = "ViewChange"
      /\ \/ Step(r, propose_next_view(s, r))
         \/ ~gives_up /\ Step(r, propose_next_view(timed, r))
         \/ gives_up /\ Step(r, revert_catch_up_to_effective_view(s, r, revert_to))
  BY DEF ViewChangeStatus
<1>2. Good(s, r) /\ IsReplica(s)
  BY ReplicaGood DEF Good
<1> HIDE DEF s
<1>3. CASE Step(r, propose_next_view(s, r))
  BY <1>3, ProposeShown DEF s
<1>4. CASE Step(r, propose_next_view(timed, r))
  <2>1. IsReplica(timed)
    BY <1>2 DEF IsReplica
  <2>2. Quiet(s, timed, {})
    BY Zenon, <1>2, <2>1, FrameQuiet DEF SameView, IsReplica
  <2> HIDE DEF timed
  <2>3. Good(timed, r) /\ timed.root = s.root
    BY Zenon, <1>2, <2>2, QuietGood DEF Quiet, Keeps, SameView
  <2> QED BY <1>4, <2>3, ProposeNextViewGood, StepShown DEF s
<1>5. CASE gives_up /\ Step(r, revert_catch_up_to_effective_view(s, r, revert_to))
  <2>1. s.durable_view \in Nat /\ effective_root(s).view \in Nat
    <3>1. s.roots # <<>> => Len(s.roots) \in DOMAIN s.roots
      BY <1>2 DEF IsReplica
    <3>2. effective_root(s).view \in Nat
      BY <1>2, <3>1, RootsType DEF effective_root
    <3> QED BY <1>2, <3>2 DEF IsReplica
  <2>2. revert_to \in Nat /\ revert_to < s.view
    BY <1>2, <1>5, <2>1, Max2Type DEF IsReplica
  <2> QED BY <1>1, <1>2, <1>5, <2>2, RevertGood, StepShown DEF s
<1> QED BY <1>1, <1>3, <1>4, <1>5

\* Retransmitting a StartViewChange announces no authoritative view.
LEMMA SvcRetransmitShown ==
    ASSUME IInv, NEW r \in Replicas, SvcRetransmit(r)
    PROVE  Shown
<1> DEFINE ms == {StartViewChange(st[r], r)}
<1>1. Step(r, emit(st[r], ms))
  BY DEF SvcRetransmit
<1>2. IsReplica(st[r])
  BY DEF IInv, TypeOK
<1>3. ms \in SUBSET Message
  BY <1>2, VoteType
<1>4. \A m \in ms : ~advertises_authoritative_view(m)
  BY DEF StartViewChange, advertises_authoritative_view
<1> HIDE DEF ms
<1>5. Quiet(st[r], emit(st[r], ms), {})
  BY <1>2, <1>3, <1>4, EmitQuiet
<1> QED BY <1>1, <1>5, QuietShown

\* Retransmitting a DoViewChange waits for the durable view.
LEMMA DvcRetransmitShown ==
    ASSUME IInv, NEW r \in Replicas, DvcRetransmit(r)
    PROVE  Shown
<1>1. Good(st[r], r)
  BY ReplicaGood
<1>2. st[r].view = st[r].root.view /\ Step(r, send_do_view_change(st[r], r))
  BY <1>1 DEF DvcRetransmit, Good, DurableView, RootsOrdered
<1> QED BY <1>1, <1>2, DoViewChangeGood, StepShown

\* on_start_view_change preserves the invariant, with or without the quorum.
LEMMA OnStartViewChangeShown ==
    ASSUME IInv, NEW r \in Replicas, NEW m \in msgs, OnStartViewChange(r, m)
    PROVE  Shown
<1> DEFINE s == raise_svc_target(st[r], m.view)
           newer == m.view > st[r].svc_target
           joined == IF newer THEN join_svc(s, r) ELSE s
           t == [joined EXCEPT !.svc_from = @ \cup {m.from}]
<1>1. /\ Delivered(r, m, "StartViewChange") /\ m.view > st[r].view
      /\ Step(r, maybe_start_view_change(t))
  BY DEF OnStartViewChange
<1>2. m.from \in Replicas /\ m.view \in Nat
  BY <1>1, DeliveredType, MessageTypes
<1>3. Good(st[r], r) /\ IsReplica(st[r])
  BY ReplicaGood DEF Good
<1>4. Quiet(st[r], s, {}) /\ m.view <= s.svc_target
  BY <1>2, <1>3, RaiseTarget
<1> HIDE DEF s, newer
<1>5. Good(s, r) /\ IsReplica(s) /\ s.view = st[r].view /\ s.root = st[r].root
  <2>1. Good(s, r)
    BY <1>3, <1>4, QuietGood
  <2> QED BY <1>4, <2>1 DEF Good, Quiet, Keeps, SameView
<1>6. Quiet(s, joined, {}) /\ joined.svc_target = s.svc_target
  <2>1. CASE newer
    BY <1>5, <2>1, JoinQuiet
  <2>2. CASE ~newer
    BY <1>5, <2>2, FrameQuiet DEF SameView
  <2> QED BY <2>1, <2>2
<1> HIDE DEF joined
<1>7. Good(joined, r) /\ IsReplica(joined) /\ joined.view = s.view /\ joined.root = s.root
  BY Zenon, <1>5, <1>6, QuietGood DEF Good, Quiet, Keeps, SameView
<1>8. IsReplica(t)
  BY <1>2, <1>7 DEF IsReplica
<1>9. Quiet(joined, t, {})
  BY Zenon, <1>7, <1>8, FrameQuiet DEF SameView, IsReplica
<1>10. t.svc_target = joined.svc_target
  BY <1>7 DEF IsReplica
<1> HIDE DEF t
<1>11. Good(t, r) /\ t.view = joined.view /\ t.root = joined.root
  BY Zenon, <1>7, <1>9, QuietGood DEF Quiet, Keeps, SameView
<1>12. t.view <= t.svc_target
  <2>1. st[r].view \in Nat /\ s.svc_target \in Nat
    BY Zenon, <1>3, <1>5 DEF IsReplica
  <2> QED BY <1>1, <1>2, <1>4, <1>5, <1>6, <1>7, <1>10, <1>11, <2>1
<1> QED BY <1>1, <1>5, <1>7, <1>11, <1>12, MaybeStartGood, StepShown

\* on_do_view_change preserves the invariant, with or without the quorum.
LEMMA OnDoViewChangeShown ==
    ASSUME IInv, NEW r \in Replicas, NEW m \in msgs, OnDoViewChange(r, m)
    PROVE  Shown
<1> DEFINE s == st[r]
           own == IF r \in DOMAIN s.dvc_from THEN s.dvc_from ELSE Put(s.dvc_from, r, own_dvc(s))
           all == IF Supersedes(m.dvc, own, m.from) THEN Put(own, m.from, m.dvc) ELSE own
           t == [s EXCEPT !.dvc_from = all]
           formed == Cardinality(DOMAIN all) >= quorum_view_change(N)
<1>1. /\ Delivered(r, m, "DoViewChange") /\ s.status = "ViewChange"
      /\ Step(r, IF formed THEN start_view_as_new_primary(t, r) ELSE t)
  BY DEF OnDoViewChange
<1>2. m.from \in Replicas /\ m.dvc \in Dvc
  BY <1>1, DeliveredType, MessageTypes
<1>3. Good(s, r) /\ IsReplica(s)
  BY ReplicaGood DEF Good
<1> HIDE DEF s
<1>4. IsMap(own, Replicas, Dvc) /\ r \in DOMAIN own
  <2>1. IsMap(s.dvc_from, Replicas, Dvc) /\ own_dvc(s) \in Dvc
    BY Zenon, <1>3, OwnDvcType DEF IsReplica
  <2>2. CASE r \in DOMAIN s.dvc_from
    BY <2>1, <2>2
  <2>3. CASE r \notin DOMAIN s.dvc_from
    <3>1. IsMap(Put(s.dvc_from, r, own_dvc(s)), Replicas, Dvc)
      BY <2>1, PutType, Zenon
    <3>2. r \in DOMAIN Put(s.dvc_from, r, own_dvc(s))
      BY DEF Put
    <3> QED BY <2>3, <3>1, <3>2
  <2> QED BY <2>2, <2>3
<1> HIDE DEF own
<1>5. IsMap(all, Replicas, Dvc) /\ r \in DOMAIN all
  <2>1. CASE Supersedes(m.dvc, own, m.from)
    <3>1. IsMap(Put(own, m.from, m.dvc), Replicas, Dvc)
      BY <1>2, <1>4, PutType, Zenon
    <3>2. r \in DOMAIN Put(own, m.from, m.dvc)
      BY <1>4 DEF Put
    <3> QED BY <2>1, <3>1, <3>2
  <2>2. CASE ~Supersedes(m.dvc, own, m.from)
    BY <1>4, <2>2
  <2> QED BY <2>1, <2>2
<1> HIDE DEF all
<1>6. IsReplica(t)
  BY <1>3, <1>5 DEF IsReplica
<1>7. Quiet(s, t, {})
  BY Zenon, <1>3, <1>6, FrameQuiet DEF SameView, IsReplica
<1>8. t.dvc_from = all
  BY <1>3 DEF IsReplica
<1> HIDE DEF t, formed
<1>9. Good(t, r) /\ t.root = s.root /\ t.status = "ViewChange"
  BY Zenon, <1>1, <1>3, <1>7, QuietGood DEF Quiet, Keeps, SameView
<1>10. CASE formed
  <2>1. DOMAIN t.dvc_from # {}
    BY <1>5, <1>8
  <2> QED BY <1>1, <1>9, <1>10, <2>1, StartViewAsNewPrimaryGood, StepShown DEF s
<1>11. CASE ~formed
  BY <1>1, <1>9, <1>11, StepShown DEF s
<1> QED BY <1>10, <1>11

\* Adopting a StartView or a RecoveryResponse preserves the invariant.
LEMMA OnStartViewShown ==
    ASSUME IInv, NEW r \in Replicas, NEW m \in msgs,
           OnStartView(r, m) \/ OnRecoveryResponse(r, m)
    PROVE  Shown
<1>1. m \in Message /\ m.type \in {"StartView", "RecoveryResponse"}
  BY DeliveredType DEF OnStartView, OnRecoveryResponse
<1>2. m.view \in Nat /\ m.head \in CanonicalHead
  BY <1>1, MessageTypes
<1>3. st[r].view \in Nat
  BY DEF IInv, TypeOK, IsReplica
<1>4. st[r].view <= m.view /\ Step(r, adopt_canonical_head(st[r], r, m.view, m.head))
  BY <1>2, <1>3 DEF OnStartView, OnRecoveryResponse
<1>5. Good(st[r], r)
  BY ReplicaGood
<1> QED BY <1>2, <1>4, <1>5, AdoptCanonicalHeadGood, StepShown

\* on_get_view answers with a durable view.
LEMMA OnGetViewShown ==
    ASSUME IInv, NEW r \in Replicas, NEW m \in msgs, OnGetView(r, m)
    PROVE  Shown
<1> DEFINE ms == {StartView(st[r], r, {m.from})}
<1>1. /\ Delivered(r, m, "GetView") /\ st[r].view = st[r].root.view
      /\ Step(r, emit(st[r], ms))
  BY PrimaryTimerDurable DEF OnGetView
<1>2. m.from \in Replicas
  BY <1>1, DeliveredType, MessageTypes
<1>3. ms \in SUBSET Message
  BY <1>2, AnnounceType DEF IInv, TypeOK
<1>4. \A n \in ms : n.from = r /\ n.view = st[r].view
  BY DEF StartView
<1> HIDE DEF ms
<1> QED BY <1>1, <1>3, <1>4, EmitShown

\* on_recovery answers with a durable view.
LEMMA OnRecoveryShown ==
    ASSUME IInv, NEW r \in Replicas, NEW m \in msgs, OnRecovery(r, m)
    PROVE  Shown
<1> DEFINE ms == {RecoveryResponse(st[r], r, m)}
<1>1. /\ Delivered(r, m, "Recovery") /\ st[r].view = st[r].root.view
      /\ Step(r, emit(st[r], ms))
  BY PrimaryTimerDurable DEF OnRecovery
<1>2. m.from \in Replicas /\ m.nonce \in Nat
  BY <1>1, DeliveredType, MessageTypes
<1>3. st[r].view \in Nat /\ canonical_head(st[r]) \in CanonicalHead
  BY Zenon, CanonicalHeadType DEF IInv, TypeOK, IsReplica
<1>4. ms \in SUBSET Message
  <2>1. RecoveryResponse(st[r], r, m) \in
          [type : {"RecoveryResponse"}, from : Replicas, to : SUBSET Replicas, view : Nat,
           nonce : Nat, head : CanonicalHead]
    BY <1>2, <1>3 DEF RecoveryResponse
  <2> QED BY Zenon, <2>1 DEF Message
<1>5. \A n \in ms : n.from = r /\ n.view = st[r].view
  BY DEF RecoveryResponse
<1> HIDE DEF ms
<1> QED BY <1>1, <1>4, <1>5, EmitShown

===============================================================================
