----------------------------- MODULE VsrProofs -----------------------------
(***************************************************************************)
(* The type invariant of Vsr and its durable-view discipline, for every    *)
(* number of replicas, requests, ops and views, every set of timers and    *)
(* every fault the model has.  The inductive invariant adds to the two     *)
(* what DurableView says of one replica: see VsrReplica.                   *)
(***************************************************************************)
EXTENDS VsrHandlerProofs

-----------------------------------------------------------------------------
(* Repair. *)

\* A step that only sends messages which speak for no view.
LEMMA AskShown ==
    ASSUME IInv, NEW r \in Replicas, NEW ms \in SUBSET Message,
           \A m \in ms : ~advertises_authoritative_view(m), Step(r, emit(st[r], ms))
    PROVE  Shown
<1>1. Quiet(st[r], emit(st[r], ms), {})
  BY EmitQuiet DEF IInv, TypeOK
<1> QED BY <1>1, QuietShown

\* A Nack announces no authoritative view.
LEMMA OnRequestPrepareNackShown ==
    ASSUME IInv, NEW r \in Replicas, NEW m \in msgs, OnRequestPrepareNack(r, m)
    PROVE  Shown
<1> DEFINE ms == {Nack(st[r], r, m.from, m.op)}
<1>1. Delivered(r, m, "RequestPrepare") /\ Step(r, emit(st[r], ms))
  BY DEF OnRequestPrepareNack
<1>2. m.from \in Replicas /\ m.op \in Ops
  BY <1>1, DeliveredType, MessageTypes
<1>3. ms \in SUBSET Message
  BY <1>2, NackType DEF IInv, TypeOK
<1>4. \A n \in ms : ~advertises_authoritative_view(n)
  BY DEF Nack, advertises_authoritative_view
<1> HIDE DEF ms
<1> QED BY <1>1, <1>3, <1>4, AskShown

\* Serving a body announces a durable view.
LEMMA ServeShown ==
    ASSUME IInv, NEW r \in Replicas, NEW m \in msgs,
           OnRequestPrepare(r, m) \/ OnRequestPrepareRange(r, m)
    PROVE  Shown
<1> DEFINE a == {Prepare(st[r], r, {m.from}, m.op)}
           b == {RepairBatch(st[r], r, m.from, m.op)}
<1>1. m.from \in Replicas
  BY DeliveredType, MessageTypes DEF OnRequestPrepare, OnRequestPrepareRange
<1>2. st[r].status = "Normal" /\ m.op \in DOMAIN st[r].log /\ ~pending_durable_view(st[r])
  BY DEF OnRequestPrepare, OnRequestPrepareRange, Serves, Present, Held
<1>3. st[r].view = st[r].root.view
  BY <1>2, NormalDurable
<1>4. a \in SUBSET Message /\ b \in SUBSET Message
  BY <1>1, <1>2, ServedType DEF IInv, TypeOK
<1>5. \A n \in a \cup b : n.from = r /\ n.view = st[r].view
  BY DEF Prepare, RepairBatch
<1>6. Step(r, emit(st[r], a)) \/ Step(r, emit(st[r], b))
  BY DEF OnRequestPrepare, OnRequestPrepareRange
<1> HIDE DEF a, b
<1> QED BY <1>3, <1>4, <1>5, <1>6, EmitShown

\* The repair timer asks again and announces nothing.
LEMMA RepairRetryShown ==
    ASSUME IInv, NEW r \in Replicas, RepairRetry(r)
    PROVE  Shown
<1> DEFINE s == st[r]
           ms == {RequestPrepare(r, op) : op \in {o \in s.repair : o > s.commit_max}}
                 \cup {RequestPrepareRange(r, op) : op \in {o \in s.repair : o <= s.commit_max}}
<1>1. Step(r, emit(st[r], ms))
  BY DEF RepairRetry
<1>2. s.repair \subseteq Ops
  BY DEF IInv, TypeOK, IsReplica
<1>3. ms \in SUBSET Message
  BY <1>2, RequestType
<1>4. \A n \in ms : ~advertises_authoritative_view(n)
  BY DEF RequestPrepare, RequestPrepareRange, advertises_authoritative_view
<1> HIDE DEF ms
<1> QED BY <1>1, <1>3, <1>4, AskShown

\* truncate_uncommitted_tail_from touches no view or root.
LEMMA TruncateTailQuiet ==
    ASSUME NEW s, IsReplica(s), NEW gap \in Ops
    PROVE  Quiet(s, truncate_uncommitted_tail_from(s, gap), {})
<1> DEFINE gone == gap .. MaxOp
           lost == Range(Headers(s, gone))
           log == Without(s.log, gone)
           backed == s.replied \cup {log[op].req : op \in DOMAIN log}
           safe == \A op \in gap .. s.op : committed_survives(s, op)
           a == assert(s, safe)
           b == discard_pending(a, gone)
           inflight == Without(s.inflight, gone)
           nack_from == Without(s.nack_from, gone)
           c == [b EXCEPT !.op = gap - 1, !.log = log, !.repair = @ \ gone,
                          !.inflight = inflight, !.clients = @ \ (lost \ backed),
                          !.nack_from = nack_from]
           d == truncate(c, gap - 1)
<1>1. d = truncate_uncommitted_tail_from(s, gap)
  BY DEF truncate_uncommitted_tail_from
<1>2. Quiet(s, a, {}) /\ IsReplica(a)
  BY Zenon, AssertQuiet DEF Quiet, Keeps
<1>3. a.inflight = s.inflight
  BY DEF assert, IsReplica
<1> HIDE DEF a, safe
<1>4. Quiet(a, b, {}) /\ IsReplica(b)
  BY Zenon, <1>2, DiscardQuiet DEF Quiet, Keeps
<1>5. b.inflight = a.inflight
  BY <1>2 DEF discard_pending, IsReplica
<1>6. IsMap(log, Ops, LogEntry) /\ IsMap(inflight, Ops, Inflight)
      /\ IsMap(nack_from, Ops, SUBSET Replicas)
  <2>1. IsMap(s.log, Ops, LogEntry) /\ IsMap(s.inflight, Ops, Inflight)
        /\ IsMap(s.nack_from, Ops, SUBSET Replicas)
    BY DEF IsReplica
  <2>2. IsMap(log, Ops, LogEntry)
    BY <2>1, WithoutType, Zenon
  <2>3. IsMap(inflight, Ops, Inflight)
    BY <2>1, WithoutType, Zenon
  <2>4. IsMap(nack_from, Ops, SUBSET Replicas)
    BY <2>1, WithoutType, Zenon
  <2> QED BY <2>2, <2>3, <2>4
<1>7. DOMAIN inflight \subseteq DOMAIN b.inflight
  BY <1>3, <1>5 DEF Without, Restrict
<1>8. gap - 1 \in Frontier
  BY FrontierType DEF Ops, Frontier
<1> HIDE DEF b, log, inflight, nack_from, gone, lost, backed
<1>9. IsReplica(c)
  BY <1>4, <1>6, <1>8 DEF IsReplica
<1>10. SameView(b, c) /\ c.writing = b.writing /\ c.deferred = b.deferred
       /\ c.outgoing = b.outgoing /\ DOMAIN c.inflight \subseteq DOMAIN b.inflight
  BY <1>4, <1>7 DEF SameView, IsReplica
<1> HIDE DEF c
<1>11. Quiet(b, c, {})
  BY <1>9, <1>10, FrameQuiet
<1>12. Quiet(c, d, {})
  BY <1>9, TruncateQuiet
<1> HIDE DEF d
<1>13. Quiet(s, b, {} \cup {})
  BY <1>2, <1>4, QuietStep
<1>14. Quiet(b, d, {} \cup {})
  BY <1>11, <1>12, QuietStep
<1>15. Quiet(s, d, ({} \cup {}) \cup ({} \cup {}))
  BY <1>13, <1>14, QuietStep
<1> QED BY <1>1, <1>15

\* on_nack preserves the invariant, with or without the quorum.
LEMMA OnNackShown ==
    ASSUME IInv, NEW r \in Replicas, NEW m \in msgs, OnNack(r, m)
    PROVE  Shown
<1> DEFINE s == st[r]
           candidates == {op \in DOMAIN s.log :
                            op > s.commit_max /\ Repairing(s, op) /\ op \notin appending(s)}
           voters == IF m.op \in DOMAIN s.nack_from THEN s.nack_from[m.op] ELSE {}
           heard == Put(s.nack_from, m.op, voters \cup {m.from})
           gap == Min(candidates)
           noted == [s EXCEPT !.nack_from = heard]
           proven == gap \in DOMAIN heard /\ Cardinality(heard[gap]) >= quorum_nack_prepare(N)
<1>1. /\ Delivered(r, m, "Nack") /\ m.op \in candidates
      /\ Step(r, IF proven THEN truncate_uncommitted_tail_from(noted, gap) ELSE noted)
  BY DEF OnNack
<1>2. m.from \in Replicas /\ m.op \in Ops
  BY <1>1, DeliveredType, MessageTypes
<1>3. IsReplica(s)
  BY DEF IInv, TypeOK
<1> HIDE DEF s
<1>4. gap \in Ops
  <2>1. candidates \subseteq Ops
    BY <1>3, LogType
  <2>2. candidates \subseteq Nat /\ candidates # {}
    BY <1>1, <2>1 DEF Ops
  <2> HIDE DEF candidates
  <2> QED BY Zenon, <2>1, <2>2, MinMember
<1>5. IsMap(heard, Ops, SUBSET Replicas)
  <2>1. IsMap(s.nack_from, Ops, SUBSET Replicas)
    BY <1>3 DEF IsReplica
  <2>2. voters \cup {m.from} \in SUBSET Replicas
    BY <1>2, <2>1 DEF IsMap
  <2> HIDE DEF voters
  <2> QED BY <1>2, <2>1, <2>2, PutType, Zenon
<1> HIDE DEF heard, gap
<1>6. IsReplica(noted)
  BY <1>3, <1>5 DEF IsReplica
<1>7. Quiet(s, noted, {})
  BY Zenon, <1>3, <1>6, FrameQuiet DEF SameView, IsReplica
<1> HIDE DEF noted, proven
<1>8. Quiet(noted, truncate_uncommitted_tail_from(noted, gap), {})
  BY <1>4, <1>6, TruncateTailQuiet
<1>9. Quiet(s, truncate_uncommitted_tail_from(noted, gap), {} \cup {})
  BY <1>7, <1>8, QuietStep
<1>10. Quiet(s, truncate_uncommitted_tail_from(noted, gap), {})
  BY <1>9
<1>11. CASE proven
  BY <1>1, <1>10, <1>11, QuietShown DEF s
<1>12. CASE ~proven
  BY <1>1, <1>7, <1>12, QuietShown DEF s
<1> QED BY <1>11, <1>12

-----------------------------------------------------------------------------
(* Storage completions. *)

\* What the landing of the root at the device leaves, before the step that awaits it.
LandedRoot(s) ==
    [s EXCEPT !.root = s.roots[1].root, !.roots = Tail(@),
       !.durable_view = IF s.roots[1].action = "none"
                        THEN Max2(@, s.roots[1].root.view) ELSE s.view]

\* A root that lands raises the durable view to its own, in submission order.
LEMMA LandedRootGood ==
    ASSUME NEW s, NEW r, Good(s, r), s.roots # <<>>, s.outgoing = {}
    PROVE  LET t == LandedRoot(s)
           IN  /\ Good(t, r) /\ s.root.view <= t.root.view
               /\ t.status = s.status
               /\ s.roots[1].action # "none" => t.view = t.root.view /\ t.view = t.durable_view
<1> DEFINE front == s.roots[1]
           view == IF front.action = "none" THEN Max2(s.durable_view, front.root.view) ELSE s.view
           t == LandedRoot(s)
<1>1. IsReplica(s) /\ RootsOrdered(s) /\ RootAwaited(s)
  BY DEF Good, DurableView
<1>2. /\ Len(s.roots) \in Nat /\ DOMAIN s.roots = 1 .. Len(s.roots) /\ 1 \in DOMAIN s.roots
      /\ Len(s.roots) \in DOMAIN s.roots
      /\ s.roots \in Seq(RootWrite)
  <2> HIDE DEF front, view, t
  <2>1. s.roots \in Seq(RootWrite)
    BY <1>1 DEF IsReplica
  <2>2. Len(s.roots) \in Nat /\ DOMAIN s.roots = 1 .. Len(s.roots)
    BY <2>1
  <2>3. Len(s.roots) # 0
    BY <2>1
  <2>4. 1 \in DOMAIN s.roots /\ Len(s.roots) \in DOMAIN s.roots
    BY <2>2, <2>3
  <2> QED BY <2>1, <2>2, <2>4
<1>3. /\ front.root \in Root /\ front.root.view \in Nat /\ s.root.view \in Nat /\ s.view \in Nat
      /\ s.durable_view = s.root.view
      /\ s.root.view <= front.root.view /\ front.root.view <= s.view
  BY Zenon, <1>1, <1>2, RootsType DEF IsReplica, RootsOrdered
<1>4. front.action # "none" => Len(s.roots) = 1 /\ front.root.view = s.view
  BY Zenon, <1>1, <1>2 DEF RootAwaited
<1>5. view = front.root.view
  <2>1. CASE front.action = "none"
    BY <1>3, <2>1 DEF Max2
  <2>2. CASE front.action # "none"
    BY <1>4, <2>2
  <2> QED BY <2>1, <2>2
<1>6. /\ Tail(s.roots) \in Seq(RootWrite) /\ Len(Tail(s.roots)) = Len(s.roots) - 1
      /\ DOMAIN Tail(s.roots) = 1 .. (Len(s.roots) - 1)
      /\ \A i \in DOMAIN Tail(s.roots) : i + 1 \in DOMAIN s.roots /\ Tail(s.roots)[i] = s.roots[i + 1]
  BY <1>2
<1>7. t = [s EXCEPT !.root = front.root, !.roots = Tail(s.roots), !.durable_view = view]
  BY <1>1 DEF LandedRoot, IsReplica
<1> HIDE DEF front, view, t
<1>8. IsReplica(t)
  BY <1>1, <1>3, <1>5, <1>6, <1>7 DEF IsReplica
<1>9. /\ t.status = s.status /\ t.view = s.view /\ t.durable_view = front.root.view
      /\ t.root = front.root /\ t.roots = Tail(s.roots) /\ t.catching_up = s.catching_up
      /\ t.inflight = s.inflight /\ t.writing = s.writing /\ t.deferred = s.deferred
      /\ t.outgoing = s.outgoing /\ t.pending_forfeit = s.pending_forfeit
  BY <1>1, <1>5, <1>7 DEF IsReplica
<1>10. RootsOrdered(t)
  <2>1. \A i \in DOMAIN s.roots : front.root.view <= s.roots[i].root.view
    BY <1>1, <1>2 DEF RootsOrdered, front
  <2>2. Len(Tail(s.roots)) <= 2
    BY <1>1, <1>2, <1>6 DEF RootsOrdered
  <2>3. \A i \in DOMAIN Tail(s.roots) :
           front.root.view <= Tail(s.roots)[i].root.view /\ Tail(s.roots)[i].root.view <= s.view
    BY <1>1, <1>6, <2>1 DEF RootsOrdered
  <2>4. \A i, j \in DOMAIN Tail(s.roots) :
           i <= j => Tail(s.roots)[i].root.view <= Tail(s.roots)[j].root.view
    BY <1>1, <1>2, <1>6 DEF RootsOrdered
  <2> QED BY <1>3, <1>9, <2>2, <2>3, <2>4 DEF RootsOrdered
<1>11. RootAwaited(t)
  <2> SUFFICES ASSUME NEW i \in DOMAIN Tail(s.roots), Tail(s.roots)[i].action # "none"
               PROVE  /\ i = Len(Tail(s.roots)) /\ Tail(s.roots)[i].root.view = s.view
                      /\ Tail(s.roots)[i].action = "AdoptedStartView" => s.status = "Normal"
    BY <1>9 DEF RootAwaited
  <2>1. i + 1 \in DOMAIN s.roots /\ Tail(s.roots)[i] = s.roots[i + 1]
    BY <1>6
  <2>2. /\ i + 1 = Len(s.roots) /\ s.roots[i + 1].root.view = s.view
        /\ s.roots[i + 1].action = "AdoptedStartView" => s.status = "Normal"
    BY <1>1, <2>1 DEF RootAwaited
  <2>3. i = Len(Tail(s.roots))
    BY <1>2, <1>6, <2>2
  <2> QED BY <2>1, <2>2, <2>3
<1>12. Kinds(t) = Kinds(s)
  BY <1>9 DEF Kinds
<1>13. s.view = s.durable_view => t.view = t.durable_view
  BY <1>3, <1>9
<1>14. front.action # "none" => t.view = t.durable_view /\ t.view = t.root.view
  BY <1>4, <1>9
<1>15. pending_sb(t) = "none" => pending_sb(s) = "none" \/ t.view = t.durable_view
  <2>1. CASE Len(s.roots) = 1
    <3>1. pending_sb(s) = front.action
      BY <2>1 DEF pending_sb, front
    <3> QED BY <1>14, <3>1
  <2>2. CASE Len(s.roots) # 1
    <3>1. Tail(s.roots) # <<>> /\ Tail(s.roots)[Len(Tail(s.roots))] = s.roots[Len(s.roots)]
      <4> DEFINE tail == Tail(s.roots)
                 n == Len(s.roots)
      <4>1. /\ n \in Nat /\ n \in 1 .. n /\ n # 1
            /\ Len(tail) = n - 1 /\ DOMAIN tail = 1 .. (n - 1)
            /\ \A i \in DOMAIN tail : tail[i] = s.roots[i + 1]
        BY <1>2, <1>6, <2>2
      <4> HIDE DEF tail, n
      <4>2. n - 1 \in DOMAIN tail /\ (n - 1) + 1 = n
        BY <4>1
      <4>3. tail[n - 1] = s.roots[n]
        BY <4>1, <4>2
      <4>4. tail # <<>>
        BY <4>2
      <4> QED BY <4>1, <4>3, <4>4 DEF tail, n
    <3> QED BY <1>9, <3>1 DEF pending_sb
  <2> QED BY <2>1, <2>2
<1>16. is_primary(t, r) <=> is_primary(s, r)
  BY <1>9 DEF is_primary
<1>17. DurableView(t, r)
  BY <1>9, <1>10, <1>11, <1>12, <1>13, <1>15, <1>16 DEF Good, DurableView
<1>18. Speaks(t, r)
  BY <1>9 DEF Speaks
<1> QED BY <1>3, <1>8, <1>9, <1>14, <1>17, <1>18 DEF Good, t, front

\* on_sb_done preserves the invariant: each continuation finds its view durable.
LEMMA RootLandsShown ==
    ASSUME IInv, NEW r \in Replicas, RootLands(r)
    PROVE  Shown
<1> DEFINE s == st[r]
           action == s.roots[1].action
           t == LandedRoot(s)
           u == CASE action = "SendDoViewChange" -> send_do_view_change(t, r)
                  [] action = "StartViewAsPrimary" ->
                       retry_unappended_adopted_tail(start_view_participate(t, r), r)
                  [] action = "AdoptedStartView" -> start_view_acks(t)
                  [] OTHER -> t
<1>1. s.roots # <<>> /\ Finish(r, u)
  BY Zenon DEF RootLands, Complete, LandedRoot
<1>2. Good(s, r) /\ s.outgoing = {}
  BY ReplicaGood DEF IInv, TypeOK
<1>3. 1 \in DOMAIN s.roots /\ RootAwaited(s)
  <2>1. IsReplica(s) /\ RootAwaited(s)
    BY <1>2 DEF Good, DurableView
  <2>2. 1 \in DOMAIN s.roots
    BY <1>1, <2>1, RootsType DEF IsReplica
  <2> QED BY <2>1, <2>2
<1>4. action = "AdoptedStartView" => s.status = "Normal"
  BY <1>3 DEF RootAwaited
<1> HIDE DEF s
<1>5. /\ Good(t, r) /\ s.root.view <= t.root.view /\ t.status = s.status
      /\ action # "none" => t.view = t.root.view /\ t.view = t.durable_view
  BY <1>1, <1>2, LandedRootGood
<1> HIDE DEF t, action
<1>6. Good(u, r) /\ u.root = t.root
  <2>1. CASE action = "SendDoViewChange"
    BY <1>5, <2>1, DoViewChangeGood
  <2>2. CASE action = "StartViewAsPrimary"
    <3>1. Good(start_view_participate(t, r), r) /\ start_view_participate(t, r).root = t.root
      BY <1>5, <2>2, ParticipateGood DEF SameView
    <3>2. u = retry_unappended_adopted_tail(start_view_participate(t, r), r)
      BY <2>2
    <3> QED BY <3>1, <3>2, RetryTailGood
  <2>3. CASE action = "AdoptedStartView"
    BY <1>4, <1>5, <2>3, StartViewAcksGood
  <2>4. CASE action \notin {"SendDoViewChange", "StartViewAsPrimary", "AdoptedStartView"}
    BY <1>5, <2>4
  <2> QED BY <2>1, <2>2, <2>3, <2>4
<1> HIDE DEF u
<1> QED BY <1>1, <1>5, <1>6, FinishShown DEF s

\* What awaits an append still owed: an acknowledgement and a vote only in a durable view.
LEMMA WalDoneGood ==
    ASSUME NEW s, NEW r \in Replicas, Good(s, r), NEW op \in Ops, NEW w \in AppendWrite,
           s.status = "ViewChange" => w.kind \in {"RepairFill", "none"},
           w.kind \in {"Ack", "AdoptAck"} => s.view = s.durable_view
    PROVE  Good(wal_done(s, r, op, w), r) /\ wal_done(s, r, op, w).root = s.root
<1> DEFINE t == wal_done(s, r, op, w)
           vote == record_own_vote(s, r, op)
           log == Put(s.log, op, [req |-> w.req, body |-> "Present"])
           nack_from == Without(s.nack_from, {op})
           filled == [s EXCEPT !.log = log, !.repair = @ \ {op}, !.nack_from = nack_from]
           revote == record_own_vote(filled, r, op)
<1>1. IsReplica(s) /\ s.durable_view = s.root.view /\ (s.catching_up => s.status = "ViewChange")
      /\ (s.status = "ViewChange" => DOMAIN s.inflight = {})
  BY DEF Good, DurableView, RootsOrdered
<1>2. w.kind \in Pending /\ w.req \in Requests
  BY DEF AppendWrite
<1>3. ASSUME NEW v, Good(v, r), ~v.catching_up, v.root = s.root
      PROVE  Good(try_commit(v, r), r) /\ try_commit(v, r).root = s.root
  <2>1. Keeps(v, try_commit(v, r), {})
    BY <1>3, TryCommitKeeps DEF Good
  <2> QED BY <1>3, <2>1, TryCommitGood DEF Keeps, SameView
<1>4. CASE w.kind = "AdoptAck" \/ (w.kind = "Ack" /\ ~is_primary(s, r))
  <2>1. t = send_prepare_ok(s, r, op)
    BY <1>4 DEF wal_done
  <2> QED BY <1>1, <1>4, <2>1, PrepareOkGood
<1>5. CASE w.kind = "AdoptVote" \/ (w.kind = "Ack" /\ is_primary(s, r))
  <2>1. t = try_commit(vote, r)
    BY <1>5 DEF wal_done
  <2>2. Quiet(s, vote, {})
    BY <1>1, RecordOwnVoteQuiet
  <2> HIDE DEF vote
  <2>3. Good(vote, r) /\ ~vote.catching_up /\ vote.root = s.root
    <3>1. Good(vote, r)
      BY <2>2, QuietGood
    <3> QED BY <1>1, <1>5, <2>2, <3>1 DEF Quiet, Keeps, SameView
  <2> QED BY <1>3, <2>1, <2>3
<1>6. CASE w.kind = "RepairFill"
  <2>1. t = IF op > s.commit_max /\ is_primary(s, r) /\ op \in DOMAIN s.inflight
            THEN try_commit(revote, r)
            ELSE advance_commit(filled, r, s.commit_max)
    BY <1>6 DEF wal_done
  <2>2. IsMap(log, Ops, LogEntry) /\ IsMap(nack_from, Ops, SUBSET Replicas)
    <3>1. /\ IsMap(s.log, Ops, LogEntry) /\ IsMap(s.nack_from, Ops, SUBSET Replicas)
          /\ [req |-> w.req, body |-> "Present"] \in LogEntry
      BY <1>1, <1>2 DEF IsReplica, LogEntry
    <3>2. IsMap(log, Ops, LogEntry)
      BY <3>1, PutType, Zenon
    <3>3. IsMap(nack_from, Ops, SUBSET Replicas)
      BY <3>1, WithoutType, Zenon
    <3> QED BY <3>2, <3>3
  <2> HIDE DEF log, nack_from
  <2>3. IsReplica(filled)
    BY <1>1, <2>2 DEF IsReplica
  <2>4. Quiet(s, filled, {})
    BY Zenon, <1>1, <2>3, FrameQuiet DEF SameView, IsReplica
  <2> HIDE DEF filled
  <2>5. Good(filled, r) /\ filled.root = s.root /\ filled.catching_up = s.catching_up
    <3>1. Good(filled, r)
      BY <2>4, QuietGood
    <3> QED BY <2>4, <3>1 DEF Quiet, Keeps, SameView
  <2>6. Quiet(filled, revote, {})
    BY <2>3, RecordOwnVoteQuiet
  <2> HIDE DEF revote
  <2>7. Good(revote, r) /\ revote.root = s.root /\ revote.catching_up = s.catching_up
    <3>1. Good(revote, r)
      BY <2>5, <2>6, QuietGood
    <3> QED BY <2>5, <2>6, <3>1 DEF Quiet, Keeps, SameView
  <2>8. CASE op > s.commit_max /\ is_primary(s, r) /\ op \in DOMAIN s.inflight
    <3>1. ~revote.catching_up
      BY <1>1, <2>7, <2>8
    <3> QED BY <1>3, <2>1, <2>7, <2>8, <3>1
  <2>9. CASE ~(op > s.commit_max /\ is_primary(s, r) /\ op \in DOMAIN s.inflight)
    <3>1. Quiet(filled, advance_commit(filled, r, s.commit_max), {})
      BY Zenon, <1>1, <2>3, AdvanceCommitQuiet DEF IsReplica
    <3>2. Good(advance_commit(filled, r, s.commit_max), r)
      BY <2>5, <3>1, QuietGood
    <3> QED BY <2>1, <2>5, <2>9, <3>1, <3>2 DEF Quiet, Keeps, SameView
  <2> QED BY <2>8, <2>9
<1>7. CASE w.kind = "none"
  BY <1>7 DEF wal_done
<1> QED BY <1>2, <1>4, <1>5, <1>6, <1>7 DEF Pending

\* on_wal_done preserves the invariant: an append acknowledges in its own view only.
LEMMA WalDoneShown ==
    ASSUME IInv, NEW r \in Replicas, NEW op \in Ops, WalDone(r, op)
    PROVE  Shown
<1> DEFINE s == st[r]
           w == s.writing[op]
           slot == [req |-> w.req, view |-> w.view, clean |-> TRUE, dropped |-> FALSE]
           wal == Put(s.wal, op, slot)
           writing == Without(s.writing, {op})
           t == [s EXCEPT !.wal = wal, !.writing = writing]
           u == wal_done(t, r, op, w)
<1>1. op \in DOMAIN s.writing /\ Complete(r, release_deferred_append(u, op))
  BY DEF WalDone
<1>2. Good(s, r) /\ IsReplica(s)
  BY ReplicaGood DEF Good
<1> HIDE DEF s
<1>3. w \in AppendWrite /\ slot \in WalSlot /\ w.kind \in Kinds(s)
  BY <1>1, <1>2 DEF IsReplica, IsMap, AppendWrite, WalSlot, Kinds
<1>4. IsMap(wal, Ops, WalSlot) /\ IsMap(writing, Ops, AppendWrite)
  <2>1. IsMap(s.wal, Ops, WalSlot) /\ IsMap(s.writing, Ops, AppendWrite)
    BY <1>2 DEF IsReplica
  <2> HIDE DEF slot
  <2>2. IsMap(wal, Ops, WalSlot)
    BY <1>3, <2>1, PutType, Zenon
  <2>3. IsMap(writing, Ops, AppendWrite)
    BY <2>1, WithoutType, Zenon
  <2> QED BY <2>2, <2>3
<1>5. \A k \in DOMAIN writing : k \in DOMAIN s.writing /\ writing[k] = s.writing[k]
  BY DEF Without, Restrict
<1> HIDE DEF wal, writing
<1>6. IsReplica(t)
  BY <1>2, <1>4 DEF IsReplica
<1>7. /\ SameView(s, t) /\ t.writing = writing /\ t.deferred = s.deferred
      /\ t.outgoing = s.outgoing /\ t.inflight = s.inflight
  BY <1>2 DEF SameView, IsReplica
<1> HIDE DEF t
<1>8. Kinds(t) \subseteq Kinds(s)
  BY <1>5, <1>7 DEF Kinds
<1>9. Quiet(s, t, {})
  BY <1>6, <1>7, <1>8 DEF Quiet, Keeps, Silent
<1>10. Good(t, r) /\ t.root = s.root
  BY <1>2, <1>7, <1>9, QuietGood DEF SameView
<1>11. /\ t.status = "ViewChange" => w.kind \in {"RepairFill", "none"}
       /\ w.kind \in {"Ack", "AdoptAck"} => t.view = t.durable_view
  BY <1>2, <1>3, <1>7 DEF Good, DurableView, SameView
<1> HIDE DEF w
<1>12. Good(u, r) /\ u.root = s.root
  BY <1>3, <1>10, <1>11, WalDoneGood
<1> HIDE DEF u
<1>13. Quiet(u, release_deferred_append(u, op), {})
  BY <1>12, ReleaseQuiet DEF Good
<1>14. Good(release_deferred_append(u, op), r)
  BY <1>12, <1>13, QuietGood
<1>15. release_deferred_append(u, op).root = s.root
  BY <1>12, <1>13 DEF Quiet, Keeps, SameView
<1> QED BY <1>1, <1>14, <1>15, StepShown DEF s

-----------------------------------------------------------------------------
(* Crash and recovery. *)

\* A crash and restart preserve the invariant: the restart resumes from the durable view.
LEMMA CrashRestartShown ==
    ASSUME IInv, NEW r \in Replicas, CrashRestart(r)
    PROVE  Shown
<1> DEFINE s == st[r]
           stored == {op \in DOMAIN s.wal : ~s.wal[op].dropped}
           slot(op, landed) == IF op \in landed THEN s.writing[op] ELSE s.wal[op]
           survives(landed, back, unreadable) ==
               [op \in stored \cup back \cup landed |->
                  [req |-> slot(op, landed).req, view |-> slot(op, landed).view,
                   clean |-> op \notin unreadable, dropped |-> FALSE]]
<1>1. PICK root \in {s.root} \cup {s.roots[i].root : i \in DOMAIN s.roots \cap {1}},
           landed \in SUBSET DOMAIN s.writing,
           back \in SUBSET (DOMAIN s.wal \ stored) :
        \E unreadable \in SUBSET ((IF TornWrites THEN landed ELSE {})
                                  \cup (IF BitRot THEN stored \ landed ELSE {})) :
           Step(r, recover(root, survives(landed, back, unreadable), r, s.nonce + 1))
  BY Zenon DEF CrashRestart
<1>2. PICK unreadable : Step(r, recover(root, survives(landed, back, unreadable), r, s.nonce + 1))
  BY <1>1, Zenon
<1> DEFINE wal == survives(landed, back, unreadable)
           t == recover(root, wal, r, s.nonce + 1)
<1>3. Good(s, r) /\ IsReplica(s)
  BY ReplicaGood DEF Good
<1> HIDE DEF s
<1>4. root \in Root /\ s.root.view <= root.view
  <2>1. CASE root = s.root
    BY <1>3, <2>1, RootsType
  <2>2. CASE 1 \in DOMAIN s.roots /\ root = s.roots[1].root
    BY <1>3, <2>2, RootsType DEF Good, DurableView, RootsOrdered
  <2> QED BY <1>1, <2>1, <2>2
<1>5. IsMap(wal, Ops, WalSlot)
  <2>1. \A op \in DOMAIN s.wal : op \in Ops /\ s.wal[op].req \in Requests /\ s.wal[op].view \in Nat
    BY <1>3 DEF IsReplica, IsMap, WalSlot
  <2>2. \A op \in DOMAIN s.writing :
           op \in Ops /\ s.writing[op].req \in Requests /\ s.writing[op].view \in Nat
    BY <1>3 DEF IsReplica, IsMap, AppendWrite
  <2>3. DOMAIN wal = stored \cup back \cup landed
    OBVIOUS
  <2>4. ASSUME NEW op \in DOMAIN wal PROVE op \in Ops /\ wal[op] \in WalSlot
    <3>1. op \in Ops /\ slot(op, landed).req \in Requests /\ slot(op, landed).view \in Nat
      BY <2>1, <2>2, <2>3
    <3> HIDE DEF slot
    <3>2. wal[op] = [req |-> slot(op, landed).req, view |-> slot(op, landed).view,
                     clean |-> op \notin unreadable, dropped |-> FALSE]
      BY <2>3
    <3> QED BY <3>1, <3>2 DEF WalSlot
  <2>5. wal = [op \in DOMAIN wal |-> wal[op]]
    OBVIOUS
  <2> HIDE DEF wal
  <2> QED BY <2>4, <2>5 DEF IsMap
<1>6. s.nonce + 1 \in Nat
  <2>1. s.nonce \in Nat
    BY <1>3 DEF IsReplica
  <2> HIDE DEF s
  <2> QED BY <2>1
<1>7. Finish(r, t)
  BY Zenon, <1>2 DEF Step
<1> HIDE DEF wal
<1>8. Good(t, r) /\ t.root = root
  BY <1>4, <1>5, <1>6, RecoverGood
<1> HIDE DEF t
<1> QED BY <1>4, <1>7, <1>8, FinishShown DEF s

-----------------------------------------------------------------------------
(* The theorems. *)

\* Every message handler preserves the invariant.
LEMMA ReceiveShown ==
    ASSUME IInv, NEW r \in Replicas, NEW m \in msgs, Receive(r, m)
    PROVE  Shown
<1>1. CASE FillRepair(r, m) \/ OnRepairBatch(r, m)
  BY <1>1, FillRepairShown
<1>2. CASE \/ OnPrepareHeld(r, m) \/ OnPrepareReappend(r, m)
           \/ OnPrepareNext(r, m) \/ OnPrepareGap(r, m)
  BY <1>2, OnPrepareHeldShown, OnPrepareReappendShown, OnPrepareNextShown, OnPrepareGapShown
<1>3. CASE OnPrepareOk(r, m) \/ OnCommit(r, m) \/ CatchUp(r, m)
  BY <1>3, OnPrepareOkShown, OnCommitShown, CatchUpShown
<1>4. CASE OnStartViewChange(r, m) \/ OnDoViewChange(r, m)
  BY <1>4, OnStartViewChangeShown, OnDoViewChangeShown
<1>5. CASE OnStartView(r, m) \/ OnRecoveryResponse(r, m)
  BY <1>5, OnStartViewShown
<1>6. CASE OnGetView(r, m) \/ OnRecovery(r, m)
  BY <1>6, OnGetViewShown, OnRecoveryShown
<1>7. CASE OnRequestPrepareNack(r, m) \/ OnNack(r, m)
  BY <1>7, OnRequestPrepareNackShown, OnNackShown
<1>8. CASE OnRequestPrepare(r, m) \/ OnRequestPrepareRange(r, m)
  BY <1>8, ServeShown
<1> QED BY <1>1, <1>2, <1>3, <1>4, <1>5, <1>6, <1>7, <1>8 DEF Receive

\* Every timer preserves the invariant.
LEMMA TimerShown ==
    ASSUME IInv, NEW r \in Replicas, Timer(r)
    PROVE  Shown
<1>1. CASE CommitHeartbeat(r) \/ PrepareRetransmit(r)
  BY <1>1, CommitHeartbeatShown, PrepareRetransmitShown
<1>2. CASE Forfeit(r)
  BY <1>2, ForfeitShown
<1>3. CASE PrimaryIdle(r) \/ StepDown(r)
  BY <1>3, SuspectShown
<1>4. CASE ViewChangeStatus(r)
  BY <1>4, ViewChangeStatusShown
<1>5. CASE SvcRetransmit(r) \/ DvcRetransmit(r)
  BY <1>5, SvcRetransmitShown, DvcRetransmitShown
<1>6. CASE RepairRetry(r)
  BY <1>6, RepairRetryShown
<1> QED BY <1>1, <1>2, <1>3, <1>4, <1>5, <1>6 DEF Timer

\* The genesis state satisfies the invariant.
LEMMA InitShown == Init => IInv
<1> SUFFICES ASSUME Init PROVE IInv
  OBVIOUS
<1> DEFINE root == [view |-> 0, log_view |-> 0, commit |-> 0, headers |-> EmptyMap]
<1>1. root \in Root
  <2>1. EmptyMap \in MapsTo(Ops, Requests)
    BY EmptyMapType, MapsToIsMap
  <2> QED BY <2>1, FrontierType DEF Root
<1>2. IsMap(EmptyMap, Ops, WalSlot) /\ IsMap(EmptyMap, Ops, LogEntry)
  BY EmptyMapType
<1>3. genesis = Booted(root, EmptyMap, 0, EmptyMap, 0)
  BY DEF genesis
<1> HIDE DEF root
<1>4. \A r \in Replicas : Good(genesis, r)
  BY <1>1, <1>2, <1>3, BootedGood, FrontierType
<1>5. genesis.outgoing = {} /\ genesis.events = {}
  BY <1>3 DEF Booted
<1>6. TypeOK
  BY <1>4, <1>5 DEF Init, TypeOK, Good
<1>7. DurableViewInv
  BY <1>4 DEF Init, DurableViewInv, Good
<1>8. DurableViewBeforeParticipate
  BY DEF Init, DurableViewBeforeParticipate
<1> QED BY <1>6, <1>7, <1>8 DEF IInv

\* A step of the cluster preserves the invariant and takes back no vote.
LEMMA NextShown == IInv /\ [Next]_vars => IInv' /\ [VoteIsFinal]_vars
<1> SUFFICES ASSUME IInv, [Next]_vars PROVE IInv' /\ [VoteIsFinal]_vars
  OBVIOUS
<1>1. CASE UNCHANGED vars
  BY <1>1 DEF IInv, TypeOK, DurableViewInv, DurableViewBeforeParticipate, vars
<1>2. CASE Next
  <2>1. PICK r \in Replicas :
          \/ \E q \in Requests : OnRequest(r, q)
          \/ \E m \in msgs : Receive(r, m)
          \/ Timer(r)
          \/ RootLands(r)
          \/ \E op \in Ops : WalDone(r, op)
          \/ CrashRestart(r)
    BY <1>2 DEF Next
  <2>2. Shown
    BY <2>1, OnRequestShown, ReceiveShown, TimerShown, RootLandsShown, WalDoneShown,
       CrashRestartShown
  <2> QED BY <2>2 DEF Shown
<1> QED BY <1>1, <1>2

\* The invariant holds in every reachable state, for every number of replicas, requests, ops
\* and views, and whatever is lost, repeated, reordered, torn or rotten.
THEOREM Invariance == Spec => []IInv
<1>1. Init => IInv
  BY InitShown
<1>2. IInv /\ [Next]_vars => IInv'
  BY NextShown
<1> QED BY <1>1, <1>2, PTL DEF Spec

\* Every replica record, message and applied op stays well formed: no handler of the endpoint
\* indexes its log, its maps or its root queue outside their domain.
THEOREM TypeCorrect == Spec => []TypeOK
<1>1. IInv => TypeOK
  BY DEF IInv
<1> QED BY <1>1, Invariance, PTL

\* Every replica keeps the durable-view discipline.
THEOREM Discipline == Spec => []DurableViewInv
<1>1. IInv => DurableViewInv
  BY DEF IInv
<1> QED BY <1>1, Invariance, PTL

\* No replica speaks for a view before that view is in its durable root: the order in which
\* submit_durable_view, on_sb_done and the gated handlers run guarantees it.
THEOREM DurableBeforeParticipate == Spec => []DurableViewBeforeParticipate
<1>1. IInv => DurableViewBeforeParticipate
  BY DEF IInv
<1> QED BY <1>1, Invariance, PTL

\* No replica takes back a DoViewChange: whatever crash, catch-up or revert follows it, the
\* replica never leads, acknowledges or votes in an older view.
THEOREM VoteFinality == Spec => VotesAreFinal
<1>1. IInv /\ [Next]_vars => [VoteIsFinal]_vars
  BY NextShown
<1> QED BY <1>1, Invariance, PTL DEF Spec, VotesAreFinal

=============================================================================
