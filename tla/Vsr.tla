-------------------------------- MODULE Vsr --------------------------------
(***************************************************************************)
(* A cluster of replicas (VsrReplica) over an unreliable network, with     *)
(* asynchronous storage and process crashes.  One action per message       *)
(* handler, timer, storage completion and restart of the endpoint          *)
(* (viewstamp-proto/src/endpoint).                                         *)
(*                                                                         *)
(* msgs is the set of messages ever sent: a message may be delivered late, *)
(* many times, in any order, or never.  A batch of entries is one message  *)
(* per entry, delivered independently.  Handlers that drop a message leave *)
(* the state alone and have no action.                                     *)
(***************************************************************************)
EXTENDS VsrReplica

CONSTANTS
    Timers,         \* the timers that fire in this instance
    Loopback,       \* does the transport return a self-addressed message?
    Suspicious,     \* the replicas whose primary_idle and view_change_status fire
    Slow,           \* the replicas whose storage writes may be delayed
    Crashers,       \* the replicas that crash
    CrashViews,     \* the views a replica may crash in
    MaxCrashes,     \* bound on process crashes, over all replicas
    TornWrites,     \* may a crash leave an in-flight append without its body?
    BitRot          \* may a slot's body be unreadable at the restart?

TimerKinds ==
    {"commit", "prepare", "forfeit", "primary_idle", "view_change_status", "svc_message",
     "dvc_message", "repair"}

ASSUME EnvironmentAssumption ==
    /\ Timers \subseteq TimerKinds
    /\ Suspicious \subseteq Replicas /\ Slow \subseteq Replicas /\ Crashers \subseteq Replicas
    /\ CrashViews \subseteq Views /\ MaxCrashes \in Nat
    /\ {Loopback, TornWrites, BitRot} \subseteq BOOLEAN

VARIABLES
    st,             \* the replicas
    msgs,           \* the messages ever sent
    applied         \* history: every <<op, request>> any state machine applied

vars == <<st, msgs, applied>>

\* The replicas whose prompt storage has a write to complete.
Busy == {r \in Replicas \ Slow : st[r].roots # <<>> \/ DOMAIN st[r].writing # {}}

\* Replica r ends a step in state s: what it queued is sent.
Finish(r, s) ==
    /\ ~st[r].panicked
    /\ s.view <= MaxView /\ s.svc_target <= MaxView
    /\ st' = [st EXCEPT ![r] = [s EXCEPT !.outgoing = {}, !.events = {}]]
    /\ msgs' = msgs \cup s.outgoing
    /\ applied' = applied \cup s.events

\* A message, timer or crash is handled when no prompt storage has a write to complete.
Step(r, s) == Busy = {} /\ Finish(r, s)

\* A storage completion is handled, the prompt ones first.
Complete(r, s) == (Busy # {} => r = Min(Busy)) /\ Finish(r, s)

\* m, of the given type, may be delivered to r now: in RecoveringHead only a canonical
\* head is, and a Prepare from another replica than its view's primary only for a hole
\* being repaired.
Delivered(r, m, type) ==
    /\ m.type = type /\ r \in m.to /\ (m.from = r => Loopback)
    /\ st[r].status = "RecoveringHead" => type \in {"StartView", "RecoveryResponse"}
    /\ type = "Prepare" => m.from = Primary(m.view) \/ m.op \in st[r].repair

-----------------------------------------------------------------------------
(* Normal operation. *)

\* on_request, mint_op: the primary admits a new request as the next op.
OnRequest(r, q) ==
    LET s == st[r]
        op == s.op + 1
        minted == append_prepare([s EXCEPT !.clients = @ \cup {q}], op, q, s.view)
    IN  /\ s.status = "Normal" /\ is_primary(s, r)
        /\ pending_sb(s) = "none" /\ ~s.pending_forfeit
        /\ s.commit_max <= s.commit_min /\ s.repair = {}
        /\ q \notin s.clients
        /\ op <= MaxOp
        /\ Step(r, emit([minted EXCEPT !.inflight = Put(s.inflight, op, [req |-> q, oks |-> {}])],
                        {Prepare(minted, r, Others(r), op)}))

\* fill_repair: a body for a hole, under its kept identity or vouched for as committed.
Fills(s, m) ==
    /\ m.op \in s.repair
    /\ m.op \notin appending(s)
    /\ IF Repairing(s, m.op) THEN s.log[m.op].req = m.req ELSE m.commit >= m.op

fill_repair(s, m, view) ==
    [submit_or_defer_append(s, [op \in {m.op} |-> m.req], view, "RepairFill") EXCEPT
       !.nack_from = Without(s.nack_from, {m.op})]

FillRepair(r, m) ==
    /\ Delivered(r, m, "Prepare")
    /\ Fills(st[r], m)
    /\ Step(r, fill_repair(st[r], m, m.view))

OnRepairBatch(r, m) ==
    /\ Delivered(r, m, "RepairBatch")
    /\ Fills(st[r], m)
    /\ Step(r, fill_repair(st[r], m, st[r].view))

\* A mutant of FollowsPrepare: a Prepare of an older view is taken, too.
FollowsOldPrepare(r, m) ==
    LET s == st[r]
    IN  /\ Delivered(r, m, "Prepare")
        /\ m.op \notin s.repair
        /\ s.status = "Normal" /\ m.view <= s.view /\ ~is_primary(s, r)
        /\ ~pending_durable_view(s)

\* on_prepare, past its early returns: a backup of the view takes the primary's Prepare.
FollowsPrepare(r, m) ==
    LET s == st[r]
    IN  /\ Delivered(r, m, "Prepare")
        /\ m.op \notin s.repair
        /\ s.status = "Normal" /\ m.view = s.view /\ ~is_primary(s, r)
        /\ ~pending_durable_view(s)

HoldsCanonical(s, m) == Present(s, m.op) /\ s.log[m.op].req = m.req

\* An op already held under the same identity is acknowledged again once durable.
OnPrepareHeld(r, m) ==
    LET s == advance_commit(st[r], r, m.commit)
    IN  /\ FollowsPrepare(r, m)
        /\ m.op <= s.op /\ HoldsCanonical(s, m)
        /\ Step(r, IF m.op \notin appending(s) /\ op_durably_appended(s, m.op)
                   THEN send_prepare_ok(s, r, m.op) ELSE s)

\* An op held under another identity, or without its body, is appended again.
OnPrepareReappend(r, m) ==
    LET s == advance_commit(st[r], r, m.commit)
    IN  /\ FollowsPrepare(r, m)
        /\ m.op <= s.op /\ ~HoldsCanonical(s, m)
        /\ Step(r, IF m.op \in appending(s) THEN s ELSE append_prepare(s, m.op, m.req, m.view))

\* The next op extends the log.
OnPrepareNext(r, m) ==
    LET s == advance_commit(st[r], r, m.commit)
        extended == append_prepare(s, m.op, m.req, m.view)
    IN  /\ FollowsPrepare(r, m)
        /\ m.op = s.op + 1
        /\ Step(r, advance_commit(extended, r, extended.commit_max))

\* An op beyond the next: the gap is solicited.  (The buffered Prepare is redelivered.)
OnPrepareGap(r, m) ==
    LET s == advance_commit(st[r], r, m.commit)
    IN  /\ FollowsPrepare(r, m)
        /\ m.op > s.op + 1
        /\ Step(r, request_tail_gap(s, r))

OnPrepareOk(r, m) ==
    LET s == st[r]
        counts == m.op \in DOMAIN s.inflight /\ s.inflight[m.op].req = m.req
    IN  /\ Delivered(r, m, "PrepareOk")
        /\ s.status = "Normal" /\ is_primary(s, r) /\ m.view = s.view
        /\ Step(r, try_commit(IF counts
                              THEN [s EXCEPT !.inflight[m.op].oks = @ \cup {m.from}]
                              ELSE s, r))

OnCommit(r, m) ==
    LET s == st[r]
    IN  /\ Delivered(r, m, "Commit")
        /\ s.status = "Normal" /\ m.view = s.view /\ ~is_primary(s, r)
        /\ Step(r, request_tail_gap(advance_commit(s, r, m.commit), r))

\* A Prepare, PrepareOk or Commit of a newer view.
CatchUp(r, m) ==
    /\ \/ Delivered(r, m, "Prepare") /\ m.op \notin st[r].repair
       \/ Delivered(r, m, "PrepareOk")
       \/ Delivered(r, m, "Commit")
    /\ m.view > st[r].view
    /\ Step(r, catch_up_to_view(st[r], r, m.view))

\* primary_timeouts past its early returns.
PrimaryTimer(r) == participates_as_primary(st[r], r) /\ ~st[r].pending_forfeit

CommitHeartbeat(r) ==
    /\ "commit" \in Timers
    /\ PrimaryTimer(r)
    /\ Step(r, emit(st[r], {Commit(st[r], r)}))

PrepareRetransmit(r) ==
    LET s == st[r]
        open == {op \in (s.commit_min + 1) .. s.op : Present(s, op)}
    IN  /\ "prepare" \in Timers
        /\ PrimaryTimer(r)
        /\ open # {}
        /\ Step(r, emit(s, {Prepare(s, r, Others(r), op) : op \in open}))

\* maybe_forfeit: a primary that cannot fill a committed hole gives up the view.
Forfeit(r) ==
    /\ "forfeit" \in Timers
    /\ PrimaryTimer(r)
    /\ \E op \in st[r].repair : op <= st[r].commit_max
    /\ Step(r, propose_next_view([st[r] EXCEPT !.pending_forfeit = TRUE], r))

StepDown(r) ==
    /\ "svc_message" \in Timers
    /\ st[r].status = "Normal" /\ is_primary(st[r], r) /\ st[r].pending_forfeit
    /\ Step(r, propose_next_view(st[r], r))

-----------------------------------------------------------------------------
(* View change. *)

PrimaryIdle(r) ==
    /\ "primary_idle" \in Timers /\ r \in Suspicious
    /\ st[r].status = "Normal" /\ ~is_primary(st[r], r)
    /\ Step(r, propose_next_view(st[r], r))

\* The view-change status timer: propose the next view, or give up a catch-up that
\* nothing validated.
ViewChangeStatus(r) ==
    LET s == st[r]
        revert_to == Max2(s.durable_view, effective_root(s).view)
        windows == s.catchup_windows + 1
        timed == [s EXCEPT !.catchup_windows = windows]
    IN  /\ "view_change_status" \in Timers /\ r \in Suspicious
        /\ s.status = "ViewChange"
        /\ IF s.catching_up
           THEN /\ windows <= CatchUpWindows
                /\ Step(r, IF windows >= CatchUpWindows /\ s.view > revert_to
                           THEN revert_catch_up_to_effective_view(s, r, revert_to)
                           ELSE propose_next_view(timed, r))
           ELSE Step(r, propose_next_view(s, r))

SvcRetransmit(r) ==
    /\ "svc_message" \in Timers
    /\ st[r].status = "ViewChange" /\ ~st[r].catching_up
    /\ Step(r, emit(st[r], {StartViewChange(st[r], r)}))

\* A mutant of DvcRetransmit: the vote is cast before its view is durable.
DvcRetransmitEarly(r) ==
    /\ "dvc_message" \in Timers
    /\ st[r].status = "ViewChange" /\ ~st[r].catching_up
    /\ Step(r, send_do_view_change(st[r], r))

DvcRetransmit(r) ==
    /\ "dvc_message" \in Timers
    /\ st[r].status = "ViewChange" /\ ~st[r].catching_up
    /\ st[r].durable_view = st[r].view
    /\ Step(r, send_do_view_change(st[r], r))

OnStartViewChange(r, m) ==
    LET s == raise_svc_target(st[r], m.view)
        joined == IF m.view > st[r].svc_target THEN join_svc(s, r) ELSE s
    IN  /\ Delivered(r, m, "StartViewChange")
        /\ m.view > st[r].view
        /\ m.view = s.svc_target
        /\ Step(r, maybe_start_view_change([joined EXCEPT !.svc_from = @ \cup {m.from}]))

\* A DoViewChange counts once per sender; a sender's newer claim replaces an older one.
Supersedes(d, dvcs, q) ==
    q \in DOMAIN dvcs =>
        \/ d.log_view > dvcs[q].log_view
        \/ d.log_view = dvcs[q].log_view /\ d.op > dvcs[q].op

OnDoViewChange(r, m) ==
    LET s == st[r]
        own == IF r \in DOMAIN s.dvc_from THEN s.dvc_from ELSE Put(s.dvc_from, r, own_dvc(s))
        all == IF Supersedes(m.dvc, own, m.from) THEN Put(own, m.from, m.dvc) ELSE own
        collected == [s EXCEPT !.dvc_from = all]
    IN  /\ Delivered(r, m, "DoViewChange")
        /\ m.view = s.view /\ is_primary(s, r) /\ s.status = "ViewChange"
        /\ Step(r, IF Cardinality(DOMAIN all) >= quorum_view_change(N)
                   THEN start_view_as_new_primary(collected, r)
                   ELSE collected)

\* A mutant of OnStartView: a view this replica is Normal in is adopted again.
OnStartViewAgain(r, m) ==
    /\ Delivered(r, m, "StartView")
    /\ m.view >= st[r].view
    /\ Step(r, adopt_canonical_head(st[r], r, m.view, m.head))

OnStartView(r, m) ==
    /\ Delivered(r, m, "StartView")
    /\ m.view > st[r].view \/ (m.view = st[r].view /\ st[r].status # "Normal")
    /\ Step(r, adopt_canonical_head(st[r], r, m.view, m.head))

OnGetView(r, m) ==
    /\ Delivered(r, m, "GetView")
    /\ participates_as_primary(st[r], r) /\ st[r].view >= m.view
    /\ Step(r, emit(st[r], {StartView(st[r], r, {m.from})}))

-----------------------------------------------------------------------------
(* Repair. *)

\* A replica that never held an op above its head and commit frontier says so.
OnRequestPrepareNack(r, m) ==
    LET s == st[r]
    IN  /\ Delivered(r, m, "RequestPrepare")
        /\ s.status = "Normal"
        /\ ~Held(s, m.op) /\ m.op > s.op /\ m.op > s.commit_max
        /\ Step(r, emit(s, {Nack(s, r, m.from, m.op)}))

\* Serves: a Normal replica of a durable view that holds the body.
Serves(s, op) ==
    s.status = "Normal" /\ Present(s, op) /\ op <= s.op /\ ~pending_durable_view(s)

OnRequestPrepare(r, m) ==
    /\ Delivered(r, m, "RequestPrepare")
    /\ Serves(st[r], m.op)
    /\ Step(r, emit(st[r], {Prepare(st[r], r, {m.from}, m.op)}))

OnRequestPrepareRange(r, m) ==
    /\ Delivered(r, m, "RequestPrepareRange")
    /\ Serves(st[r], m.op)
    /\ Step(r, emit(st[r], {RepairBatch(st[r], r, m.from, m.op)}))

RepairRetry(r) ==
    LET s == st[r]
    IN  /\ "repair" \in Timers
        /\ s.status = "Normal" /\ s.repair # {}
        /\ Step(r, emit(s, {RequestPrepare(r, op) : op \in {o \in s.repair : o > s.commit_max}}
                           \cup {RequestPrepareRange(r, op) : op \in {o \in s.repair : o <= s.commit_max}}))

\* Drops the uncommitted tail from gap on.
truncate_uncommitted_tail_from(s, gap) ==
    LET gone == gap .. MaxOp
        lost == Range(Headers(s, gone))
        log == Without(s.log, gone)
        backed == s.replied \cup {log[op].req : op \in DOMAIN log}
        safe == \A op \in gap .. s.op : committed_survives(s, op)
        dropped == [discard_pending(assert(s, safe), gone) EXCEPT
                      !.op = gap - 1, !.log = log, !.repair = @ \ gone,
                      !.inflight = Without(s.inflight, gone),
                      !.clients = @ \ (lost \ backed),
                      !.nack_from = Without(s.nack_from, gone)]
    IN  truncate(dropped, gap - 1)

\* A nack quorum for the first bodyless uncommitted op proves it was never committed.
OnNack(r, m) ==
    LET s == st[r]
        candidates == {op \in DOMAIN s.log :
                         op > s.commit_max /\ Repairing(s, op) /\ op \notin appending(s)}
        voters(op) == IF op \in DOMAIN s.nack_from THEN s.nack_from[op] ELSE {}
        heard == Put(s.nack_from, m.op, voters(m.op) \cup {m.from})
        gap == Min(candidates)
        noted == [s EXCEPT !.nack_from = heard]
    IN  /\ Delivered(r, m, "Nack")
        /\ participates_as_primary(s, r) /\ ~s.pending_forfeit /\ m.view = s.view
        /\ m.op \in candidates
        /\ Step(r, IF gap \in DOMAIN heard /\ Cardinality(heard[gap]) >= quorum_nack_prepare(N)
                   THEN truncate_uncommitted_tail_from(noted, gap)
                   ELSE noted)

-----------------------------------------------------------------------------
(* Storage completions. *)

\* The root at the device is durable; the step awaiting it runs.
RootLands(r) ==
    LET s == st[r]
        front == s.roots[1]
        landed == [s EXCEPT !.root = front.root, !.roots = Tail(@),
                     !.durable_view = IF front.action = "none"
                                      THEN Max2(@, front.root.view) ELSE s.view]
    IN  /\ s.roots # <<>>
        /\ Complete(r, CASE front.action = "SendDoViewChange" -> send_do_view_change(landed, r)
                         [] front.action = "StartViewAsPrimary" ->
                              retry_unappended_adopted_tail(start_view_participate(landed, r), r)
                         [] front.action = "AdoptedStartView" -> start_view_acks(landed)
                         [] OTHER -> landed)

\* on_wal_done for an append still accounted for.
wal_done(s, r, op, w) ==
    CASE w.kind = "AdoptAck" \/ (w.kind = "Ack" /\ ~is_primary(s, r)) -> send_prepare_ok(s, r, op)
      [] w.kind = "AdoptVote" \/ (w.kind = "Ack" /\ is_primary(s, r)) ->
           try_commit(record_own_vote(s, r, op), r)
      [] w.kind = "RepairFill" ->
           LET filled == [s EXCEPT !.log = Put(s.log, op, [req |-> w.req, body |-> "Present"]),
                                   !.repair = @ \ {op},
                                   !.nack_from = Without(s.nack_from, {op})]
           IN  IF op > s.commit_max /\ is_primary(s, r) /\ op \in DOMAIN s.inflight
               THEN try_commit(record_own_vote(filled, r, op), r)
               ELSE advance_commit(filled, r, s.commit_max)
      [] OTHER -> s

\* An append is durable: its slot holds it, the step awaiting it runs, and the write
\* deferred behind it is submitted.
WalDone(r, op) ==
    LET s == st[r]
        w == s.writing[op]
        slot == [req |-> w.req, view |-> w.view, clean |-> TRUE, dropped |-> FALSE]
        landed == [s EXCEPT !.wal = Put(s.wal, op, slot), !.writing = Without(s.writing, {op})]
    IN  /\ op \in DOMAIN s.writing
        /\ Complete(r, release_deferred_append(wal_done(landed, r, op, w), op))

-----------------------------------------------------------------------------
(* Crash and recovery. *)

Crashes == SumFunction([r \in Replicas |-> st[r].nonce])

\* The process stops and is restarted over what storage holds: the root at the device
\* landed or not, appends in flight landed, were lost or tore, bodies rotted, and truncated
\* slots may come back.
CrashRestart(r) ==
    LET s == st[r]
        stored == {op \in DOMAIN s.wal : ~s.wal[op].dropped}
    IN  /\ r \in Crashers /\ s.view \in CrashViews /\ Crashes < MaxCrashes
        /\ \E root \in {s.root} \cup {s.roots[i].root : i \in DOMAIN s.roots \cap {1}},
              landed \in SUBSET DOMAIN s.writing,
              back \in SUBSET (DOMAIN s.wal \ stored) :
           \E unreadable \in SUBSET ((IF TornWrites THEN landed ELSE {})
                                     \cup (IF BitRot THEN stored \ landed ELSE {})) :
              LET slot(op) == IF op \in landed THEN s.writing[op] ELSE s.wal[op]
                  wal == [op \in stored \cup back \cup landed |->
                            [req |-> slot(op).req, view |-> slot(op).view,
                             clean |-> op \notin unreadable, dropped |-> FALSE]]
              IN  Step(r, recover(root, wal, r, s.nonce + 1))

OnRecovery(r, m) ==
    /\ Delivered(r, m, "Recovery")
    /\ participates_as_primary(st[r], r)
    /\ Step(r, emit(st[r], {RecoveryResponse(st[r], r, m)}))

OnRecoveryResponse(r, m) ==
    LET s == st[r]
    IN  /\ Delivered(r, m, "RecoveryResponse")
        /\ s.status = "RecoveringHead" /\ m.nonce = s.nonce
        /\ m.view >= s.view /\ m.from = Primary(m.view)
        /\ Step(r, adopt_canonical_head(s, r, m.view, m.head))

-----------------------------------------------------------------------------

Init ==
    /\ st = [r \in Replicas |-> genesis]
    /\ msgs = {}
    /\ applied = {}

Timer(r) ==
    \/ CommitHeartbeat(r) \/ PrepareRetransmit(r) \/ Forfeit(r) \/ StepDown(r)
    \/ PrimaryIdle(r) \/ ViewChangeStatus(r) \/ SvcRetransmit(r) \/ DvcRetransmit(r)
    \/ RepairRetry(r)

Receive(r, m) ==
    \/ FillRepair(r, m) \/ OnRepairBatch(r, m)
    \/ OnPrepareHeld(r, m) \/ OnPrepareReappend(r, m) \/ OnPrepareNext(r, m) \/ OnPrepareGap(r, m)
    \/ OnPrepareOk(r, m) \/ OnCommit(r, m) \/ CatchUp(r, m)
    \/ OnStartViewChange(r, m) \/ OnDoViewChange(r, m) \/ OnStartView(r, m) \/ OnGetView(r, m)
    \/ OnRequestPrepareNack(r, m) \/ OnRequestPrepare(r, m) \/ OnRequestPrepareRange(r, m)
    \/ OnNack(r, m) \/ OnRecovery(r, m) \/ OnRecoveryResponse(r, m)

Next ==
    \E r \in Replicas :
        \/ \E q \in Requests : OnRequest(r, q)
        \/ \E m \in msgs : Receive(r, m)
        \/ Timer(r)
        \/ RootLands(r)
        \/ \E op \in Ops : WalDone(r, op)
        \/ CrashRestart(r)

Spec == Init /\ [][Next]_vars

-----------------------------------------------------------------------------
(* Properties. *)

\* Every replica, message and applied op is well formed, and between steps a replica has
\* nothing queued.
TypeOK ==
    /\ DOMAIN st = Replicas
    /\ \A r \in Replicas : IsReplica(st[r]) /\ st[r].outgoing = {} /\ st[r].events = {}
    /\ msgs \subseteq Message
    /\ applied \subseteq Ops \X Requests

\* No two replicas apply different requests at the same op: every commit decision of
\* try_commit and advance_commit agrees with every other, across views and restarts.
Agreement ==
    \A a, b \in applied : a[1] = b[1] => a[2] = b[2]

\* No request is applied at two ops, however often it is retried or re-proposed.
AtMostOnce ==
    \A a, b \in applied : a[2] = b[2] => a[1] = b[1]

Log == INSTANCE ReplicatedLog WITH chosen <- applied

\* The replicas together implement one replicated log: what any of them applies extends what
\* all of them applied before, in order and without repetition.
LogRefinement == Log!Spec

\* Replica r's stable storage names request q at op: in a WAL slot or in the durable root.
Remembers(r, op, q) ==
    \/ op \in DOMAIN st[r].wal /\ ~st[r].wal[op].dropped /\ st[r].wal[op].req = q
    \/ op \in DOMAIN st[r].root.headers /\ st[r].root.headers[op] = q

\* An applied op is in the stable storage of a replication quorum, whatever is truncated,
\* overwritten or adopted afterwards: every view-change quorum contains a witness of it.
CommittedDurable ==
    \A a \in applied :
        Cardinality({r \in Replicas : Remembers(r, a[1], a[2])}) >= quorum(N)

\* A replica speaks for a view only when that view is in its durable root: no crash can
\* make it forget a view in which it voted, acknowledged or led.
DurableViewBeforeParticipate ==
    \A m \in msgs : advertises_authoritative_view(m) => m.view <= st[m.from].root.view

\* Every replica keeps the durable-view discipline: the roots it writes are in view order, and
\* what it owes or leads belongs to the durable view.
DurableViewInv == \A r \in Replicas : DurableView(st[r], r)

\* A step sends nothing that leads, acknowledges or votes in a view older than one its sender
\* has cast a DoViewChange for.
VoteIsFinal ==
    \A m \in msgs' \ msgs, d \in msgs :
        m.type \in {"Prepare", "PrepareOk", "Commit", "StartView", "DoViewChange"}
        /\ d.type = "DoViewChange" /\ d.from = m.from => d.view <= m.view

\* A replica that cast a DoViewChange for a view never again leads, acknowledges or serves an
\* older one: neither a crash nor a reverted catch-up takes the vote back.
VotesAreFinal == [][VoteIsFinal]_vars

\* No assert! of the endpoint fails.
NoPanic == \A r \in Replicas : ~st[r].panicked

=============================================================================
