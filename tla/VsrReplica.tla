----------------------------- MODULE VsrReplica -----------------------------
(***************************************************************************)
(* One replica of the replication core (viewstamp-proto/src/endpoint): its *)
(* state as a record, and the functions of the endpoint as operators on    *)
(* that record.  A handler of the endpoint is a composition of these       *)
(* operators; module Vsr turns the handlers into actions.                  *)
(*                                                                         *)
(* A request is its identity (client, request number, body checksum): one  *)
(* member of Requests per client, each client having one request.  The log *)
(* and the other BTreeMaps of the endpoint are functions whose domain is   *)
(* the set of keys present.  The configuration is fixed, every replica is  *)
(* a voter, and no checkpoint is taken, so checkpoint_op = log_floor = 0.  *)
(***************************************************************************)
EXTENDS Quorums, Integers, Sequences, FiniteSets, FiniteSetsExt, Functions

CONSTANTS
    N,              \* number of voters
    Requests,       \* the requests clients may submit
    MaxOp,          \* bound on op numbers
    MaxView,        \* bound on views
    CatchUpWindows, \* CATCH_UP_VALIDATION_WINDOWS, scaled down
    LazyTruncate    \* may a crash resurrect a WAL slot that was truncated?

ASSUME ConstantsAssumption ==
    /\ N \in Nat /\ N >= 2
    /\ MaxOp \in Nat /\ MaxView \in Nat /\ CatchUpWindows \in Nat
    /\ LazyTruncate \in BOOLEAN
    /\ 0 \notin Requests

Replicas == 0 .. (N - 1)
Ops == 1 .. MaxOp
Frontier == 0 .. MaxOp
Views == 0 .. MaxView
NoIdentity == 0

Primary(view) == primary(view, N)

-----------------------------------------------------------------------------
(* Maps: BTreeMap insert, remove and retain. *)

EmptyMap == [k \in {} |-> k]

Put(f, k, v) == [x \in DOMAIN f \cup {k} |-> IF x = k THEN v ELSE f[x]]

Without(f, K) == Restrict(f, DOMAIN f \ K)

\* The maps from keys in K to values in V.
MapsTo(K, V) == UNION {[D -> V] : D \in SUBSET K}
IsMap(f, K, V) == DOMAIN f \subseteq K /\ f \in [DOMAIN f -> V]

Min2(a, b) == IF a <= b THEN a ELSE b
Max2(a, b) == IF a >= b THEN a ELSE b

-----------------------------------------------------------------------------
(* Types. *)

Status == {"Normal", "ViewChange", "RecoveringHead"}

\* A log entry: the identity, and whether the body is held or must be refetched.
LogEntry == [req : Requests, body : {"Present", "Repairing"}]

\* Why an append is in flight; "none" once its bookkeeping was discarded.
Pending == {"Ack", "AdoptVote", "AdoptAck", "RepairFill", "none"}

\* A WAL append in flight at the device, or deferred behind one to the same slot.
AppendWrite == [req : Requests, view : Nat, kind : Pending]

\* A WAL slot: the header's identity and view, whether the body reads back, and
\* whether the slot was truncated (absent to readers, maybe still on the medium).
WalSlot == [req : Requests, view : Nat, clean : BOOLEAN, dropped : BOOLEAN]

SbAction == {"SendDoViewChange", "StartViewAsPrimary", "AdoptedStartView", "none"}

\* The durable root: view, log view, commit frontier, identities of the committed band.
Root == [view : Nat, log_view : Nat, commit : Frontier, headers : MapsTo(Ops, Requests)]

\* A root write in the superblock's queue with the step that awaits its landing.
RootWrite == [root : Root, action : SbAction]

\* A DoViewChange as its collector keeps it.
Dvc == [log_view : Nat, op : Frontier, commit : Frontier, log : MapsTo(Ops, Requests)]

\* The canonical head a StartView or RecoveryResponse carries.
CanonicalHead == [op : Frontier, commit : Frontier, log : MapsTo(Ops, Requests)]

Inflight == [req : Requests \cup {NoIdentity}, oks : SUBSET Replicas]

Message ==
    [type : {"Prepare", "RepairBatch"}, from : Replicas, to : SUBSET Replicas, view : Nat,
     op : Ops, req : Requests, commit : Frontier]
    \cup [type : {"PrepareOk"}, from : Replicas, to : SUBSET Replicas, view : Nat, op : Ops,
          req : Requests \cup {NoIdentity}]
    \cup [type : {"Commit"}, from : Replicas, to : SUBSET Replicas, view : Nat, commit : Frontier]
    \cup [type : {"StartViewChange", "GetView"}, from : Replicas, to : SUBSET Replicas, view : Nat]
    \cup [type : {"DoViewChange"}, from : Replicas, to : SUBSET Replicas, view : Nat, dvc : Dvc]
    \cup [type : {"StartView"}, from : Replicas, to : SUBSET Replicas, view : Nat,
          head : CanonicalHead]
    \cup [type : {"RecoveryResponse"}, from : Replicas, to : SUBSET Replicas, view : Nat,
          nonce : Nat, head : CanonicalHead]
    \cup [type : {"Recovery"}, from : Replicas, to : SUBSET Replicas, nonce : Nat]
    \cup [type : {"RequestPrepare", "RequestPrepareRange"}, from : Replicas, to : SUBSET Replicas,
          op : Ops]
    \cup [type : {"Nack"}, from : Replicas, to : SUBSET Replicas, view : Nat, op : Ops]

IsReplica(s) ==
    /\ DOMAIN s = {"status", "view", "durable_view", "log_view", "op", "commit_min", "commit_max",
                   "log", "repair", "inflight", "clients", "replied", "nack_from", "svc_target",
                   "svc_from", "dvc_from", "catching_up", "catchup_windows", "pending_forfeit",
                   "nonce", "panicked", "root", "roots", "wal", "writing", "deferred",
                   "outgoing", "events"}
    /\ s.status \in Status
    /\ s.view \in Nat /\ s.durable_view \in Nat /\ s.log_view \in Nat /\ s.svc_target \in Nat
    /\ s.op \in Frontier /\ s.commit_min \in Frontier /\ s.commit_max \in Frontier
    /\ IsMap(s.log, Ops, LogEntry)
    /\ s.repair \subseteq Ops
    /\ IsMap(s.inflight, Ops, Inflight)
    /\ s.clients \subseteq Requests /\ s.replied \subseteq Requests
    /\ IsMap(s.nack_from, Ops, SUBSET Replicas)
    /\ s.svc_from \subseteq Replicas
    /\ IsMap(s.dvc_from, Replicas, Dvc)
    /\ s.catching_up \in BOOLEAN /\ s.pending_forfeit \in BOOLEAN /\ s.panicked \in BOOLEAN
    /\ s.catchup_windows \in Nat /\ s.nonce \in Nat
    /\ s.root \in Root /\ s.roots \in Seq(RootWrite)
    /\ IsMap(s.wal, Ops, WalSlot)
    /\ IsMap(s.writing, Ops, AppendWrite) /\ IsMap(s.deferred, Ops, AppendWrite)
    /\ s.outgoing \subseteq Message /\ s.events \subseteq Ops \X Requests

-----------------------------------------------------------------------------
(* Reading the state. *)

Held(s, op) == op \in DOMAIN s.log
Present(s, op) == Held(s, op) /\ s.log[op].body = "Present"
Repairing(s, op) == Held(s, op) /\ s.log[op].body = "Repairing"

\* Identities of a set of log entries, and the header-only carrier of the whole log.
Headers(s, K) == [op \in DOMAIN s.log \cap K |-> s.log[op].req]
log_entries(s) == Headers(s, Ops)

\* prepare_identity of a held entry, zero when there is none.
identity(s, op) == IF Held(s, op) THEN s.log[op].req ELSE NoIdentity

is_primary(s, r) == Primary(s.view) = r

appending(s) ==
    {op \in DOMAIN s.writing : s.writing[op].kind # "none"} \cup DOMAIN s.deferred

\* SlotStatus::Clean or Faulty: the slot holds a completed append, whatever its content.
op_durably_appended(s, op) == op \in DOMAIN s.wal /\ ~s.wal[op].dropped

\* The action that awaits the newest root write, if it was not abandoned.
pending_sb(s) == IF s.roots = <<>> THEN "none" ELSE s.roots[Len(s.roots)].action

effective_root(s) == IF s.roots = <<>> THEN s.root ELSE s.roots[Len(s.roots)].root

pending_durable_view(s) ==
    \/ pending_sb(s) # "none"
    \/ s.view > s.durable_view /\ ~s.catching_up

participates_as_primary(s, r) ==
    s.status = "Normal" /\ is_primary(s, r) /\ ~pending_durable_view(s)

-----------------------------------------------------------------------------
(* Messages.  A carrier of several entries is the set of its entries. *)

emit(s, ms) == [s EXCEPT !.outgoing = @ \cup ms]

\* Recipient::Backups
Others(r) == Replicas \ {r}

Prepare(s, r, to, op) ==
    [type |-> "Prepare", from |-> r, to |-> to, view |-> s.view, op |-> op,
     req |-> s.log[op].req, commit |-> s.commit_min]

PrepareOk(s, r, op) ==
    [type |-> "PrepareOk", from |-> r, to |-> {Primary(s.view)}, view |-> s.view, op |-> op,
     req |-> identity(s, op)]

Commit(s, r) ==
    [type |-> "Commit", from |-> r, to |-> Others(r), view |-> s.view, commit |-> s.commit_min]

StartViewChange(s, r) ==
    [type |-> "StartViewChange", from |-> r, to |-> Others(r), view |-> s.svc_target]

own_dvc(s) ==
    [log_view |-> s.log_view, op |-> s.op, commit |-> Min2(s.commit_max, s.op),
     log |-> log_entries(s)]

DoViewChange(s, r) ==
    [type |-> "DoViewChange", from |-> r, to |-> {Primary(s.view)}, view |-> s.view,
     dvc |-> own_dvc(s)]

\* StartView and RecoveryResponse carry the same canonical head.
canonical_head(s) == [op |-> s.op, commit |-> s.commit_max, log |-> log_entries(s)]

StartView(s, r, to) ==
    [type |-> "StartView", from |-> r, view |-> s.view, to |-> to, head |-> canonical_head(s)]

RecoveryResponse(s, r, m) ==
    [type |-> "RecoveryResponse", from |-> r, view |-> s.view, to |-> {m.from},
     nonce |-> m.nonce, head |-> canonical_head(s)]

GetView(s, r) ==
    [type |-> "GetView", from |-> r, to |-> {Primary(s.view)}, view |-> s.view]

Recovery(s, r) ==
    [type |-> "Recovery", from |-> r, to |-> Others(r), nonce |-> s.nonce]

RequestPrepare(r, op) ==
    [type |-> "RequestPrepare", from |-> r, to |-> Others(r), op |-> op]

RequestPrepareRange(r, op) ==
    [type |-> "RequestPrepareRange", from |-> r, to |-> Others(r), op |-> op]

RepairBatch(s, r, to, op) ==
    [type |-> "RepairBatch", from |-> r, view |-> s.view, to |-> {to}, op |-> op,
     req |-> s.log[op].req, commit |-> s.commit_min]

Nack(s, r, to, op) ==
    [type |-> "Nack", from |-> r, view |-> s.view, to |-> {to}, op |-> op]

\* The messages that speak for a view.
advertises_authoritative_view(m) ==
    m.type \in {"Prepare", "PrepareOk", "Commit", "DoViewChange", "StartView",
                "RecoveryResponse", "RepairBatch"}

-----------------------------------------------------------------------------
(* Storage: appends behind the slot fence, lazy truncation, root writes. *)

\* A write to a slot with a write in flight is deferred until that one completes.
submit_or_defer_append(s, reqs, view, kind) ==
    LET W(op) == [req |-> reqs[op], view |-> view, kind |-> kind]
        fenced == DOMAIN reqs \cap DOMAIN s.writing
        free == DOMAIN reqs \ fenced
    IN  [s EXCEPT
           !.writing = [op \in DOMAIN s.writing \cup free |->
                          IF op \in free THEN W(op) ELSE s.writing[op]],
           !.deferred = [op \in DOMAIN s.deferred \cup fenced |->
                          IF op \in fenced THEN W(op) ELSE s.deferred[op]]]

release_deferred_append(s, op) ==
    IF op \in DOMAIN s.deferred
    THEN [s EXCEPT !.writing = Put(s.writing, op, s.deferred[op]),
                   !.deferred = Without(s.deferred, {op})]
    ELSE s

\* Appends the held bodies among K to the WAL under the current view.
adopt_append(s, K, kind) ==
    submit_or_defer_append(s, Headers(s, {op \in K : Present(s, op)}), s.view, kind)

\* Drops every slot above the head; writes already at the device are not cancelled.
truncate(s, above) ==
    LET gone == {op \in DOMAIN s.wal : op > above}
    IN  [s EXCEPT !.wal =
           IF LazyTruncate
           THEN [op \in DOMAIN s.wal |->
                   [s.wal[op] EXCEPT !.dropped = @ \/ op \in gone]]
           ELSE Without(s.wal, gone)]

\* Stages the current view as a root.  A root already at the device still lands, but
\* nothing awaits it any more; a root still queued behind it is superseded.
submit_durable_view(s, action) ==
    LET root == [view |-> s.view, log_view |-> s.log_view, commit |-> s.commit_max,
                 headers |-> Headers(s, 1 .. Min2(s.commit_max, s.op))]
        write == [root |-> root, action |-> action]
    IN  [s EXCEPT !.roots =
           IF s.roots = <<>> THEN <<write>>
           ELSE <<[s.roots[1] EXCEPT !.action = "none"], write>>]

abandon_root(s) ==
    [s EXCEPT !.roots =
       IF s.roots = <<>> THEN <<>> ELSE <<[s.roots[1] EXCEPT !.action = "none"]>>]

-----------------------------------------------------------------------------
(* Repair and commit. *)

\* An assert! of the code: a failed one stops the process.
assert(s, holds) == IF holds THEN s ELSE [s EXCEPT !.panicked = TRUE]

\* Dropping op loses no committed op: it is tracked as a hole, or above commit_max.
committed_survives(s, op) == op \in s.repair \/ op > s.commit_max

\* Tracks held-but-bodyless ops as holes and solicits each of them.
request_repair(s, r, K) ==
    emit([s EXCEPT !.repair = @ \cup K],
         {RequestPrepare(r, op) : op \in K})

\* Tracks the run of bodyless ops that starts at the hole lo, up to the known-committed
\* part of the log, and solicits the run.  (The run holds no body, so the code's removal
\* of body-bearing entries from it removes nothing.)
request_repair_run(s, r, lo) ==
    LET run == {lo} \cup {hi \in lo .. Min2(s.commit_max, s.op) :
                            \A op \in (lo + 1) .. hi : ~Present(s, op)}
    IN  emit([s EXCEPT !.repair = @ \cup run],
             {RequestPrepareRange(r, op) : op \in run})

\* Applies the ops commit_min+1 .. upto to the state machine and the session table.
apply_upto(s, upto) ==
    LET ops == (s.commit_min + 1) .. upto
        reqs == {s.log[op].req : op \in ops}
    IN  [s EXCEPT !.commit_min = upto,
                  !.events = @ \cup {<<op, s.log[op].req>> : op \in ops},
                  !.clients = @ \cup reqs,
                  !.replied = @ \cup reqs,
                  !.inflight = Without(s.inflight, 1 .. upto)]

\* The last op such that every op from commit_min + 1 to it is among ready.
last_applicable(s, ready) ==
    Max({s.commit_min} \cup {op \in Ops : (s.commit_min + 1) .. op \subseteq ready})

\* Applies up to a commit frontier learnt from another replica; stops at the first hole.
advance_commit(s, r, target) ==
    LET limit == Min2(target, s.op)
        upto == last_applicable(s, {op \in 1 .. limit : Present(s, op)})
        done == apply_upto([s EXCEPT !.commit_max = Max2(@, target)], upto)
    IN  IF upto < limit THEN request_repair_run(done, r, upto + 1) ELSE done

\* A mutant of Acked: the primary's own vote is counted before its append is durable, too.
AckedCountingSelfTwice(s, op) ==
    op \in DOMAIN s.inflight /\ Cardinality(s.inflight[op].oks) + 1 >= quorum(N)

\* A replication quorum has acknowledged op.
Acked(s, op) == op \in DOMAIN s.inflight /\ Cardinality(s.inflight[op].oks) >= quorum(N)

\* The primary applies every acknowledged op in order, stops at one whose body is missing,
\* and announces the frontier.
commit_through(s, r, upto) ==
    LET done == [apply_upto(s, upto) EXCEPT !.commit_max = Max2(@, upto)]
        held == IF Acked(s, upto + 1) THEN request_repair_run(done, r, upto + 1) ELSE done
    IN  IF upto > s.commit_min /\ ~pending_durable_view(s)
        THEN emit(held, {Commit(done, r)})
        ELSE held

try_commit(s, r) ==
    IF is_primary(s, r)
    THEN commit_through(s, r, last_applicable(s, {op \in Ops : Acked(s, op) /\ Present(s, op)}))
    ELSE s

record_own_vote(s, r, op) ==
    IF op \in DOMAIN s.inflight
    THEN [s EXCEPT !.inflight[op].oks = @ \cup {r}]
    ELSE s

send_prepare_ok(s, r, op) == emit(s, {PrepareOk(s, r, op)})

\* The new head of the log: appended, held, acknowledged once durable.
append_prepare(s, op, req, view) ==
    [submit_or_defer_append(s, [o \in {op} |-> req], view, "Ack") EXCEPT
       !.op = Max2(@, op),
       !.log = Put(s.log, op, [req |-> req, body |-> "Present"])]

\* A mutant of request_tail_gap: off by one at the end of the gap.
request_tail_gap_one_more(s, r) ==
    emit(s, {RequestPrepare(r, op) : op \in (s.op + 1) .. (s.commit_max + 1)})

\* Peers are asked for the committed ops above the head.
request_tail_gap(s, r) ==
    emit(s, {RequestPrepare(r, op) : op \in (s.op + 1) .. s.commit_max})

-----------------------------------------------------------------------------
(* View change. *)

\* Drops the bookkeeping of the appends to K; writes at the device still land.
discard_pending(s, K) ==
    [s EXCEPT
       !.writing = [op \in DOMAIN s.writing |->
                      IF op \in K THEN [s.writing[op] EXCEPT !.kind = "none"]
                      ELSE s.writing[op]],
       !.deferred = Without(s.deferred, K)]

\* A mutant of reset_for_view_transition: the appends of the old view stay accounted for.
reset_keeping_pending(s) ==
    [s EXCEPT !.svc_from = {}, !.clients = s.clients \cap s.replied,
              !.pending_forfeit = FALSE, !.nack_from = EmptyMap]

\* clients: retains the sessions of applied requests only.
reset_for_view_transition(s) ==
    [discard_pending(s, Ops) EXCEPT
       !.svc_from = {},
       !.clients = s.clients \cap s.replied,
       !.pending_forfeit = FALSE,
       !.nack_from = EmptyMap]

\* The view-change collection: open (entering) in ViewChange status, None otherwise.
view_change(s, catching_up) ==
    [s EXCEPT !.dvc_from = EmptyMap, !.catching_up = catching_up, !.catchup_windows = 0]

enter_view_change(s, view_new) ==
    LET moved == [s EXCEPT !.view = view_new, !.status = "ViewChange", !.svc_target = view_new]
        reset == view_change(reset_for_view_transition(moved), FALSE)
    IN  submit_durable_view([reset EXCEPT !.inflight = EmptyMap], "SendDoViewChange")

maybe_start_view_change(s) ==
    IF Cardinality(s.svc_from) >= quorum_view_change(N)
    THEN enter_view_change(s, s.svc_target)
    ELSE s

\* Raises the proposed view to target, forgetting the votes for the previous one.
raise_svc_target(s, target) ==
    IF target > s.svc_target
    THEN [s EXCEPT !.svc_target = target, !.svc_from = {}]
    ELSE s

join_svc(s, r) ==
    emit([s EXCEPT !.svc_from = @ \cup {r}], {StartViewChange(s, r)})

propose_next_view(s, r) ==
    maybe_start_view_change(join_svc(raise_svc_target(s, s.view + 1), r))

send_do_view_change(s, r) == emit(s, {DoViewChange(s, r)})

send_get_view(s, r) == emit(s, {GetView(s, r)})

\* A message proves a newer view is in progress: stop, and ask its primary for it.
catch_up_to_view(s, r, view) ==
    LET moved == [s EXCEPT !.view = view, !.status = "ViewChange", !.svc_target = view]
        reset == view_change(reset_for_view_transition(moved), TRUE)
    IN  send_get_view(abandon_root([reset EXCEPT !.inflight = EmptyMap]), r)

\* A mutant of revert_catch_up_to_effective_view: it lands on the log's view.
revert_to_log_view(s, r, view) ==
    [view_change(s, FALSE) EXCEPT
       !.view = s.log_view, !.svc_target = s.log_view, !.svc_from = {}, !.status = "Normal",
       !.pending_forfeit = @ \/ Primary(s.log_view) = r]

\* Nobody validated the newer view: fall back to the newest view known to storage.
revert_catch_up_to_effective_view(s, r, view) ==
    [view_change(s, FALSE) EXCEPT
       !.view = view, !.svc_target = view, !.svc_from = {}, !.status = "Normal",
       !.pending_forfeit = @ \/ Primary(view) = r]

\* The canonical log of a quorum of DoViewChanges: entries, head, commit frontier.
select_canonical_log(dvcs) ==
    LET D == DOMAIN dvcs
        log_view_star == Max({dvcs[q].log_view : q \in D})
        canonical == {q \in D : dvcs[q].log_view = log_view_star}
        claimed == Max({dvcs[q].op : q \in canonical})
        max_present == Max({0} \cup UNION {DOMAIN dvcs[q].log : q \in canonical})
        commit_star == Max({dvcs[q].commit : q \in D})
        head == Min2(claimed, Max2(max_present, commit_star))
        \* The head an op must exceed for a nack quorum of donors to lack it.
        lacked == {op \in 0 .. MaxOp :
                     Cardinality({q \in D : dvcs[q].op <= op}) >= quorum_nack_prepare(N)}
        op_head == IF lacked = {} THEN head ELSE Min2(head, Max2(Min(lacked), commit_star))
        held(op) == {q \in canonical : op \in DOMAIN dvcs[q].log}
    IN  [op |-> op_head, commit |-> commit_star, sound |-> commit_star <= head,
         log |-> [op \in {o \in 1 .. op_head : held(o) # {}} |-> dvcs[Min(held(op))].log[op]]]

\* Lowers a session to what its cached reply or the log still backs.
reconcile_session_watermarks(s) ==
    [s EXCEPT !.clients = {c \in @ : c \in s.replied \/ c \in Range(log_entries(s))}]

\* Replaces the log by the canonical entries, keeping the bodies held under the same
\* identity, and the applied prefix that the canonical log does not carry.
adopt_log(s, entries) ==
    LET kept == {op \in DOMAIN s.log : op <= s.commit_min} \ DOMAIN entries
        has(op) == Present(s, op) /\ s.log[op].req = entries[op]
        adopted == [op \in kept \cup DOMAIN entries |->
                      IF op \in kept THEN s.log[op]
                      ELSE [req |-> entries[op], body |-> IF has(op) THEN "Present" ELSE "Repairing"]]
    IN  reconcile_session_watermarks([s EXCEPT !.log = adopted])

\* The canonical log replaces this replica's, and its committed part is applied.
adopt_star(s, r, star) ==
    advance_commit([adopt_log(assert(s, star.sound), star.log) EXCEPT
                      !.op = star.op, !.commit_max = star.commit,
                      !.repair = @ \ DOMAIN star.log],
                   r, star.commit)

\* An uncommitted op that no donor held ends the log just below it.
cut_at_gap(s) ==
    LET gaps == {op \in (s.commit_max + 1) .. s.op : ~Held(s, op)}
        op == Min(gaps) - 1
    IN  IF gaps = {} THEN s
        ELSE [s EXCEPT !.op = op, !.log = Without(s.log, (op + 1) .. MaxOp), !.repair = @ \cap 1 .. op]

\* A mutant of settle_log: the sessions of the adopted requests are not rebuilt.
settle_log_without_sessions(s) ==
    truncate(assert(s, committed_survives(s, s.op + 1)), s.op)

\* The WAL ends at the head, and the sessions cover every op of the log.
settle_log(s) ==
    reconcile_session_watermarks(
        [truncate(assert(s, committed_survives(s, s.op + 1)), s.op) EXCEPT
           !.clients = @ \cup Range(log_entries(s))])

\* Normal in the view: missing bodies are solicited, and the uncommitted tail is driven to
\* commit under fresh votes, this replica's own once its append is durable.
lead_view(s, r) ==
    LET open == (s.commit_max + 1) .. s.op
        driving == [view_change(s, FALSE) EXCEPT
                      !.log_view = s.view, !.status = "Normal", !.pending_forfeit = FALSE,
                      !.inflight = [op \in open |-> [req |-> identity(s, op), oks |-> {}]]]
    IN  adopt_append(request_repair(driving, r, {op \in (s.commit_min + 1) .. s.op : Repairing(s, op)}),
                     open, "AdoptVote")

\* A formed quorum makes this replica the primary; it participates once the root lands.
start_view_as_new_primary(s, r) ==
    submit_durable_view(
        lead_view(settle_log(cut_at_gap(adopt_star(s, r, select_canonical_log(s.dvc_from)))), r),
        "StartViewAsPrimary")

\* The new view is durable: announce it.
start_view_participate(s, r) ==
    IF is_primary(s, r) THEN try_commit(emit(s, {StartView(s, r, Others(r))}), r) ELSE s

\* A canonical head from the view's primary: adopt it, participate once the root lands.
adopt_head(s, view, head) ==
    [adopt_log(assert(s, head.commit <= head.op /\ head.op >= s.commit_min), head.log) EXCEPT
       !.view = view, !.op = head.op]

drop_held_from_repair(s) == [s EXCEPT !.repair = @ \ DOMAIN s.log]

follow_view(s) ==
    submit_durable_view(
        reset_for_view_transition(
            [view_change(s, FALSE) EXCEPT !.log_view = s.view, !.status = "Normal"]),
        "AdoptedStartView")

\* A mutant of truncate_wal_above_adopted_head: it truncates down to the known commit.
truncate_wal_above_commit(s) == truncate(s, s.commit_max)

truncate_wal_above_adopted_head(s) == truncate(assert(s, committed_survives(s, s.op + 1)), s.op)

adopt_canonical_head(s, r, view, head) ==
    truncate_wal_above_adopted_head(
        follow_view(advance_commit(drop_held_from_repair(adopt_head(s, view, head)), r, head.commit)))

\* The adopted view is durable: append the uncommitted tail and acknowledge it.
start_view_acks(s) ==
    adopt_append(s, (Max2(s.commit_min, s.commit_max) + 1) .. s.op, "AdoptAck")

\* Re-appends the part of the adopted tail that storage neither holds nor is writing.
retry_unappended_adopted_tail(s, r) ==
    LET tail == (Max2(s.commit_min, s.commit_max) + 1) .. s.op
        missing == {op \in tail : op \notin appending(s) /\ ~op_durably_appended(s, op)}
    IN  IF s.status # "Normal" \/ pending_durable_view(s) THEN s
        ELSE adopt_append(s, missing, IF is_primary(s, r) THEN "AdoptVote" ELSE "AdoptAck")

-----------------------------------------------------------------------------
(* The replica and its recovery. *)

\* A replica over the durable root and the WAL, with nothing volatile.
Booted(root, wal, op, log, nonce) ==
    [status |-> "Normal", view |-> root.view, durable_view |-> root.view,
     log_view |-> root.log_view, op |-> op, commit_min |-> 0, commit_max |-> root.commit,
     log |-> log, repair |-> {}, inflight |-> EmptyMap,
     clients |-> {}, replied |-> {}, nack_from |-> EmptyMap,
     svc_target |-> root.view, svc_from |-> {},
     dvc_from |-> EmptyMap, catching_up |-> FALSE, catchup_windows |-> 0,
     pending_forfeit |-> FALSE, nonce |-> nonce, panicked |-> FALSE,
     root |-> root, roots |-> <<>>,
     wal |-> wal, writing |-> EmptyMap, deferred |-> EmptyMap,
     outgoing |-> {}, events |-> {}]

\* A formatted store and the endpoint opened over it.
genesis ==
    Booted([view |-> 0, log_view |-> 0, commit |-> 0, headers |-> EmptyMap],
           EmptyMap, 0, EmptyMap, 0)

\* SlotVerdict::Verified: the slot's content may be the op's canonical content.
classify_committed_slot(root, slot, op) ==
    IF op \in DOMAIN root.headers
    THEN root.headers[op] = slot.req
    ELSE op > root.commit /\ slot.view >= root.log_view

complete_recovery(s, r) ==
    IF s.log_view < s.view THEN enter_view_change(s, s.view)
    ELSE IF Primary(s.view) = r /\ ~(s.view = 0 /\ s.op = 0 /\ s.commit_max = 0)
         THEN enter_view_change(s, s.view + 1)
         ELSE s

\* A mutant of recover: the uncommitted tail in the WAL is not read back.
recover_without_tail(root, wal, r, nonce) ==
    complete_recovery(
        Booted(root, wal, Max({0} \cup DOMAIN root.headers),
               [op \in DOMAIN root.headers |-> [req |-> root.headers[op], body |-> "Repairing"]],
               nonce),
        r)

\* Rebuilds the log from the WAL slots and the root's committed headers.  A head that
\* cannot be trusted is re-established by the cluster before the replica takes part.
recover(root, wal, r, nonce) ==
    LET op == Max({0} \cup DOMAIN wal \cup DOMAIN root.headers)
        verified == {o \in DOMAIN wal : classify_committed_slot(root, wal[o], o)}
        known == DOMAIN root.headers \ DOMAIN wal
        entry(o) == IF o \in known THEN [req |-> root.headers[o], body |-> "Repairing"]
                    ELSE [req |-> wal[o].req, body |-> IF wal[o].clean THEN "Present" ELSE "Repairing"]
        unsure == op > root.commit /\ op \in verified \cup known /\ entry(op).body = "Repairing"
        held == (verified \cup known) \ (IF unsure THEN {op} ELSE {})
        s == Booted(root, wal, op, [o \in held |-> entry(o)], nonce)
    IN  IF op = 0 \/ op \in held
        THEN complete_recovery(s, r)
        ELSE emit([s EXCEPT !.status = "RecoveringHead"], {Recovery(s, r)})

-----------------------------------------------------------------------------
(* The durable-view discipline of one replica, as an inductive invariant. *)

\* Why the appends at the device and behind the fence were made.
Kinds(s) ==
    {s.writing[op].kind : op \in DOMAIN s.writing}
    \cup {s.deferred[op].kind : op \in DOMAIN s.deferred}

\* The durable root, the root at the device and the queued one are in view order.
RootsOrdered(s) ==
    /\ s.durable_view = s.root.view /\ s.root.view <= s.view
    /\ Len(s.roots) <= 2
    /\ \A i \in DOMAIN s.roots :
          s.root.view <= s.roots[i].root.view /\ s.roots[i].root.view <= s.view
    /\ \A i, j \in DOMAIN s.roots : i <= j => s.roots[i].root.view <= s.roots[j].root.view

\* Only the newest root is awaited, and it holds the view the replica is in.
RootAwaited(s) ==
    \A i \in DOMAIN s.roots : s.roots[i].action # "none" =>
        /\ i = Len(s.roots) /\ s.roots[i].root.view = s.view
        /\ s.roots[i].action = "AdoptedStartView" => s.status = "Normal"

\* An acknowledgement is owed, and a request admitted, only in a durable view; a replica
\* changing views owes none and has no op under vote.
DurableView(s, r) ==
    /\ RootsOrdered(s) /\ RootAwaited(s)
    /\ s.catching_up => s.status = "ViewChange"
    /\ s.status = "ViewChange" => DOMAIN s.inflight = {} /\ Kinds(s) \subseteq {"RepairFill", "none"}
    /\ Kinds(s) \cap {"Ack", "AdoptAck"} # {} => s.view = s.durable_view
    /\ s.status = "Normal" /\ is_primary(s, r) /\ pending_sb(s) = "none" /\ ~s.pending_forfeit
         => s.view = s.durable_view

=============================================================================
