---------------------------- MODULE StateTransfer ----------------------------
(***************************************************************************)
(* Checkpoints, state transfer, the epoch swap and the restart of one      *)
(* backup replica over its storage session: checkpoint.rs, state_sync.rs,  *)
(* the checkpoint half of recovery/mod.rs, and what normal.rs,             *)
(* view_change.rs and endpoint/mod.rs do to the same state.                *)
(*                                                                         *)
(* n is the endpoint with its storage, n.d.  Operators named after methods *)
(* take n and return it after the call; one action stands for each message *)
(* handler, timer, storage completion and block completion.                *)
(*                                                                         *)
(* The rest of the cluster is the environment: it sends any message a      *)
(* correct cluster could, in any order, late or twice.  n.cluster is the   *)
(* highest op a delivered message has shown to be committed; no StartView  *)
(* truncates below it.                                                     *)
(*                                                                         *)
(* Abstractions: a WAL append is durable when the handler that submits it  *)
(* returns, and the tail read of a restart is complete when it starts      *)
(* (VsrReplica has both in steps).  An empty value is op, epoch or target  *)
(* 0.  At most one operation reconfigures; the successor is epoch 1, in    *)
(* which this replica is still a backup.                                   *)
(***************************************************************************)
EXTENDS StorageSession

CONSTANTS
    Budgets,        \* the bounds a behaviour may have: its operations (ops), views and restarts, the
                    \* checkpoints donors hold, the operation that reconfigures, the jobs that may fail, whether
                    \* a catch-up may go unanswered (reverts)
    CheckpointOps,  \* checkpoint_ops: applied operations between two checkpoints
    WalCapacity,    \* effective_wal_capacity: operations above the checkpoint the ring holds
    Retries         \* RECOVER_READ_RETRIES

VARIABLE n

stVars == <<n>>

ReconfigureOp == n.budget.reconfigure

NoSync == [target |-> 0, forced |-> FALSE, cross |-> FALSE]
NoIntent == -1
NoFetch == [dag |-> 0, seen |-> {}, walking |-> FALSE, crossing |-> FALSE]
NoCheckpoint == [step |-> "none", kind |-> "none", target |-> 0]
NoInstall == [op |-> 0, held_tail |-> FALSE, epoch |-> 0]
NoReconstruct == [op |-> 0, restore |-> FALSE]
NoRecover == [on |-> FALSE, want |-> FALSE, reads |-> 0, retries |-> 0, awaiting |-> FALSE,
              deferred |-> 0, reconstruct |-> "none"]
Recover == [NoRecover EXCEPT !.on = TRUE]

\* The op that installed the configuration of an epoch, which the code carries with it.
InstallOp(epoch) == IF epoch = 0 THEN 0 ELSE ReconfigureOp

\* The epoch a donor's checkpoint belongs to.
EpochOf(op) == IF op < ReconfigureOp THEN 0 ELSE 1

StStart(budget) ==
    [budget |-> budget, status |-> "Normal", view |-> 0, durable_view |-> 0, log_view |-> 0, catching_up |-> FALSE,
     op |-> 0, commit_min |-> 0, commit_max |-> 0, sm_at |-> 0, log |-> {}, wal |-> {}, repair |-> {},
     checkpoint_op |-> 0, checkpoint_root |-> 0, log_floor |-> 0,
     pending_sb |-> "none", pending_checkpoint |-> NoCheckpoint, pending_install |-> NoInstall,
     sm_reconstruct |-> NoReconstruct, sync |-> NoSync, block_fetch |-> NoFetch, deferred_pin |-> 0,
     inherited_frontier |-> 0, repersist_orphan |-> 0, recover |-> NoRecover,
     epoch |-> 0, config_install_op |-> 0, pending_swap |-> 0, intent |-> NoIntent, quarantined |-> FALSE,
     serving |-> FALSE, answers_sound |-> TRUE, stranded |-> FALSE,
     incarnation |-> 0, cluster |-> 0, d |-> EmptyStorage]

StInit == \E budget \in Budgets : n = StStart(budget)

Check(s, holds) == [s EXCEPT !.d = Asserting(@, holds)]
MaxOf(a, b) == IF a > b THEN a ELSE b

Recovering(s) == s.status = "Recovering"
Persisting(s) == s.pending_sb # "none" \/ s.pending_checkpoint # NoCheckpoint
sm_reconstruct_owed(s) == s.sm_reconstruct # NoReconstruct
awaiting_peer_checkpoint(s) == s.recover.awaiting

pending_durable_view(s) ==
    \/ s.pending_sb \in {"SendDoViewChange", "AdoptedStartView"}
    \/ s.view > s.durable_view /\ ~s.catching_up

sync_repersist_root_staged(s) ==
    s.pending_checkpoint.kind = "SyncRepersist" /\ s.pending_checkpoint.step = "AwaitRoot"

-----------------------------------------------------------------------------
(* Frontiers. *)

advance_checkpoint_op(s, to) ==
    LET owed(op) == IF op <= to THEN 0 ELSE op IN
    Check([s EXCEPT !.checkpoint_op = to, !.inherited_frontier = owed(@), !.repersist_orphan = owed(@),
                    !.log_floor = MaxOf(@, to)],
          to >= s.checkpoint_op)

set_commit_min(s, to) == Check([s EXCEPT !.commit_min = to], to >= s.commit_min)

note_sm_restored(s, at) == Check([s EXCEPT !.sm_at = at], at >= s.sm_at)

trim_log_to_checkpoint(s, floor) ==
    Check([s EXCEPT !.log = {op \in @ : op > floor}],
          floor <= s.checkpoint_op \/ floor \in s.repair \/ floor > s.commit_max)

-----------------------------------------------------------------------------
(* Durable roots. *)

durable_root(s, effective, commit, checkpoint_op) ==
    LET ahead == effective.epoch > s.epoch IN
    [view |-> s.view, log_view |-> s.log_view, commit |-> commit, checkpoint_op |-> checkpoint_op,
     log_floor |-> MaxOf(s.log_floor, checkpoint_op),
     epoch |-> IF ahead THEN effective.epoch ELSE s.epoch,
     config_install_op |-> IF ahead THEN effective.config_install_op ELSE s.config_install_op]

durable_root_with_successor(s, commit, checkpoint_op, epoch) ==
    [durable_root(s, GenesisRoot, commit, checkpoint_op)
        EXCEPT !.epoch = epoch, !.config_install_op = InstallOp(epoch)]

submit_durable_view(s, action) ==
    LET effective == effective_root(s.d)
        root == durable_root(s, effective, MaxOf(s.commit_max, effective.checkpoint_op), effective.checkpoint_op)
    IN  [s EXCEPT !.d = submit_root(@, "DurableView", s.incarnation, root), !.pending_sb = action]

abandon_pending_sb(s) ==
    IF s.pending_sb = "none" THEN s
    ELSE [s EXCEPT !.d = abandon_root(@, "DurableView"), !.pending_sb = "none"]

-----------------------------------------------------------------------------
(* The epoch swap. *)

submit_swap_epoch(s) ==
    LET cp == effective_root(s.d).checkpoint_op
        root == [durable_root_with_successor(s, MaxOf(s.commit_max, cp), cp, 1) EXCEPT !.log_floor = s.log_floor]
    IN  [s EXCEPT !.d = submit_root(@, "DurableView", s.incarnation, root), !.pending_sb = "SwapEpoch"]

\* A staged successor no longer chained from the live configuration is dropped; otherwise its root is
\* submitted once the view is settled and no superblock write is pending.
maybe_swap_epoch(s) ==
    CASE s.pending_swap = 0 -> s
      [] s.pending_swap # 0 /\ s.epoch # 0 -> [s EXCEPT !.pending_swap = 0]
      [] OTHER -> IF s.status = "Normal" /\ s.log_view = s.view /\ ~Persisting(s) THEN submit_swap_epoch(s)
                  ELSE s

stage_epoch_swap(s) ==
    maybe_swap_epoch(Check([s EXCEPT !.pending_swap = ReconfigureOp], s.pending_swap = 0))

install_membership(s, epoch) ==
    IF epoch <= s.epoch THEN s ELSE [s EXCEPT !.epoch = epoch, !.config_install_op = InstallOp(epoch)]

adopt_landed_configuration(s, root) ==
    IF root.epoch <= s.epoch THEN s
    ELSE [s EXCEPT !.epoch = root.epoch, !.config_install_op = root.config_install_op, !.pending_swap = 0,
                   !.intent = NoIntent]

-----------------------------------------------------------------------------
(* Checkpoints. *)

issue_block_job(s, job) == [s EXCEPT !.d = enqueue(@, job)]

gc_blocks(s) ==
    LET roots == {s.checkpoint_root, s.block_fetch.dag, s.pending_install.op} \ {0} IN
    IF roots = {} THEN s ELSE issue_block_job(s, [Job("Gc", s.incarnation, 0) EXCEPT !.roots = roots])

\* A mutant: an image is captured although the capture of an abandoned checkpoint is still under way.
force_checkpoint_again(s) ==
    IF s.d.envelope # NoEnvelope \/ effective_root(s.d).checkpoint_op > s.commit_min THEN s
    ELSE [issue_block_job(Check(s, s.sm_at = s.commit_min), Job("Materialize", s.incarnation, s.commit_min))
            EXCEPT !.pending_checkpoint = [step |-> "FlushingBlocks", kind |-> "Ordinary", target |-> s.commit_min]]

force_checkpoint(s) ==
    IF \/ Owed(s.d, "Materialize")
       \/ s.d.envelope # NoEnvelope
       \/ effective_root(s.d).checkpoint_op > s.commit_min
    THEN s
    ELSE [issue_block_job(Check(s, s.sm_at = s.commit_min), Job("Materialize", s.incarnation, s.commit_min))
            EXCEPT !.pending_checkpoint = [step |-> "FlushingBlocks", kind |-> "Ordinary", target |-> s.commit_min]]

Installing(s) == sm_reconstruct_owed(s) \/ s.pending_install # NoInstall

Settled(s) == s.status = "Normal" /\ s.log_view = s.view

maybe_checkpoint(s) ==
    IF Settled(s) /\ ~Persisting(s) /\ ~Installing(s) /\ s.commit_min >= s.checkpoint_op + CheckpointOps
    THEN force_checkpoint(s) ELSE s

\* A staged swap in a settled view with no superblock write pending: nothing under way will submit it.
SwapIdle(s) == s.pending_swap # 0 /\ Settled(s) /\ ~Persisting(s)

\* n.stranded remembers that a handler has returned in such a state.
Stranding(s) == [s EXCEPT !.stranded = @ \/ SwapIdle(s)]

run_gc(s) ==
    IF s.checkpoint_op = 0 THEN s
    ELSE trim_log_to_checkpoint([s EXCEPT !.wal = {op \in @ : op > s.checkpoint_op}], s.checkpoint_op)

-----------------------------------------------------------------------------
(* View transitions. *)

\* A mutant: the staged epoch swap is torn down with the rest.
reset_for_view_transition_dropping_swap(s) ==
    LET pc == s.pending_checkpoint
        drop == pc.kind = "SyncRepersist" \/ pc.step = "FlushingBlocks"
        t == [s EXCEPT !.pending_install = NoInstall, !.pending_swap = 0,
                       !.d = IF drop /\ pc.step = "AwaitRoot" THEN abandon_root(@, "Checkpoint") ELSE @,
                       !.pending_checkpoint = IF drop THEN NoCheckpoint ELSE @]
    IN  IF sm_reconstruct_owed(s) THEN t ELSE [t EXCEPT !.sync = NoSync, !.block_fetch = NoFetch]

reset_for_view_transition(s) ==
    LET pc == s.pending_checkpoint
        drop == pc.kind = "SyncRepersist" \/ pc.step = "FlushingBlocks"
        t == [s EXCEPT !.pending_install = NoInstall,
                       !.d = IF drop /\ pc.step = "AwaitRoot" THEN abandon_root(@, "Checkpoint") ELSE @,
                       !.pending_checkpoint = IF drop THEN NoCheckpoint ELSE @]
    IN  IF sm_reconstruct_owed(s) THEN t ELSE [t EXCEPT !.sync = NoSync, !.block_fetch = NoFetch]

enter_view_change(s, view) ==
    submit_durable_view(
        reset_for_view_transition([s EXCEPT !.view = view, !.status = "ViewChange", !.catching_up = FALSE]),
        "SendDoViewChange")

enter_catch_up_posture(s, view) ==
    abandon_pending_sb(
        reset_for_view_transition([s EXCEPT !.view = view, !.status = "ViewChange", !.catching_up = TRUE]))

-----------------------------------------------------------------------------
(* A root this process does not own has landed: its checkpoint is adopted when the replica has applied *)
(* that far, and otherwise fetched again. *)

maybe_adopt_inherited_frontier(s) ==
    IF \/ s.inherited_frontier = 0 \/ Recovering(s)
       \/ s.pending_checkpoint # NoCheckpoint \/ Installing(s)
       \/ s.commit_min < s.inherited_frontier
    THEN s
    ELSE [advance_checkpoint_op(s, s.inherited_frontier) EXCEPT !.checkpoint_root = 0]

repersist_orphan_owed(s) ==
    IF s.checkpoint_op >= s.repersist_orphan \/ s.commit_min >= s.repersist_orphan THEN 0 ELSE s.repersist_orphan

submit_tracked_checkpoint_read(s) == [s EXCEPT !.recover.want = TRUE, !.recover.reads = @ + 1]

submit_recover_checkpoint_read(s) == [submit_tracked_checkpoint_read(s) EXCEPT !.recover.retries = Retries]

enter_orphan_repersist_recovery(s) ==
    LET t == abandon_pending_sb(reset_for_view_transition(s)) IN
    submit_recover_checkpoint_read(
        [t EXCEPT !.pending_install = NoInstall, !.block_fetch = NoFetch, !.catching_up = FALSE,
                  !.serving = FALSE, !.status = "Recovering", !.recover = Recover])

drop_transfer_below_forced_target(s) ==
    IF s.sync.forced /\ ~s.sync.cross /\ s.block_fetch.dag < s.sync.target
    THEN [s EXCEPT !.block_fetch = NoFetch] ELSE s

\* A recovery that is fetching from a peer raises what it asks for; a crossing it no longer needs becomes
\* a fetch of any checkpoint that reaches the target.
retarget_recovery_fetch(s, target) ==
    LET satisfied_crossing == s.sync.cross /\ s.intent = NoIntent IN
    IF \/ ~awaiting_peer_checkpoint(s) \/ s.sync = NoSync
       \/ ~satisfied_crossing /\ s.sync.target >= target
    THEN s
    ELSE drop_transfer_below_forced_target(
            [s EXCEPT !.sync.target = target, !.sync.cross = @ /\ ~satisfied_crossing,
                      !.quarantined = @ /\ ~satisfied_crossing])

maybe_enter_orphan_repersist_recovery(s) ==
    LET owed == repersist_orphan_owed(s)
        t == [s EXCEPT !.repersist_orphan = owed]
    IN  CASE owed = 0 -> t
          [] owed # 0 /\ Recovering(s) -> retarget_recovery_fetch(t, owed)
          [] OTHER -> IF pending_durable_view(s) \/ s.pending_checkpoint # NoCheckpoint \/ Installing(s) THEN t
                      ELSE enter_orphan_repersist_recovery(t)

-----------------------------------------------------------------------------
(* Applying committed operations. *)

cancel_forced_sync_if_satisfied(s) ==
    IF ~Installing(s) /\ s.sync.forced /\ ~s.sync.cross /\ s.sync.target <= s.commit_min
    THEN [s EXCEPT !.sync = NoSync, !.block_fetch = NoFetch] ELSE s

request_repair_run(s, lo) ==
    [s EXCEPT !.repair = @ \cup {op \in lo..s.commit_max : op <= s.op /\ lo..op \cap s.log = {}}]

\* The loop of advance_commit, over the operations the log holds; the reconfiguration is staged on its way.
ApplyTo(s, target) ==
    LET limit == IF target < s.op THEN target ELSE s.op
        upto == Max({s.commit_min} \cup {k \in s.commit_min..limit : (s.commit_min + 1)..k \subseteq s.log})
        t == [set_commit_min(s, upto) EXCEPT !.sm_at = upto]
        u == IF ReconfigureOp \in (s.commit_min + 1)..upto /\ s.epoch = 0 THEN stage_epoch_swap(t) ELSE t
    IN  Check(IF upto < limit THEN request_repair_run(u, upto + 1) ELSE u,
              upto = s.commit_min \/ s.sm_at = s.commit_min)

\* An install that is staged owns the frontier, and a state machine that is owed a rebuild applies nothing.
Applying(s) == s.pending_install = NoInstall /\ ~sm_reconstruct_owed(s)

AppliedTo(s, target) ==
    LET t == [s EXCEPT !.commit_max = MaxOf(@, target)]
    IN  CASE s.pending_install # NoInstall -> s
          [] s.pending_install = NoInstall /\ sm_reconstruct_owed(s) -> t
          [] OTHER -> maybe_enter_orphan_repersist_recovery(
                        maybe_adopt_inherited_frontier(cancel_forced_sync_if_satisfied(ApplyTo(t, target))))

\* The configuration was installed by an operation above the checkpoint: a checkpoint that covers it is owed.
OwesCheckpoint(s) ==
    /\ s.config_install_op > s.checkpoint_op
    /\ ~Installing(s) /\ Settled(s) /\ ~Persisting(s)

PayNow(s) ==
    IF OwesCheckpoint(s) /\ s.commit_min >= s.config_install_op THEN force_checkpoint(s) ELSE s

\* The advance that a payment makes first cannot itself advance again: paying_checkpoint_debt.
AdvancePaying(s) ==
    LET t == AppliedTo(s, s.commit_max)
    IN  IF Applying(s) /\ ~Recovering(t) THEN maybe_swap_epoch(PayNow(maybe_checkpoint(t))) ELSE t

maybe_pay_checkpoint_debt(s) ==
    LET Forced(t) == IF \/ Recovering(t) \/ t.commit_min < t.config_install_op
                        \/ t.pending_checkpoint # NoCheckpoint THEN t
                     ELSE force_checkpoint(t)
    IN  IF OwesCheckpoint(s) THEN Forced(AdvancePaying(s)) ELSE s

advance_commit(s, target) ==
    LET t == AppliedTo(s, target)
    IN  IF Applying(s) /\ ~Recovering(t) THEN maybe_swap_epoch(maybe_pay_checkpoint_debt(maybe_checkpoint(t)))
        ELSE t

-----------------------------------------------------------------------------
(* Soliciting a checkpoint. *)

arm_sync(s, target, forced, cross) ==
    Check([s EXCEPT !.sync = [target |-> target, forced |-> forced, cross |-> cross]], s.sync = NoSync)

\* A crossing was announced but nothing of it has arrived: a message of the own epoch shows it is not needed.
stale_crossing_intent_clearable(s) ==
    /\ s.status = "Normal" /\ s.pending_install.epoch = 0
    /\ ~awaiting_peer_checkpoint(s) /\ ~s.block_fetch.crossing /\ ~sm_reconstruct_owed(s)

crossing_is_pre_answer_speculative(s) == stale_crossing_intent_clearable(s) /\ s.pending_install = NoInstall

CrossingForgotten(s) == [s EXCEPT !.intent = NoIntent, !.quarantined = FALSE]

downgrade_stale_cross_epoch_sync(s, target) ==
    CrossingForgotten(drop_transfer_below_forced_target([s EXCEPT !.sync.target = target, !.sync.cross = FALSE]))

RaiseSync(s, target, forced) ==
    CASE s.sync = NoSync -> arm_sync(s, target, forced, FALSE)
      [] s.sync.cross /\ crossing_is_pre_answer_speculative(s) -> downgrade_stale_cross_epoch_sync(s, target)
      [] OTHER ->
           IF target <= s.sync.target THEN s
           ELSE drop_transfer_below_forced_target(
                    [s EXCEPT !.sync = [target |-> target, forced |-> forced \/ @.forced, cross |-> FALSE]])

cancel_stale_cross_epoch_sync(s) ==
    CASE \/ s.intent = NoIntent /\ ~s.sync.cross
         \/ ~stale_crossing_intent_clearable(s) -> s
      [] OTHER ->
           IF s.sync.cross /\ crossing_is_pre_answer_speculative(s)
           THEN CrossingForgotten([s EXCEPT !.sync = NoSync, !.block_fetch = NoFetch])
           ELSE CrossingForgotten(s)

maybe_request_sync(s, checkpoint_op) ==
    IF s.status # "Normal" \/ checkpoint_op <= s.op THEN s ELSE RaiseSync(s, checkpoint_op, FALSE)

below_ring_window(s, pop) == pop - s.checkpoint_op > WalCapacity

maybe_sync_below_ring_window(s, target) ==
    IF target > s.checkpoint_op /\ target > s.commit_min THEN RaiseSync(s, target, TRUE) ELSE s

maybe_force_sync(s, floor) ==
    IF s.status # "Normal" \/ ~\E op \in s.repair : op <= floor THEN s
    ELSE RaiseSync([s EXCEPT !.repair = {op \in @ : op > floor}], floor, TRUE)

issue_walk(s, purpose, fetched) ==
    IF s.block_fetch = NoFetch \/ s.block_fetch.walking \/ Owed(s.d, "Walk") THEN s
    ELSE [issue_block_job(s, [Job("Walk", s.incarnation, s.block_fetch.dag)
                                EXCEPT !.purpose = purpose, !.seen = s.block_fetch.seen, !.fetched = fetched])
            EXCEPT !.block_fetch.walking = TRUE]

\* A donor attaches its configuration when its checkpoint covers the install of it.
checkpoint_presents_crossing(s, op) == EpochOf(op) # 0 /\ EpochOf(op) # s.epoch

PinTransfer(s, op, purpose) ==
    issue_walk([s EXCEPT !.block_fetch = [dag |-> op, seen |-> {}, walking |-> FALSE,
                                          crossing |-> checkpoint_presents_crossing(s, op)]],
               purpose, NoBlock)

begin_block_sync(s, op) ==
    CASE s.block_fetch.walking -> [s EXCEPT !.deferred_pin = op]
      [] ~s.block_fetch.walking /\ s.block_fetch.crossing /\ ~checkpoint_presents_crossing(s, op) -> s
      [] OTHER -> PinTransfer(s, op, "Arm")

-----------------------------------------------------------------------------
(* Rebuilding the state machine from the installed checkpoint. *)

issue_sm_restore(s) ==
    IF ~sm_reconstruct_owed(s) \/ s.sm_reconstruct.restore \/ Owed(s.d, "Restore") THEN s
    ELSE [issue_block_job(s, [Job("Restore", s.incarnation, s.sm_reconstruct.op)
                                EXCEPT !.purpose = "SyncedCheckpoint"])
            EXCEPT !.sm_reconstruct.restore = TRUE]

rearm_sm_reconstruct_retry(s, purpose) ==
    IF ~sm_reconstruct_owed(s) \/ s.block_fetch.walking THEN s
    ELSE LET t == PinTransfer(s, s.sm_reconstruct.op, purpose) IN
         IF Recovering(s) THEN [t EXCEPT !.recover.on = TRUE, !.recover.awaiting = TRUE] ELSE t

refetch_sm_reconstruct(s, op) ==
    IF s.block_fetch.walking THEN [s EXCEPT !.deferred_pin = op] ELSE rearm_sm_reconstruct_retry(s, "RearmRetry")

-----------------------------------------------------------------------------
(* Recovery: the own checkpoint is read, probed and restored; a peer's takes its place when that fails. *)

escalate_checkpoint_to_peer_fetch(s, target, cross) ==
    LET t == Check([s EXCEPT !.recover.want = FALSE, !.recover.awaiting = s.recover.on], s.recover.reads = 0) IN
    IF t.sync = NoSync THEN arm_sync(t, target, TRUE, cross) ELSE t

complete_recovery(s) ==
    LET owed == repersist_orphan_owed(s)
        t == [s EXCEPT !.repersist_orphan = owed, !.recover.on = TRUE]
        r == s.recover
        u == Check([s EXCEPT !.repersist_orphan = owed, !.recover = NoRecover], r.reads = 0)
    IN  CASE owed # 0 /\ r.awaiting -> escalate_checkpoint_to_peer_fetch(t, MaxOf(owed, s.checkpoint_op), FALSE)
          [] owed # 0 /\ ~r.awaiting /\ (r.want \/ r.reconstruct # "none" \/ r.deferred # 0) -> t
          [] owed # 0 /\ ~r.awaiting /\ ~r.want /\ r.reconstruct = "none" /\ r.deferred = 0 ->
                submit_recover_checkpoint_read(t)
          [] owed = 0 /\ s.log_view < s.view -> enter_view_change(u, s.view)
          [] OTHER -> maybe_pay_checkpoint_debt([u EXCEPT !.status = "Normal"])

\* The tail of the log has been read: recovery completes when no checkpoint is being read or awaited.
recover_progress(s) ==
    IF ~s.recover.on \/ s.recover.want \/ s.recover.awaiting THEN s ELSE complete_recovery(s)

retire_recover_for_staged_sync(s) == Check([s EXCEPT !.recover = NoRecover], s.recover.reads = 0)

\* on_recover_sb_done for a checkpoint read: the superblock returns the envelope of its root.
on_recover_checkpoint_read(s) ==
    LET t == [s EXCEPT !.recover.reads = @ - 1]
        op == s.d.root.checkpoint_op
    IN  CASE s.recover.reconstruct # "none" \/ op \notin s.d.envelopes -> t
          [] s.recover.reconstruct = "none" /\ op \in s.d.envelopes /\ Owed(s.d, "Walk") ->
                [t EXCEPT !.recover.deferred = op]
          [] OTHER -> [issue_block_job(t, [Job("Walk", s.incarnation, op) EXCEPT !.purpose = "RecoverProbe"])
                        EXCEPT !.recover.reconstruct = "walk", !.recover.deferred = 0]

redrive_deferred_recover_probe(s) ==
    LET op == s.recover.deferred
        t == [s EXCEPT !.recover.deferred = 0]
    IN  CASE Owed(s.d, "Walk") \/ s.recover.reconstruct # "none" \/ op = 0 -> s
          [] OTHER ->
               IF s.d.root.checkpoint_op # op THEN t
               ELSE [issue_block_job(t, [Job("Walk", s.incarnation, op) EXCEPT !.purpose = "RecoverProbe"])
                       EXCEPT !.recover.reconstruct = "walk"]

on_recover_probe_walked(s, done) ==
    LET t == [s EXCEPT !.recover.reconstruct = "none"] IN
    CASE s.recover.reconstruct # "walk" -> s
      [] s.recover.reconstruct = "walk" /\ (done.next # NoBlock \/ Owed(s.d, "Restore")) -> t
      [] OTHER -> [issue_block_job(t, [Job("Restore", s.incarnation, done.job.dag)
                                         EXCEPT !.purpose = "RecoveredCheckpoint"])
                     EXCEPT !.recover.reconstruct = "restore"]

on_recovered_checkpoint_restored(s, op, ok) ==
    LET t == [note_sm_restored(s, op) EXCEPT !.recover.reconstruct = "none", !.checkpoint_root = op]
        u == trim_log_to_checkpoint(
                 [set_commit_min(advance_checkpoint_op(t, op), op)
                    EXCEPT !.commit_max = MaxOf(@, op), !.op = MaxOf(@, op), !.repair = {k \in @ : k > op}], op)
        v == IF op > s.checkpoint_op THEN u ELSE t
        superseded == s.recover.awaiting /\ (s.sync # NoSync => ~s.sync.cross /\ v.checkpoint_op >= s.sync.target)
        w == [v EXCEPT !.recover.want = FALSE, !.recover.awaiting = @ /\ ~superseded]
    IN  CASE s.recover.reconstruct # "restore" -> s
          [] s.recover.reconstruct = "restore" /\ ~ok -> [s EXCEPT !.recover.reconstruct = "none"]
          [] OTHER -> recover_progress(IF superseded THEN [w EXCEPT !.sync = NoSync, !.block_fetch = NoFetch] ELSE w)

-----------------------------------------------------------------------------
(* Installing a transferred checkpoint: flush its blocks, write its envelope and its root, and only then *)
(* move the replica onto it. *)

flush_and_stage_install(s) ==
    IF \/ s.pending_install = NoInstall \/ Persisting(s)
       \/ s.d.envelope # NoEnvelope \/ Owed(s.d, "Flush")
    THEN s
    ELSE [issue_block_job(s, Job("Flush", s.incarnation, s.pending_install.op))
            EXCEPT !.pending_checkpoint =
                       [step |-> "FlushingBlocks", kind |-> "SyncRepersist", target |-> s.pending_install.op],
                   !.block_fetch = NoFetch]

apply_sync(s, op) ==
    LET effective == effective_root(s.d)
        successor == IF checkpoint_presents_crossing(s, op) THEN EpochOf(op) ELSE 0
        refused == \/ op < effective.checkpoint_op
                   \/ checkpoint_presents_crossing(s, op) /\ EpochOf(op) <= s.epoch
        t == Check(s, s.sync.forced \/ op > s.op)
        behind == s.sync.forced /\ op < s.commit_min
    IN  CASE behind /\ s.sync.cross -> s
          [] behind /\ ~s.sync.cross ->
                [s EXCEPT !.sync = NoSync, !.block_fetch = NoFetch, !.pending_install = NoInstall]
          [] ~behind /\ (refused \/ (s.sync.cross /\ successor = 0)) -> t
          [] OTHER -> flush_and_stage_install(
                        [t EXCEPT !.pending_install =
                            [op |-> op, held_tail |-> op < s.op /\ successor = 0, epoch |-> successor]])

install_sync(s) ==
    LET inst == s.pending_install
        t == set_commit_min([s EXCEPT !.pending_install = NoInstall], inst.op)
        u == IF inst.held_tail THEN [t EXCEPT !.commit_max = MaxOf(@, inst.op)]
             ELSE [t EXCEPT !.op = inst.op, !.commit_max = inst.op]
        v == IF inst.epoch = 0 THEN u
             ELSE LET w == CrossingForgotten([install_membership(u, inst.epoch) EXCEPT !.pending_swap = 0]) IN
                  IF w.pending_sb = "SwapEpoch" THEN abandon_pending_sb(w) ELSE w
    IN  issue_sm_restore(
            [trim_log_to_checkpoint(advance_checkpoint_op(v, inst.op), inst.op)
                EXCEPT !.repair = {op \in @ : op > inst.op},
                       !.sm_reconstruct = [op |-> inst.op, restore |-> FALSE]])

complete_state_sync(s) ==
    LET Completed(t) == IF Recovering(s) THEN complete_recovery(t) ELSE t
        Rearmed(u) == IF u.status = "Normal" /\ u.intent # NoIntent THEN arm_sync(u, u.intent, TRUE, TRUE) ELSE u
    IN  Rearmed(Completed([gc_blocks(s) EXCEPT !.sync = NoSync, !.block_fetch = NoFetch]))

on_sm_restored(s, ok) ==
    LET t == [s EXCEPT !.sm_reconstruct.restore = FALSE]
        u == [note_sm_restored(s, s.sm_reconstruct.op)
                EXCEPT !.sm_reconstruct = NoReconstruct,
                       !.wal = {op \in @ : op <= s.op /\ op >= s.checkpoint_op}]
    IN  CASE ~s.sm_reconstruct.restore -> s
          [] s.sm_reconstruct.restore /\ ~ok -> rearm_sm_reconstruct_retry(t, "Rearm")
          [] OTHER -> maybe_swap_epoch(complete_state_sync(u))

on_fetch_drained(s) ==
    LET t == [s EXCEPT !.block_fetch = NoFetch] IN
    CASE Persisting(s) -> s
      [] ~Persisting(s) /\ sm_reconstruct_owed(s) /\ s.block_fetch.dag = s.checkpoint_op -> issue_sm_restore(t)
      [] OTHER -> apply_sync(Check(t, Recovering(s) /\ s.recover.awaiting => s.recover.reads = 0),
                             s.block_fetch.dag)

retire_recover_and_escalate(s) ==
    enter_view_change(Check([s EXCEPT !.recover = NoRecover], s.recover.reads = 0), s.view + 1)

-----------------------------------------------------------------------------
(* Messages. *)

Hear(s, op) == [s EXCEPT !.cluster = MaxOf(@, op)]

\* A Prepare of the next operation, with the primary's commit and checkpoint numbers.
OnPrepare(commit, checkpoint_op) ==
    LET Appended(t) == [t EXCEPT !.op = @ + 1, !.log = @ \cup {t.op + 1}, !.wal = @ \cup {t.op + 1}]
        Prepared(t) == IF Recovering(t) THEN t
                       ELSE IF below_ring_window(t, t.op + 1) THEN maybe_sync_below_ring_window(t, checkpoint_op)
                       ELSE advance_commit(Appended(t), t.commit_max)
        Heard(s) == IF (s.sync # NoSync /\ ~s.sync.cross) \/ pending_durable_view(s) THEN s
                    ELSE Prepared(advance_commit(s, commit))
    IN  /\ n.status = "Normal" /\ n.op < n.budget.ops
        /\ n' = Heard(maybe_request_sync(cancel_stale_cross_epoch_sync(Hear(n, commit)), checkpoint_op))

OnCommit(commit, checkpoint_op) ==
    /\ n.status = "Normal"
    /\ n' = LET s == maybe_request_sync(cancel_stale_cross_epoch_sync(Hear(n, commit)), checkpoint_op) IN
            advance_commit(maybe_force_sync(s, checkpoint_op), commit)

\* A repair carrier for a hole: appended, and applied when the append is durable.
FillRepair(op) ==
    /\ n.status = "Normal" /\ op \in n.repair
    /\ n' = advance_commit([n EXCEPT !.repair = @ \ {op}, !.log = @ \cup {op}, !.wal = @ \cup {op}], n.commit_max)

\* handle_sync_checkpoint, and on_recover_sync_checkpoint while recovering: a donor's answer to the
\* outstanding solicitation.
SyncCheckpointArrives(s, op) ==
    LET again == sm_reconstruct_owed(s) /\ s.pending_install = NoInstall /\ op = s.checkpoint_op
        recovering == Recovering(s) /\ awaiting_peer_checkpoint(s)
        reaches == op >= s.sync.target \/ s.sync.cross
    IN  CASE s.sync = NoSync \/ Persisting(s) -> s
          [] s.status # "Normal" /\ ~recovering -> s
          [] OTHER ->
               CASE again /\ (recovering => reaches) -> refetch_sm_reconstruct(s, op)
                 [] ~again /\ ~recovering /\ (~reaches \/ op <= s.checkpoint_op) -> s
                 [] ~again /\ ~recovering /\ ~s.sync.forced /\ op <= s.op -> s
                 [] recovering /\ (~reaches \/ op < s.checkpoint_op) -> s
                 [] OTHER -> begin_block_sync(s, op)

OnSyncCheckpoint(op) ==
    /\ n.sync # NoSync
    /\ n' = SyncCheckpointArrives(Hear(n, op), op)

OnBlockResponse(block) ==
    /\ n.status = "Normal" \/ (Recovering(n) /\ awaiting_peer_checkpoint(n))
    /\ n.sync # NoSync /\ ~Persisting(n)
    /\ n' = issue_walk(n, IF block = NoBlock THEN "Absent" ELSE "Response", block)

\* A quorum of StartViewChange messages for the next view.
TransitionToViewChange ==
    /\ n.status \in {"Normal", "ViewChange"} /\ n.view < n.budget.views /\ ~sync_repersist_root_staged(n)
    /\ n' = enter_view_change(n, n.view + 1)

\* catch_up_to_view: a Prepare or a Commit of a later view.
CatchUpToView ==
    /\ n.status \in {"Normal", "ViewChange"} /\ n.view < n.budget.views /\ ~sync_repersist_root_staged(n)
    /\ n' = enter_catch_up_posture(cancel_stale_cross_epoch_sync(n), n.view + 1)

\* revert_catch_up_to_effective_view, of the view change timer: no one has confirmed the view this replica catches
\* up to, and it is again a backup of the view a crash would recover.  No root is written.
RevertCatchUp ==
    LET revert_to == MaxOf(n.durable_view, effective_root(n.d).view) IN
    /\ n.budget.reverts /\ n.status = "ViewChange" /\ n.catching_up /\ n.view > revert_to
    /\ n' = Stranding([n EXCEPT !.view = revert_to, !.status = "Normal", !.catching_up = FALSE])

\* adopt_canonical_head: the log above the sender's floor, with at most one body still under repair there.
OnStartView(view, op, commit, checkpoint_op, repairing) ==
    LET floor == IF checkpoint_op < commit THEN checkpoint_op ELSE commit
        supplied == (floor + 1)..op
        log == {k \in n.log : k > floor /\ k <= n.commit_min} \cup (supplied \ repairing) \cup (supplied \cap n.log)
        Adopted(m) == [m EXCEPT !.view = view, !.log_floor = MaxOf(@, floor), !.log = log, !.op = op,
                                !.repair = @ \ (log \cup supplied)]
        Reset(u) == Check([u EXCEPT !.catching_up = FALSE, !.recover = NoRecover], u.recover.reads = 0)
        Started(t) == [submit_durable_view(Reset(reset_for_view_transition([t EXCEPT !.log_view = view, !.status = "Normal"])),
                                           "AdoptedStartView")
                         EXCEPT !.wal = {k \in @ : k <= op} \cup t.log]
        Advanced(t) == IF Recovering(t) THEN t ELSE Started(t)
    IN  /\ \/ n.status = "ViewChange" /\ view >= n.view
           \/ n.status = "Normal" /\ view > n.view
        /\ ~sync_repersist_root_staged(n)
        /\ op >= n.cluster
        /\ n' = Advanced(advance_commit(Check(Adopted(cancel_stale_cross_epoch_sync(Hear(n, commit))), op >= n.commit_min),
                                        commit))

\* Any other message of the own epoch, as far as it touches a crossing.
OnSameEpochMessage ==
    /\ n.intent # NoIntent \/ n.sync.cross
    /\ n' = cancel_stale_cross_epoch_sync(n)

enter_cross_epoch_peer_fetch(s, checkpoint_op) ==
    LET t == abandon_pending_sb(reset_for_view_transition(s)) IN
    IF awaiting_peer_checkpoint(s) \/ s.recover.want \/ pending_durable_view(s) \/ s.pending_checkpoint # NoCheckpoint
    THEN s
    ELSE escalate_checkpoint_to_peer_fetch(
            [t EXCEPT !.pending_install = NoInstall, !.block_fetch = NoFetch, !.catching_up = FALSE,
                      !.serving = FALSE, !.status = "Recovering", !.recover = Recover],
            MaxOf(checkpoint_op, s.checkpoint_op), TRUE)

\* maybe_request_cross_epoch_catchup: a message of the successor epoch, of a member or of a node the own
\* configuration does not know (quarantined).  The message itself is dropped.
OnLaterEpochMessage(checkpoint_op, quarantined) ==
    LET s == [Hear(n, checkpoint_op) EXCEPT !.intent = MaxOf(@, checkpoint_op), !.quarantined = quarantined] IN
    /\ n.epoch = 0
    /\ n' = CASE s.status # "Normal" -> enter_cross_epoch_peer_fetch(s, checkpoint_op)
              [] s.status = "Normal" /\ s.sync = NoSync -> arm_sync(s, checkpoint_op, TRUE, TRUE)
              [] OTHER -> [s EXCEPT !.sync = [target |-> MaxOf(@.target, checkpoint_op), forced |-> TRUE, cross |-> TRUE],
                                    !.block_fetch = IF s.sync.cross THEN @ ELSE NoFetch]

-----------------------------------------------------------------------------
(* Serving checkpoints to others.  A requester is named by the checkpoint it has; n.serving is the one *)
(* read a requester may have outstanding. *)

OnRequestSync(checkpoint_op, recovery) ==
    /\ n.budget.serves /\ ~n.serving
    /\ n.status = "Normal" /\ (sm_reconstruct_owed(n) => recovery)
    /\ n.checkpoint_op > 0
    /\ IF recovery THEN n.checkpoint_op >= checkpoint_op ELSE n.checkpoint_op > checkpoint_op
    /\ n' = [n EXCEPT !.serving = TRUE]

\* A mutant: the live configuration is attached to whatever checkpoint there is.
AttachedEpochAlways(s) == s.epoch

\* The configuration an answer carries: its epoch, and 0 for none.
AttachedEpoch(s) == IF s.checkpoint_op >= s.config_install_op THEN s.epoch ELSE 0

\* serve_sync_checkpoint: the read returns the envelope of the landed root.
ServeSyncCheckpoint ==
    LET op == n.d.root.checkpoint_op
        sound == /\ op \in n.d.envelopes /\ Dag(op) \subseteq n.d.stored
                 /\ AttachedEpoch(n) = EpochOf(op)
        answered == n.status = "Normal" /\ ~pending_durable_view(n) /\ op = n.checkpoint_op
    IN  /\ n.serving
        /\ n' = [n EXCEPT !.serving = FALSE, !.answers_sound = @ /\ (answered => sound)]

OnRequestBlock(block) ==
    /\ n.budget.serves /\ ~Owed(n.d, "Serve")
    /\ n' = issue_block_job(n, [Job("Serve", n.incarnation, 0) EXCEPT !.fetched = block])

-----------------------------------------------------------------------------
(* Timers. *)

\* advance_quarantine_probe: a crossing a quarantined node announced has shown no progress for a while.
QuarantineProbe(progressed) ==
    LET busy == \/ n.recover.reads > 0 \/ Installing(n)
                \/ n.block_fetch.crossing /\ progressed
        s == CrossingForgotten([n EXCEPT !.sync = NoSync, !.block_fetch = NoFetch])
    IN  /\ n.quarantined
        /\ Recovering(n) => n.view < n.budget.views
        /\ n' = CASE ~n.sync.cross -> [n EXCEPT !.quarantined = FALSE]
                  [] n.sync.cross /\ busy -> n
                  [] OTHER -> IF Recovering(s) THEN retire_recover_and_escalate(s) ELSE s

SyncTimeout ==
    /\ n.status = "Normal" /\ n.sync # NoSync
    /\ n' = issue_walk(flush_and_stage_install(n), "Arq", NoBlock)

RecoverTimeout ==
    LET Escalated(t, owed) ==
            escalate_checkpoint_to_peer_fetch([t EXCEPT !.repersist_orphan = owed], MaxOf(owed, t.checkpoint_op), FALSE)
        Retried(t, r) ==
            CASE ~r.want \/ r.deferred # 0 \/ r.reconstruct # "none" \/ r.reads > 0 -> t
              [] r.want /\ r.deferred = 0 /\ r.reconstruct = "none" /\ r.reads = 0 /\ r.retries > 0 ->
                   [submit_tracked_checkpoint_read(t) EXCEPT !.recover.retries = @ - 1]
              [] OTHER -> Escalated(t, repersist_orphan_owed(t))
        Asked(s) == IF s.recover.awaiting /\ s.sync # NoSync THEN issue_walk(s, "Arq", NoBlock) ELSE s
        Staged(s) == IF s.pending_checkpoint # NoCheckpoint THEN s
                     ELSE recover_progress(Retried(Asked(s), s.recover))
    IN  Recovering(n) /\ n' = Staged(flush_and_stage_install(n))

-----------------------------------------------------------------------------
(* Superblock completions. *)

Roles(roots) == {roots[i].role : i \in DOMAIN roots}

\* A root landed that no pending obligation of this process submitted.
OrphanLanded(s, entry) ==
    LET cp == entry.state.checkpoint_op
        proven == entry.role = "Checkpoint" \/ entry.inc # s.incarnation
        t == IF proven /\ ~Recovering(s) THEN [s EXCEPT !.commit_max = MaxOf(@, entry.state.commit)] ELSE s
        orphan == entry.role = "Checkpoint" /\ s.commit_min < cp
        u == [t EXCEPT !.inherited_frontier = MaxOf(@, cp),
                       !.repersist_orphan = IF orphan THEN MaxOf(@, cp) ELSE @]
    IN  IF cp <= s.checkpoint_op THEN t
        ELSE maybe_enter_orphan_repersist_recovery(maybe_adopt_inherited_frontier(u))

\* The durable view obligation is met: the action it was deferred for is taken.  A swap that was stranded may land
\* over a staged install, where a debug build has stopped before and a release build leaves the checkpoint owed.
DurableViewLanded(s) ==
    LET t == [s EXCEPT !.pending_sb = "none", !.durable_view = s.view]
        u == install_membership([t EXCEPT !.pending_swap = 0, !.intent = NoIntent], 1)
        v == Check(u, s.stranded \/ s.status # "Normal" \/ ~Installing(u))
    IN  maybe_swap_epoch(
            CASE s.pending_sb # "SwapEpoch" -> t
              [] s.pending_sb = "SwapEpoch" /\ (s.status # "Normal" \/ Installing(u)) -> v
              [] OTHER -> force_checkpoint(v))

\* A mutant: a checkpoint that lands does not give the superblock to the swap that waits for it.
CheckpointLandedAlone(s) ==
    LET pc == s.pending_checkpoint
        t == [s EXCEPT !.pending_checkpoint = NoCheckpoint, !.checkpoint_root = pc.target]
    IN  CASE pc.kind = "SyncRepersist" /\ s.pending_install # NoInstall -> install_sync(t)
          [] pc.kind = "SyncRepersist" /\ s.pending_install = NoInstall -> complete_state_sync(t)
          [] OTHER -> gc_blocks(run_gc(advance_checkpoint_op(t, pc.target)))

CheckpointLanded(s) ==
    LET pc == s.pending_checkpoint
        t == [s EXCEPT !.pending_checkpoint = NoCheckpoint, !.checkpoint_root = pc.target]
    IN  CASE pc.kind = "SyncRepersist" /\ s.pending_install # NoInstall -> install_sync(t)
          [] pc.kind = "SyncRepersist" /\ s.pending_install = NoInstall -> maybe_swap_epoch(complete_state_sync(t))
          [] OTHER -> maybe_swap_epoch(gc_blocks(run_gc(advance_checkpoint_op(t, pc.target))))

OnRootDone ==
    LET entry == Head(n.d.roots)
        mine == entry.inc = n.incarnation
        latest == entry.role \notin Roles(Tail(n.d.roots))
        view_root == mine /\ latest /\ entry.role = "DurableView" /\ n.pending_sb # "none"
        ckpt_root == mine /\ latest /\ entry.role = "Checkpoint" /\ n.pending_checkpoint.step = "AwaitRoot"
        durable == MaxOf(n.durable_view, entry.state.view)
        Dispatched(t) == CASE ~mine \/ (Recovering(t) /\ ~ckpt_root) -> t
                           [] mine /\ view_root /\ ~Recovering(t) -> DurableViewLanded(t)
                           [] mine /\ ckpt_root -> CheckpointLanded(t)
                           [] OTHER -> maybe_swap_epoch(t)
        Adopted(s) == Dispatched(Check(IF view_root \/ ckpt_root THEN s ELSE OrphanLanded(s, entry), durable <= n.view))
    IN  /\ n.d.roots # <<>>
        /\ n' = Adopted(adopt_landed_configuration([n EXCEPT !.d = RootLanded(@), !.durable_view = durable], entry.state))

OnEnvelopeDone ==
    LET s == [n EXCEPT !.d = EnvelopeLanded(@)]
        pc == n.pending_checkpoint
        effective == effective_root(n.d)
        commit == MaxOf(n.commit_max, pc.target)
        root == IF pc.kind = "SyncRepersist" /\ n.pending_install.epoch > effective.epoch
                THEN durable_root_with_successor(n, commit, pc.target, n.pending_install.epoch)
                ELSE durable_root(n, effective, commit, pc.target)
    IN  /\ n.d.envelope # NoEnvelope
        /\ n' = CASE n.d.envelope.inc # n.incarnation \/ (Recovering(n) /\ pc.step # "AwaitSnapshot") -> s
                  [] n.d.envelope.inc = n.incarnation /\ pc.step = "AwaitSnapshot" ->
                        maybe_swap_epoch([s EXCEPT !.d = submit_root(@, "Checkpoint", n.incarnation, root),
                                                   !.pending_checkpoint.step = "AwaitRoot"])
                  [] OTHER -> maybe_swap_epoch(s)

OnCheckpointRead ==
    /\ Recovering(n) /\ n.recover.reads > 0
    /\ n' = on_recover_checkpoint_read(n)

OnCheckpointReadFault ==
    /\ Recovering(n) /\ n.recover.reads > 0
    /\ n' = [n EXCEPT !.recover.reads = @ - 1]

-----------------------------------------------------------------------------
(* Block jobs. *)

\* The driver hands the worker every job that waits, and the worker executes the oldest.
RunJob(ok) ==
    /\ n.d.jobs # <<>> /\ n.d.done = NoDone
    /\ ok \/ Head(n.d.jobs).kind \in n.budget.faults
    /\ n' = [n EXCEPT !.d = execute_block_job(poll_block_jobs(@), ok)]

\* A mutant: the envelope is written although the flush failed.
on_checkpoint_flushed_anyway(s, kind, ok) ==
    LET pc == s.pending_checkpoint
        mine == pc.step = "FlushingBlocks" /\ pc.kind = kind
    IN  IF ~mine \/ (kind = "SyncRepersist" /\ s.pending_install = NoInstall) THEN s
        ELSE [s EXCEPT !.d = submit_checkpoint(@, s.incarnation, pc.target),
                       !.pending_checkpoint.step = "AwaitSnapshot"]

\* A mutant: a failed flush leaves the checkpoint pending.
on_checkpoint_flushed_pending(s, kind, ok) ==
    LET pc == s.pending_checkpoint
        mine == pc.step = "FlushingBlocks" /\ pc.kind = kind
        owed == kind = "Ordinary" \/ s.pending_install # NoInstall
        t == [s EXCEPT !.d = submit_checkpoint(@, s.incarnation, pc.target),
                       !.pending_checkpoint.step = "AwaitSnapshot"]
    IN  IF ~mine \/ ~owed \/ ~ok \/ s.d.envelope # NoEnvelope THEN s
        ELSE IF kind = "SyncRepersist" /\ Recovering(s) THEN retire_recover_for_staged_sync(t) ELSE t

on_checkpoint_flushed(s, kind, ok) ==
    LET pc == s.pending_checkpoint
        mine == pc.step = "FlushingBlocks" /\ pc.kind = kind
        owed == kind = "Ordinary" \/ s.pending_install # NoInstall
        t == [s EXCEPT !.d = submit_checkpoint(@, s.incarnation, pc.target),
                       !.pending_checkpoint.step = "AwaitSnapshot"]
    IN  CASE ~mine -> s
          [] mine /\ (~owed \/ ~ok \/ s.d.envelope # NoEnvelope) -> [s EXCEPT !.pending_checkpoint = NoCheckpoint]
          [] OTHER -> IF kind = "SyncRepersist" /\ Recovering(s) THEN retire_recover_for_staged_sync(t) ELSE t

on_walked(s, done) ==
    LET t == [s EXCEPT !.block_fetch.seen = done.job.seen, !.block_fetch.walking = FALSE]
        drained == done.next = NoBlock
    IN  CASE done.job.purpose = "RecoverProbe" -> on_recover_probe_walked(s, done)
          [] done.job.purpose # "RecoverProbe" /\ ~s.block_fetch.walking -> s
          [] OTHER ->
               CASE ~drained -> t
                 [] drained /\ done.job.purpose = "Rearm" -> [t EXCEPT !.block_fetch = NoFetch]
                 [] drained /\ done.job.purpose = "RearmRetry" ->
                       issue_sm_restore([t EXCEPT !.block_fetch = NoFetch])
                 [] OTHER -> on_fetch_drained(t)

redeliver_deferred_pin(s) ==
    IF s.deferred_pin = 0 THEN s ELSE SyncCheckpointArrives([s EXCEPT !.deferred_pin = 0], s.deferred_pin)

OnBlockDone ==
    LET done == n.d.done
        job == done.job
        s == [n EXCEPT !.d = settle_block_job(@)]
        t == IF job.kind = "Walk" THEN redrive_deferred_recover_probe(s) ELSE s
    IN  /\ done # NoDone
        /\ n' = CASE job.inc # n.incarnation \/ job.kind \in {"Gc", "Serve"} -> t
                  [] job.inc = n.incarnation /\ job.kind = "Materialize" ->
                        Stranding(on_checkpoint_flushed(t, "Ordinary", done.ok))
                  [] job.inc = n.incarnation /\ job.kind = "Flush" -> on_checkpoint_flushed(t, "SyncRepersist", done.ok)
                  [] job.inc = n.incarnation /\ job.kind = "Walk" -> redeliver_deferred_pin(on_walked(t, done))
                  [] job.inc = n.incarnation /\ job.kind = "Restore" ->
                        IF job.purpose = "SyncedCheckpoint" THEN on_sm_restored(t, done.ok)
                        ELSE on_recovered_checkpoint_restored(t, job.dag, done.ok)

-----------------------------------------------------------------------------
(* Restarts. *)

\* recover_with_reconfig: the tail of the write-ahead log is read, an interior slot it lacks is a hole.
recover_with_reconfig(d, wal) ==
    LET e == collapse_parked_roots(d)
        landed == e.root
        effective == effective_root(e)
        cp == landed.checkpoint_op
        log == {op \in wal : op > cp}
        op == Max(log \cup {cp})
        s == [n EXCEPT
                !.status = "Recovering", !.view = effective.view, !.durable_view = landed.view,
                !.log_view = effective.log_view, !.catching_up = FALSE,
                !.op = op, !.commit_min = cp, !.commit_max = effective.commit, !.sm_at = 0,
                !.log = log, !.wal = wal, !.repair = ((cp + 1)..op) \ log,
                !.checkpoint_op = cp, !.checkpoint_root = 0,
                !.log_floor = IF landed.log_floor < op THEN landed.log_floor ELSE op,
                !.pending_sb = "none", !.pending_checkpoint = NoCheckpoint, !.pending_install = NoInstall,
                !.sm_reconstruct = NoReconstruct, !.sync = NoSync, !.block_fetch = NoFetch, !.deferred_pin = 0,
                !.inherited_frontier = 0, !.repersist_orphan = 0, !.recover = Recover,
                !.epoch = landed.epoch, !.config_install_op = landed.config_install_op, !.pending_swap = 0,
                !.intent = NoIntent, !.quarantined = FALSE, !.serving = FALSE,
                !.incarnation = @ + 1, !.d = e]
    IN  recover_progress(IF cp > 0 THEN submit_recover_checkpoint_read(s) ELSE s)

\* The process dies; a root write with the backend may or may not have reached the medium.
Crash(landed) ==
    /\ n.incarnation < n.budget.restarts
    /\ landed => n.d.roots # <<>>
    /\ n' = recover_with_reconfig(StorageCrashed(n.d, landed), n.wal)

\* The endpoint is rebuilt over a session that still has writes and jobs in flight.
Rebuild ==
    /\ n.incarnation < n.budget.restarts
    /\ n' = recover_with_reconfig(n.d, n.wal)

-----------------------------------------------------------------------------

\* The checkpoints a primary of this replica's epoch can have reached: the ones it receives messages of.
CheckpointsHeard(commit) == {cp \in n.budget.donors \cup {0} : cp <= commit /\ EpochOf(cp) <= n.epoch}

StNext ==
    \/ \E commit \in 0..n.budget.ops : \E cp \in CheckpointsHeard(commit) : OnPrepare(commit, cp) \/ OnCommit(commit, cp)
    \/ \E op \in 1..n.budget.ops : FillRepair(op)
    \/ \E op \in n.budget.donors : OnSyncCheckpoint(op)
    \/ \E block \in {NoBlock} \cup Dag(n.block_fetch.dag) : OnBlockResponse(block)
    \/ OnSameEpochMessage
    \/ \E cp \in n.budget.ahead, quarantined \in BOOLEAN : OnLaterEpochMessage(cp, quarantined)
    \/ \E op \in 0..n.budget.ops, recovery \in BOOLEAN : OnRequestSync(op, recovery)
    \/ ServeSyncCheckpoint
    \/ \E block \in n.d.stored : OnRequestBlock(block)
    \/ \E progressed \in BOOLEAN : QuarantineProbe(progressed)
    \/ TransitionToViewChange
    \/ CatchUpToView
    \/ RevertCatchUp
    \/ \E view \in 0..n.budget.views, op \in 0..n.budget.ops : \E commit \in 0..op :
          \E cp \in CheckpointsHeard(commit), repairing \in {{}} \cup {{k} : k \in 1..op} :
             OnStartView(view, op, commit, cp, repairing)
    \/ SyncTimeout
    \/ RecoverTimeout
    \/ OnRootDone
    \/ OnEnvelopeDone
    \/ OnCheckpointRead
    \/ OnCheckpointReadFault
    \/ \E ok \in BOOLEAN : RunJob(ok)
    \/ OnBlockDone
    \/ \E landed \in BOOLEAN : Crash(landed)
    \/ Rebuild

StSpec == StInit /\ [][StNext]_stVars

-----------------------------------------------------------------------------
(* Properties. *)

\* No assertion of the code fails: no frontier rewinds, no root rewinds the timeline, no block job of a
\* kind is issued twice, no transfer is flushed whose blocks were swept, no recovery completes over an
\* open read.  The two assertions that a stranded swap fails are left to EndpointInvariants, which marks it.
NeverPanics == ~n.d.panicked

\* Endpoint::assert_invariants.  Its last claim, that a staged swap in a settled view has a superblock write under
\* way, fails in two places only, and n.stranded marks both: where a failed capture is dropped and where a catch-up
\* is reverted.
EndpointInvariants ==
    /\ n.pending_install # NoInstall => n.sync # NoSync
    /\ n.pending_install # NoInstall => n.pending_checkpoint.kind \in {"none", "SyncRepersist"}
    /\ sync_repersist_root_staged(n) => n.pending_install # NoInstall
    /\ n.block_fetch # NoFetch => n.sync # NoSync
    /\ sm_reconstruct_owed(n) => n.sync # NoSync /\ n.sm_reconstruct.op = n.checkpoint_op
    /\ n.commit_max >= n.commit_min /\ n.commit_min >= n.checkpoint_op
    /\ n.op >= n.commit_min
    /\ n.log_floor >= n.checkpoint_op /\ n.op >= n.log_floor
    /\ n.sm_at = n.commit_min \/ sm_reconstruct_owed(n) \/ Recovering(n)
    /\ awaiting_peer_checkpoint(n) => Recovering(n)
    /\ SwapIdle(n) => n.stranded

\* A committed reconfiguration is staged from its commit to its install (swap_in_flight, commit_reconfigure):
\* a replica that has applied it and is still in the predecessor epoch holds the swap.
SwapStagedUntilInstalled == n.commit_min >= ReconfigureOp /\ n.epoch = 0 => n.pending_swap # 0

\* serve_sync_checkpoint: an answer to a RequestSync names a checkpoint whose envelope and blocks this replica can deliver, and
\* carries the configuration the cluster has at that checkpoint, unless a staged swap was stranded before.
AnswersSound == n.stranded \/ n.answers_sound

\* A committed reconfiguration is forgotten only after it was stranded, staged in a settled view with the superblock
\* idle (maybe_swap_epoch, assert_invariants): not by a view change that abandons the swap's root, not by a crash or
\* a rebuild before that root lands, not by a state transfer or a checkpoint that overtakes it.
ReconfigurationKept == n.stranded \/ SwapStagedUntilInstalled

\* A recovery that fetches a checkpoint of the successor epoch stops requiring one when a landed root has
\* already moved the replica into that epoch (retarget_recovery_fetch, "a crossing the landing itself
\* satisfied"): otherwise apply_sync refuses every answer of the cluster.
SatisfiedCrossingRetired == Recovering(n) /\ n.sync.cross => n.epoch = 0

\* What is durable is enough to rebuild what was applied: the root's envelope, its blocks, and every
\* applied operation above it.
Recoverable ==
    LET cp == n.d.root.checkpoint_op IN
    /\ cp > 0 => cp \in n.d.envelopes /\ Dag(cp) \subseteq n.d.flushed
    /\ \A op \in (cp + 1)..n.commit_min : op \in n.wal

=============================================================================
