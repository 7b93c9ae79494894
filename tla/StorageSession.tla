--------------------------- MODULE StorageSession ---------------------------
(***************************************************************************)
(* The storage session of one replica (Storage and its LaneFront) over its *)
(* two backends, as operators on one record d.                             *)
(*                                                                         *)
(* The superblock keeps one durable root, d.root, and the checkpoint       *)
(* envelopes.  d.roots is the timeline of submitted roots: its head is     *)
(* with the backend (root_front), the rest are parked, at most one for     *)
(* each role, in the order of their stamps.  d.envelope is the one         *)
(* envelope write in flight.                                               *)
(*                                                                         *)
(* The block store holds the blocks d.stored, of which d.flushed survive a *)
(* crash.  d.jobs are the block jobs the session owes, in issue order: the *)
(* first d.polled of them have been handed to the lane's worker.  d.done   *)
(* is the completion the worker has produced and the endpoint not yet      *)
(* consumed.                                                               *)
(*                                                                         *)
(* Abstractions: a checkpoint is named by its op, and so are its envelope  *)
(* and its two block DAGs, which are one block each; the sessions DAG of   *)
(* two neighbouring checkpoints is the same block.  A failed assertion of  *)
(* the code sets d.panicked.                                               *)
(***************************************************************************)
EXTENDS Integers, Sequences, SequencesExt, FiniteSets, FiniteSetsExt

SmBlock(op) == op
SessionsBlock(op) == -((op + 1) \div 2)
Dag(op) == {SmBlock(op), SessionsBlock(op)}
NoBlock == 0

GenesisRoot ==
    [view |-> 0, log_view |-> 0, commit |-> 0, checkpoint_op |-> 0, log_floor |-> 0,
     epoch |-> 0, config_install_op |-> 0]

NoEnvelope == [op |-> 0, inc |-> 0]

\* A job: its checkpoint, and what its kind adds to that.  Of a walk: the purpose, the blocks its two
\* walkers have passed, and the block a donor sent.  Of a sweep: the checkpoints it keeps.
Job(kind, inc, dag) ==
    [kind |-> kind, inc |-> inc, dag |-> dag, purpose |-> "none", seen |-> {}, fetched |-> NoBlock, roots |-> {}]

NoDone == [job |-> Job("none", 0, 0), ok |-> FALSE, next |-> NoBlock]

EmptyStorage ==
    [root |-> GenesisRoot, envelopes |-> {}, roots |-> <<>>, envelope |-> NoEnvelope,
     stored |-> {}, flushed |-> {}, jobs |-> <<>>, polled |-> 0, done |-> NoDone, panicked |-> FALSE]

Asserting(d, holds) == [d EXCEPT !.panicked = @ \/ ~holds]

-----------------------------------------------------------------------------
(* The root timeline. *)

effective_root(d) == IF d.roots = <<>> THEN d.root ELSE Last(d.roots).state

WithoutParked(roots, role) ==
    IF roots = <<>> THEN <<>> ELSE <<Head(roots)>> \o SelectSeq(Tail(roots), LAMBDA e : e.role # role)

submit_root(d, role, inc, state) ==
    LET eff == effective_root(d) IN
    Asserting([d EXCEPT !.roots = Append(WithoutParked(@, role), [role |-> role, inc |-> inc, state |-> state])],
              /\ state.view >= eff.view
              /\ state.checkpoint_op >= eff.checkpoint_op
              /\ state.epoch >= eff.epoch
              /\ state.config_install_op >= eff.config_install_op)

abandon_root(d, role) == [d EXCEPT !.roots = WithoutParked(@, role)]

collapse_parked_roots(d) == [d EXCEPT !.roots = IF @ = <<>> THEN <<>> ELSE <<Head(@)>>]

\* The backend completes the front root; the oldest parked one takes its place.  An envelope older
\* than the one the root names is never read again.
RootLanded(d) ==
    LET root == Head(d.roots).state IN
    [d EXCEPT !.root = root, !.roots = Tail(@),
              !.envelopes = {op \in @ : op >= root.checkpoint_op}]

submit_checkpoint(d, inc, op) == [d EXCEPT !.envelope = [op |-> op, inc |-> inc]]

EnvelopeLanded(d) == [d EXCEPT !.envelopes = @ \cup {d.envelope.op}, !.envelope = NoEnvelope]

-----------------------------------------------------------------------------
(* The block lane. *)

Outstanding(d) == d.jobs \o (IF d.done = NoDone THEN <<>> ELSE <<d.done.job>>)

Owed(d, kind) == \E i \in DOMAIN Outstanding(d) : Outstanding(d)[i].kind = kind

\* LaneFront::enqueue: a sweep takes the place of one still waiting and is dropped when one has been
\* handed to the worker; of any other kind the lane owes one at most.
enqueue(d, job) ==
    LET waiting == {i \in DOMAIN d.jobs : i > d.polled /\ d.jobs[i].kind = "Gc"} IN
    CASE job.kind = "Gc" /\ Owed(d, "Gc") ->
            [d EXCEPT !.jobs = [i \in DOMAIN @ |-> IF i \in waiting THEN [@[i] EXCEPT !.roots = job.roots]
                                                  ELSE @[i]]]
      [] OTHER -> Asserting([d EXCEPT !.jobs = Append(@, job)], ~Owed(d, job.kind))

poll_block_jobs(d) == [d EXCEPT !.polled = Len(d.jobs)]

\* BlockWalks::accept: each walker takes the block it waits for, and stores it.
accept(d, job) ==
    LET taken == {job.fetched} \cap (Dag(job.dag) \ job.seen) IN
    [stored |-> d.stored \cup taken, seen |-> job.seen \cup taken]

\* BlockWalks::next_missing: each walker passes what the store holds; the sessions walker is asked only
\* when the state machine's is through.
next_missing(walked, dag) ==
    LET pass(seen, block) == seen \cup ({block} \cap walked.stored)
        sm == pass(walked.seen, SmBlock(dag))
        sessions == pass(sm, SessionsBlock(dag))
    IN  CASE SmBlock(dag) \notin sm -> [seen |-> sm, next |-> SmBlock(dag)]
          [] SessionsBlock(dag) \notin sessions -> [seen |-> sessions, next |-> SessionsBlock(dag)]
          [] OTHER -> [seen |-> sessions, next |-> NoBlock]

WalkDone(d, job) ==
    LET walked == accept(d, job)
        found == next_missing(walked, job.dag)
    IN  [d EXCEPT !.stored = walked.stored,
                  !.done = [job |-> [job EXCEPT !.seen = found.seen], ok |-> TRUE, next |-> found.next]]

\* execute_block_job: the worker runs the oldest job it was handed; ok is what a flush returns.
execute_block_job(d, ok) ==
    LET job == Head(d.jobs)
        e == [d EXCEPT !.jobs = Tail(@), !.polled = @ - 1]
        finish(f, result) == [f EXCEPT !.done = [job |-> job, ok |-> result, next |-> NoBlock]]
        flush(f) == IF ok THEN [f EXCEPT !.flushed = f.stored] ELSE f
    IN  CASE job.kind = "Materialize" ->
               finish(flush([e EXCEPT !.stored = @ \cup Dag(job.dag)]), ok)
          [] job.kind = "Flush" ->
               finish(flush(Asserting(e, Dag(job.dag) \subseteq e.stored)), ok)
          [] job.kind = "Gc" ->
               LET live == UNION {Dag(op) : op \in job.roots} IN
               finish([e EXCEPT !.stored = @ \cap live, !.flushed = @ \cap live], TRUE)
          [] job.kind = "Restore" -> finish(e, ok /\ Dag(job.dag) \subseteq e.stored)
          [] job.kind = "Serve" -> finish(e, job.fetched \in e.stored)
          [] job.kind = "Walk" -> WalkDone(e, job)

settle_block_job(d) == [d EXCEPT !.done = NoDone]

-----------------------------------------------------------------------------

\* A crash of the process: everything in flight is gone, or has landed, and unflushed blocks are lost.
StorageCrashed(d, landed) ==
    LET e == IF landed THEN RootLanded(d) ELSE d IN
    [e EXCEPT !.roots = <<>>, !.envelope = NoEnvelope, !.jobs = <<>>, !.polled = 0, !.done = NoDone,
              !.stored = d.flushed]

=============================================================================
