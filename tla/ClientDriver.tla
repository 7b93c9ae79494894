---------------------------- MODULE ClientDriver ----------------------------
(***************************************************************************)
(* A client's way through the driver: Handle::submit on the caller's       *)
(* thread, the bounded command channel, the run loop with its pending map, *)
(* retransmission, retirement of the node and shutdown.  The cluster is    *)
(* external: it executes the requests of the driver's one session in       *)
(* request-number order and ignores a number past a gap.                   *)
(***************************************************************************)
EXTENDS Integers, Sequences, FiniteSets

CONSTANTS
    Calls,        \* submits, each made once: positive numbers
    CmdCap,       \* capacity of the command channel
    MaxInflight,  \* InflightBudget::max_count
    MaxLosses,    \* bound on lost request broadcasts
    MaxInstalls,  \* bound on state-sync installs of the local replica
    MayCancel,    \* whether callers drop their reply futures
    MayStop       \* what may end the driver: a subset of {"Shutdown", "Retire"}

ASSUME DriverAssumption ==
    /\ IsFiniteSet(Calls) /\ Calls \subseteq Nat \ {0}
    /\ CmdCap \in Nat /\ MaxInflight \in Nat

VARIABLES
    call,         \* where each submit is, or how it ended
    commands,     \* the command channel
    budget,       \* InflightBudget::count
    loop,         \* the run loop: "running", "quiescing", "stopped"
    retired,      \* Retirement::at is set
    next_request, \* the last request number minted
    pending,      \* PendingMap: request number -> submit
    number,       \* the number each submit was minted with, 0 if none
    wire,         \* request numbers on their way to the primary
    executed,     \* requests of the session the cluster has committed
    applied,      \* requests of it the local replica has applied or installed
    releasing,    \* deliver_event has sent a reply and still holds its reservation
    losses, installs

driverVars == <<call, commands, budget, loop, retired, next_request, pending, number, wire,
                releasing, executed, applied, losses, installs>>

DriverInit ==
    /\ call = [x \in Calls |-> "idle"]
    /\ commands = <<>> /\ budget = 0 /\ loop = "running" /\ retired = FALSE
    /\ next_request = 0 /\ pending = <<>> /\ number = [x \in Calls |-> 0]
    /\ releasing = FALSE /\ wire = {} /\ executed = 0 /\ applied = 0 /\ losses = 0 /\ installs = 0

\* Command::Shutdown; the other commands are submits.
ShutdownCommand == 0

clusterVars == <<wire, executed, applied, losses, installs>>

-----------------------------------------------------------------------------
(* The caller's side. *)

\* What a waiting submit returns when its reply channel is dropped.
reply_dropped_reason == IF retired THEN "Retired" ELSE "ReplyDropped"

\* The outcome of the submits xs whose reply channels are dropped.
Dropped(xs, reason) == [x \in Calls |-> IF x \in xs /\ call[x] = "waiting" THEN reason ELSE call[x]]

\* Handle::submit up to its reservation: a retired node refuses at once.
Gate(x) ==
    /\ call[x] = "idle"
    /\ call' = [call EXCEPT ![x] = IF retired THEN "Retired" ELSE "gated"]
    /\ UNCHANGED <<commands, budget, loop, retired, next_request, pending, number, releasing, clusterVars>>

\* A reservation that is not checked against the limit.
ReserveUnchecked(x) ==
    /\ call[x] = "gated"
    /\ call' = [call EXCEPT ![x] = "reserved"] /\ budget' = budget + 1
    /\ UNCHANGED <<commands, loop, retired, next_request, pending, number, releasing, clusterVars>>

\* The reservation is the first side effect of a submit.
Reserve(x) ==
    /\ call[x] = "gated"
    /\ IF budget + 1 > MaxInflight
       THEN call' = [call EXCEPT ![x] = "Busy"] /\ UNCHANGED budget
       ELSE call' = [call EXCEPT ![x] = "reserved"] /\ budget' = budget + 1
    /\ UNCHANGED <<commands, loop, retired, next_request, pending, number, releasing, clusterVars>>

\* A send that keeps the reservation of the command it could not deliver.
SendLeaking(x) ==
    /\ call[x] = "reserved"
    /\ IF loop # "stopped" /\ Len(commands) < CmdCap
       THEN call' = [call EXCEPT ![x] = "waiting"] /\ commands' = Append(commands, x)
       ELSE /\ call' = [call EXCEPT ![x] = IF loop = "stopped" THEN "DriverGone" ELSE "Busy"]
            /\ UNCHANGED commands
    /\ UNCHANGED <<budget, loop, retired, next_request, pending, number, releasing, clusterVars>>

\* The try_send on the channel: a command that is not delivered drops its reservation.
Send(x) ==
    /\ call[x] = "reserved"
    /\ \/ /\ loop # "stopped" /\ Len(commands) < CmdCap
          /\ call' = [call EXCEPT ![x] = "waiting"] /\ commands' = Append(commands, x)
          /\ UNCHANGED budget
       \/ /\ loop # "stopped" /\ Len(commands) >= CmdCap
          /\ call' = [call EXCEPT ![x] = "Busy"] /\ budget' = budget - 1
          /\ UNCHANGED commands
       \/ /\ loop = "stopped"
          /\ call' = [call EXCEPT ![x] = "DriverGone"] /\ budget' = budget - 1
          /\ UNCHANGED commands
    /\ UNCHANGED <<loop, retired, next_request, pending, number, releasing, clusterVars>>

\* The caller drops the future that awaits the reply.
Cancel(x) ==
    /\ MayCancel /\ call[x] = "waiting"
    /\ call' = [call EXCEPT ![x] = "cancelled"]
    /\ UNCHANGED <<commands, budget, loop, retired, next_request, pending, number, releasing, clusterVars>>

\* Handle::shutdown.
RequestShutdown ==
    /\ "Shutdown" \in MayStop /\ loop # "stopped"
    /\ ShutdownCommand \notin {commands[i] : i \in DOMAIN commands}
    /\ Len(commands) < CmdCap
    /\ commands' = Append(commands, ShutdownCommand)
    /\ UNCHANGED <<call, budget, loop, retired, next_request, pending, number, releasing, clusterVars>>

-----------------------------------------------------------------------------
(* The run loop. *)

Waiters == {pending[n] : n \in DOMAIN pending}

\* Every pending submit is dropped, and its reservation with it.
drain_pending(reason) ==
    /\ pending' = <<>> /\ call' = Dropped(Waiters, reason)
    /\ budget' = budget - Cardinality(DOMAIN pending)

\* The front command is a submit of x: a retired node drops it, a cancelled one is
\* dropped before it takes a number, any other is minted, remembered and broadcast.
HandleSubmit(x) ==
    /\ loop = "running" /\ ~releasing /\ commands # <<>> /\ Head(commands) = x
    /\ commands' = Tail(commands)
    /\ IF retired \/ call[x] = "cancelled"
       THEN /\ call' = Dropped({x}, "Retired") /\ budget' = budget - 1
            /\ UNCHANGED <<next_request, pending, number, wire>>
       ELSE /\ next_request' = next_request + 1
            /\ pending' = [n \in DOMAIN pending \cup {next_request + 1} |->
                             IF n = next_request + 1 THEN x ELSE pending[n]]
            /\ number' = [number EXCEPT ![x] = next_request + 1]
            /\ wire' = wire \cup {next_request + 1}
            /\ UNCHANGED <<call, budget>>
    /\ UNCHANGED <<loop, retired, releasing, executed, applied, losses, installs>>

\* The front command is Shutdown: leave the loop and drop the pending submits.
HandleShutdown ==
    /\ loop = "running" /\ ~releasing /\ commands # <<>> /\ Head(commands) = ShutdownCommand
    /\ commands' = Tail(commands) /\ loop' = "quiescing"
    /\ drain_pending(reply_dropped_reason)
    /\ UNCHANGED <<retired, next_request, number, releasing, clusterVars>>

\* The teardown ends without looking at the channel.
TeardownAtOnce ==
    /\ loop = "quiescing" /\ loop' = "stopped"
    /\ UNCHANGED <<call, commands, budget, retired, next_request, pending, number, releasing, clusterVars>>

\* After storage is quiet the channel is closed and every command left in it is dropped.
Teardown ==
    /\ loop = "quiescing" /\ loop' = "stopped"
    /\ LET left == {commands[i] : i \in DOMAIN commands} \ {ShutdownCommand}
       IN  call' = Dropped(left, reply_dropped_reason) /\ budget' = budget - Cardinality(left)
    /\ commands' = <<>>
    /\ UNCHANGED <<retired, next_request, pending, number, releasing, clusterVars>>

Live == {n \in DOMAIN pending : call[pending[n]] # "cancelled"}

\* The periodic walk of the pending map: cancelled submits are reaped, the others are
\* broadcast again (one that is not due yet is due at a later walk).
reap_and_collect_retransmits ==
    /\ loop = "running" /\ ~releasing /\ pending # <<>>
    /\ pending' = [n \in Live |-> pending[n]]
    /\ budget' = budget - Cardinality(DOMAIN pending \ Live)
    /\ wire' = IF retired THEN wire ELSE wire \cup Live
    /\ UNCHANGED <<call, commands, loop, retired, next_request, number, releasing, executed,
                   applied, losses, installs>>

\* A commit of the local replica answers its submit, whether or not the caller still waits;
\* the reservation is dropped after the reply is sent.
deliver_event(n) ==
    /\ call' = IF n \in DOMAIN pending /\ call[pending[n]] = "waiting"
               THEN [call EXCEPT ![pending[n]] = "reply"] ELSE call
    /\ pending' = [m \in DOMAIN pending \ {n} |-> pending[m]]
    /\ releasing' = (n \in DOMAIN pending)
    /\ UNCHANGED budget

DropReservation ==
    /\ releasing /\ releasing' = FALSE /\ budget' = budget - 1
    /\ UNCHANGED <<call, commands, loop, retired, next_request, pending, number, clusterVars>>

\* The event is taken for the newest request of the session.
CommittedNewest ==
    /\ loop = "running" /\ ~releasing /\ ~retired /\ applied < executed
    /\ applied' = applied + 1
    /\ deliver_event(next_request)
    /\ UNCHANGED <<commands, loop, retired, next_request, number, wire, executed, losses, installs>>

\* The local replica applies the next executed request, and the loop hands out the event.
Committed ==
    /\ loop = "running" /\ ~releasing /\ ~retired /\ applied < executed
    /\ applied' = applied + 1
    /\ deliver_event(applied + 1)
    /\ UNCHANGED <<commands, loop, retired, next_request, number, wire, executed, losses, installs>>

\* The node leaves the configuration: the latch is set before the map is drained, so that
\* a woken submit finds it.
Retire ==
    /\ "Retire" \in MayStop /\ loop = "running" /\ ~releasing /\ ~retired
    /\ retired' = TRUE
    /\ drain_pending("Retired")
    /\ UNCHANGED <<commands, loop, next_request, number, releasing, clusterVars>>

-----------------------------------------------------------------------------
(* The cluster. *)

\* The primary takes the next number of the session; any other number is ignored.
Execute ==
    /\ executed + 1 \in wire
    /\ executed' = executed + 1 /\ wire' = wire \ {executed + 1}
    /\ UNCHANGED <<call, commands, budget, loop, retired, next_request, pending, number, releasing,
                   applied, losses, installs>>

\* A broadcast is lost, or reaches no primary.
Lose ==
    /\ losses < MaxLosses /\ losses' = losses + 1
    /\ \E n \in wire : wire' = wire \ {n}
    /\ UNCHANGED <<call, commands, budget, loop, retired, next_request, pending, number, releasing,
                   executed, applied, installs>>

\* The local replica installs a peer's checkpoint: it skips the ops in it, with no event.
Install ==
    /\ installs < MaxInstalls /\ installs' = installs + 1
    /\ loop = "running" /\ ~releasing /\ ~retired /\ applied < executed
    /\ applied' = executed
    /\ UNCHANGED <<call, commands, budget, loop, retired, next_request, pending, number, releasing,
                   wire, executed, losses>>

Loop ==
    \/ \E x \in Calls : HandleSubmit(x)
    \/ HandleShutdown \/ Teardown \/ reap_and_collect_retransmits \/ Committed
    \/ DropReservation

DriverNext ==
    \/ Loop \/ Execute
    \/ Retire \/ Lose \/ Install \/ RequestShutdown

\* Tasks that each submit one request through a clone of the handle.
DirectCalls == \E x \in Calls : Gate(x) \/ Reserve(x) \/ Send(x) \/ Cancel(x)

DirectSpec == DriverInit /\ [][DriverNext \/ DirectCalls]_driverVars

\* The run loop and the callers are scheduled; a request broadcast again and again reaches
\* the primary. Nothing obliges a node to retire, to shut down or to lose a message.
DriverFairness ==
    /\ WF_driverVars(\E x \in Calls : HandleSubmit(x))
    /\ WF_driverVars(HandleShutdown) /\ WF_driverVars(Teardown)
    /\ WF_driverVars(reap_and_collect_retransmits) /\ WF_driverVars(Committed)
    /\ WF_driverVars(DropReservation)
    /\ WF_driverVars(Execute)

-----------------------------------------------------------------------------
Outcomes == {"reply", "Busy", "DriverGone", "ReplyDropped", "Retired"}

DriverTypeOK ==
    /\ call \in [Calls -> {"idle", "gated", "reserved", "waiting", "cancelled"} \cup Outcomes]
    /\ commands \in Seq(Calls \cup {ShutdownCommand}) /\ Len(commands) <= CmdCap
    /\ budget \in 0 .. MaxInflight
    /\ loop \in {"running", "quiescing", "stopped"} /\ {retired, releasing} \subseteq BOOLEAN
    /\ number \in [Calls -> 0 .. next_request] /\ DOMAIN pending \subseteq 1 .. next_request
    /\ Waiters \subseteq Calls /\ applied <= executed /\ executed <= next_request

\* The budget is exactly the reservations alive somewhere: with a submit about to send, in
\* the command channel, or in the pending map. Whichever way a submit ends (a commit, a
\* cancellation, a refused send, a retirement, a shutdown) its slot is given back once.
BudgetExact ==
    budget = Cardinality({x \in Calls : call[x] = "reserved"})
             + Cardinality({i \in DOMAIN commands : commands[i] # ShutdownCommand})
             + Cardinality(DOMAIN pending) + (IF releasing THEN 1 ELSE 0)

\* What a submit returns is true of the cluster: a reply means its own request was executed,
\* and Busy or DriverGone that it never reached the session, so it may be sent again.
OutcomeTruthful ==
    \A x \in Calls :
        /\ call[x] = "reply" => number[x] \in 1 .. executed
        /\ call[x] \in {"Busy", "DriverGone"} => number[x] = 0

\* Once the run loop is gone nobody waits for it (drain_pending, and the drain of the
\* command channel after it is closed).
NoneStranded == loop = "stopped" => \A x \in Calls : call[x] # "waiting"

\* What leaves a request of the session without an answer: a number that was minted and then
\* given up before the primary saw it (a gap no later request passes), and an op that the
\* local replica skipped by installing a checkpoint (it emits no Committed event).
Skipped == installs > 0 \/ \E x \in Calls : call[x] = "cancelled"

\* Every submit that was sent has been answered.
SubmitsAnswered == Skipped \/ \A x \in Calls : call[x] # "waiting"
=============================================================================
