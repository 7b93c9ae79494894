----------------------------- MODULE Aggregator -----------------------------
(***************************************************************************)
(* The batching aggregator over the driver's handle: callers queue units   *)
(* or whole groups, one pump packs them into bodies, submits one body at a *)
(* time and hands the answers back.  A body is a submit of ClientDriver.   *)
(***************************************************************************)
EXTENDS ClientDriver, Functions, Sums

CONSTANTS
    Callers,     \* tasks, each with a clone of the BatchHandle and one entry to queue
    Weight,      \* the units of each caller's entry: 1, or a group's
    MaxUnits,    \* BodyLimits::max_units
    MaxQueued,   \* the count limit of the queue's own budget
    Quitters,    \* the callers that may drop their future
    MayStall     \* whether the pump was built with a stall deadline

\* There is a submit for every body: at most one for each caller.
ASSUME AggregatorAssumption ==
    /\ IsFiniteSet(Callers) /\ Weight \in [Callers -> Nat]
    /\ MaxUnits \in Nat /\ MaxQueued \in Nat
    /\ 1 .. Cardinality(Callers) \subseteq Calls

VARIABLES
    entry,       \* where each caller's entry is, or how it ended
    queue,       \* QueueState::entries
    closed,      \* QueueState::closed
    waker,       \* QueueState::waker is set
    handles,     \* the callers whose clone of the handle is alive
    queued,      \* units reserved in the queue's budget
    pump,        \* where AggregatorPump::run is
    deferred,    \* AggregatorPump::deferred
    packed,      \* entries of the open body
    in_flight,   \* callers of the body that is with the driver
    bodies       \* every body submitted so far, with its callers

queueVars == <<entry, queue, closed, waker, handles, queued>>
pumpVars == <<pump, deferred, packed, in_flight, bodies>>
aggVars == <<queueVars, pumpVars>>

AggInit ==
    /\ entry = [c \in Callers |-> "idle"]
    /\ queue = <<>> /\ closed = FALSE /\ waker = FALSE /\ handles = Callers /\ queued = 0
    /\ pump = "fetch" /\ deferred = <<>> /\ packed = <<>> /\ in_flight = <<>> /\ bodies = <<>>

\* The units of a sequence of entries.
Units(s) == SumOver(DOMAIN s, [i \in DOMAIN s |-> Weight[s[i]]])

\* The oneshots of the callers in s get the verdict v; a caller that is gone does not see it.
resolve_all(e, s, v) ==
    [c \in Callers |-> IF c \in Range(s) /\ e[c] \in {"queued", "in_flight"} THEN v ELSE e[c]]

-----------------------------------------------------------------------------
(* BatchHandle. *)

admits(c) == Weight[c] <= MaxUnits

\* submit and submit_group up to their reservation.
submit_group(c) ==
    /\ entry[c] = "idle" /\ c \in handles
    /\ IF ~admits(c) \/ queued + Weight[c] > MaxQueued
       THEN entry' = [entry EXCEPT ![c] = "Refused"] /\ UNCHANGED queued
       ELSE entry' = [entry EXCEPT ![c] = "reserved"] /\ queued' = queued + Weight[c]
    /\ UNCHANGED <<queue, closed, waker, handles, pumpVars, driverVars>>

Wake == waker' = FALSE /\ pump' = IF waker /\ pump = "parked" THEN "fetch" ELSE pump

\* A push that leaves the parked pump asleep.
send_silently(c) ==
    /\ entry[c] = "reserved"
    /\ IF closed
       THEN entry' = [entry EXCEPT ![c] = "Refused"] /\ queued' = queued - Weight[c]
            /\ UNCHANGED queue
       ELSE entry' = [entry EXCEPT ![c] = "queued"] /\ queue' = Append(queue, c)
            /\ UNCHANGED queued
    /\ UNCHANGED <<pump, waker, closed, handles, deferred, packed, in_flight, bodies, driverVars>>

\* The push under the queue lock: a closed queue refuses, an open one wakes the pump.
send(c) ==
    /\ entry[c] = "reserved"
    /\ IF closed
       THEN entry' = [entry EXCEPT ![c] = "Refused"] /\ queued' = queued - Weight[c]
            /\ UNCHANGED <<queue, waker, pump>>
       ELSE entry' = [entry EXCEPT ![c] = "queued"] /\ queue' = Append(queue, c) /\ Wake
            /\ UNCHANGED queued
    /\ UNCHANGED <<closed, handles, deferred, packed, in_flight, bodies, driverVars>>

\* The caller drops its future.
CancelEntry(c) ==
    /\ c \in Quitters /\ entry[c] \in {"queued", "in_flight"}
    /\ entry' = [entry EXCEPT ![c] = "cancelled"]
    /\ UNCHANGED <<queue, closed, waker, handles, queued, pumpVars, driverVars>>

\* Drop of a BatchHandle: the last one wakes the pump.
DropHandle(c) ==
    /\ c \in handles /\ entry[c] \notin {"reserved", "queued", "in_flight"}
    /\ handles' = handles \ {c}
    /\ IF handles' = {} THEN Wake ELSE UNCHANGED <<waker, pump>>
    /\ UNCHANGED <<entry, queue, closed, queued, deferred, packed, in_flight, bodies, driverVars>>

-----------------------------------------------------------------------------
(* AggregatorPump. *)

Body == Len(bodies)

\* The end of the pump: what is with the driver is of unknown outcome, what never left is
\* refused, and the queue is closed under its lock so that later sends are refused.
Close ==
    /\ pump' = "done" /\ closed' = TRUE /\ waker' = FALSE
    /\ entry' = resolve_all(resolve_all(entry, in_flight, "OutcomeUnknown"),
                            deferred \o queue, "Refused")
    /\ queued' = queued - Units(deferred \o queue)
    /\ deferred' = <<>> /\ queue' = <<>> /\ in_flight' = <<>>
    /\ UNCHANGED <<handles, packed, bodies>>

\* The pump takes the first entry, parks on an empty queue, or ends with the last handle.
Fetch ==
    /\ pump = "fetch"
    /\ \/ deferred # <<>> /\ pump' = "pack" /\ UNCHANGED <<queueVars, deferred, packed, in_flight, bodies>>
       \/ /\ deferred = <<>> /\ queue # <<>>
          /\ deferred' = <<Head(queue)>> /\ queue' = Tail(queue) /\ pump' = "pack"
          /\ UNCHANGED <<entry, closed, waker, handles, queued, packed, in_flight, bodies>>
       \/ /\ deferred = <<>> /\ queue = <<>> /\ (closed \/ handles = {})
          /\ Close
       \/ /\ deferred = <<>> /\ queue = <<>> /\ ~closed /\ handles # {}
          /\ waker' = TRUE /\ pump' = "parked"
          /\ UNCHANGED <<entry, queue, closed, handles, queued, deferred, packed, in_flight, bodies>>
    /\ UNCHANGED driverVars

\* pop: the deferred entries go first.
Popping == IF deferred # <<>> THEN Head(deferred) ELSE Head(queue)
Pop == IF deferred # <<>> THEN deferred' = Tail(deferred) /\ UNCHANGED queue
          ELSE queue' = Tail(queue) /\ UNCHANGED deferred

fits_open_body(c) == Units(packed) + Weight[c] <= MaxUnits

\* A pump that puts an entry that does not fit behind the queue.
PackRotating ==
    /\ pump = "pack" /\ deferred \o queue # <<>>
    /\ \/ /\ entry[Popping] = "cancelled" /\ Pop
          /\ queued' = queued - Weight[Popping] /\ UNCHANGED <<packed, pump>>
       \/ /\ entry[Popping] # "cancelled" /\ fits_open_body(Popping) /\ Pop
          /\ packed' = Append(packed, Popping) /\ UNCHANGED <<queued, pump>>
       \/ /\ entry[Popping] # "cancelled" /\ ~fits_open_body(Popping)
          /\ pump' = "packed" /\ UNCHANGED <<queued, packed>>
          /\ deferred' = <<>>
          /\ queue' = Append(IF deferred # <<>> THEN queue ELSE Tail(queue), Popping)
    /\ UNCHANGED <<entry, closed, waker, handles, in_flight, bodies, driverVars>>

\* One entry into the open body: a cancelled one is dropped, one that does not fit is put
\* back whole at the front and closes the body.
Pack ==
    /\ pump = "pack" /\ deferred \o queue # <<>>
    /\ \/ /\ entry[Popping] = "cancelled" /\ Pop
          /\ queued' = queued - Weight[Popping] /\ UNCHANGED <<packed, pump>>
       \/ /\ entry[Popping] # "cancelled" /\ fits_open_body(Popping) /\ Pop
          /\ packed' = Append(packed, Popping) /\ UNCHANGED <<queued, pump>>
       \/ /\ entry[Popping] # "cancelled" /\ ~fits_open_body(Popping)
          /\ pump' = "packed" /\ UNCHANGED <<queued, packed>>
          /\ deferred' = <<Popping>> \o (IF deferred # <<>> THEN Tail(deferred) ELSE deferred)
          /\ queue' = IF deferred # <<>> THEN queue ELSE Tail(queue)
    /\ UNCHANGED <<entry, closed, waker, handles, in_flight, bodies, driverVars>>

\* The body is closed: its callers are staged before the submit is polled.
HandOff ==
    /\ \/ pump = "packed"
       \/ pump = "pack" /\ deferred = <<>> /\ queue = <<>>
    /\ IF packed = <<>>
       THEN pump' = "fetch" /\ UNCHANGED <<bodies, in_flight, entry>>
       ELSE /\ pump' = "submit" /\ bodies' = Append(bodies, packed) /\ in_flight' = packed
            /\ entry' = [c \in Callers |-> IF c \in Range(packed) /\ entry[c] = "queued"
                                           THEN "in_flight" ELSE entry[c]]
    /\ UNCHANGED <<queue, closed, waker, handles, queued, deferred, packed, driverVars>>

\* A verdict that reads a dropped reply as a refusal.
submit_failure_refusing(err) == "Refused"

\* What a failed submit says of the units in it: only an error that admitted no command
\* lets the callers try again.
submit_failure(err) == IF err \in {"DriverGone", "Busy"} THEN "Refused" ELSE "OutcomeUnknown"

\* demux of a reply: the units' own replies, or a body the state machine answered badly.
Verdicts == IF call[Body] = "reply" THEN {"reply", "CommittedReplyLost"}
            ELSE {submit_failure(call[Body])}

Resolved ==
    /\ call[Body] \in Outcomes
    /\ \E v \in Verdicts : entry' = resolve_all(entry, in_flight, v)
    /\ in_flight' = <<>> /\ pump' = "fetch"

\* The reservations of a body are kept for as long as it is in flight, and then forgotten.
FirstPollHolding ==
    /\ pump = "submit" /\ call[Body] \notin {"idle", "gated", "reserved"}
    /\ packed' = <<>> /\ UNCHANGED queued
    /\ \/ Resolved
       \/ call[Body] \notin Outcomes /\ pump' = "race" /\ UNCHANGED <<entry, in_flight>>
    /\ UNCHANGED <<queue, closed, waker, handles, deferred, bodies, driverVars>>

\* The first poll of the submit is over: the queue's reservations of the body are given back.
FirstPoll ==
    /\ pump = "submit" /\ call[Body] \notin {"idle", "gated", "reserved"}
    /\ queued' = queued - Units(packed) /\ packed' = <<>>
    /\ \/ Resolved
       \/ call[Body] \notin Outcomes /\ pump' = "race" /\ UNCHANGED <<entry, in_flight>>
    /\ UNCHANGED <<queue, closed, waker, handles, deferred, bodies, driverVars>>

\* The race is won by the driver's answer.
Answer ==
    /\ pump = "race" /\ Resolved
    /\ UNCHANGED <<queue, closed, waker, handles, queued, deferred, packed, bodies, driverVars>>

DropSubmit ==
    /\ call' = [x \in Calls |-> IF x = Body /\ call[x] = "waiting" THEN "cancelled" ELSE call[x]]
    /\ UNCHANGED <<commands, budget, loop, retired, next_request, pending, number, releasing, clusterVars>>

\* A pump that goes on with the next body after a stall.
StalledContinuing ==
    /\ MayStall /\ pump = "race" /\ call[Body] \notin Outcomes
    /\ entry' = resolve_all(entry, in_flight, "OutcomeUnknown") /\ in_flight' = <<>> /\ pump' = "fetch"
    /\ DropSubmit
    /\ UNCHANGED <<queue, closed, waker, handles, queued, deferred, packed, bodies>>

\* The race is won by the stall timer.
Stalled ==
    /\ MayStall /\ pump = "race" /\ call[Body] \notin Outcomes
    /\ Close /\ DropSubmit

\* The race is won by the last caller of the body giving up.
Abandoned ==
    /\ pump = "race" /\ call[Body] \notin Outcomes
    /\ \A c \in Range(in_flight) : entry[c] = "cancelled"
    /\ Close /\ DropSubmit

\* Drop of the pump: its run future is cancelled where it awaits.
DropPump ==
    /\ pump \in {"parked", "race"}
    /\ Close /\ DropSubmit

-----------------------------------------------------------------------------
PumpStep == Fetch \/ Pack \/ HandOff \/ FirstPoll \/ Answer

\* The pump polls its submit; the handle's code runs on the pump's thread.
PollSubmit == pump = "submit" /\ (Gate(Body) \/ Reserve(Body) \/ Send(Body)) /\ UNCHANGED aggVars

AggNext ==
    \/ PumpStep \/ PollSubmit \/ Stalled \/ Abandoned \/ DropPump
    \/ \E c \in Callers : submit_group(c) \/ send(c) \/ CancelEntry(c) \/ DropHandle(c)

AggSpec ==
    /\ DriverInit /\ AggInit
    /\ [][AggNext \/ (DriverNext /\ UNCHANGED aggVars)]_<<driverVars, aggVars>>

-----------------------------------------------------------------------------
AggTypeOK ==
    /\ entry \in [Callers -> {"idle", "reserved", "queued", "in_flight", "cancelled", "reply",
                              "Refused", "OutcomeUnknown", "CommittedReplyLost"}]
    /\ {queue, deferred, packed, in_flight} \subseteq Seq(Callers) /\ Body <= Cardinality(Calls)
    /\ closed \in BOOLEAN /\ waker \in BOOLEAN /\ handles \subseteq Callers
    /\ queued \in 0 .. MaxQueued
    /\ pump \in {"fetch", "parked", "pack", "packed", "submit", "race", "done"}

\* The queue's budget is what its entries reserved, wherever they are before the first poll
\* of their submit: no path (cancelled, refused, deferred, closed, handed off) leaks a unit.
QueueBudgetExact ==
    queued = SumOver({c \in Callers : entry[c] = "reserved"}, Weight)
             + Units(queue) + Units(deferred) + Units(packed)

BodiesOf(c) == {b \in 1 .. Body : c \in Range(bodies[b])}

\* What a caller is told is true of its units: Refused means that no body with them ever
\* entered the session, so a retry cannot apply them twice; a reply, or a reply that was
\* lost, means that they were executed (submit_failure, demux, Drop for AggregatorPump).
VerdictTruthful ==
    \A c \in Callers :
        /\ entry[c] = "Refused" => \A b \in BodiesOf(c) : number[b] = 0
        /\ entry[c] \in {"reply", "CommittedReplyLost"} => \E b \in BodiesOf(c) : number[b] \in 1 .. executed

\* One body at a time: a body enters the session only when every body before it that entered
\* was executed, so units are applied in the order in which they were queued.
OneInFlight ==
    \A a, b \in 1 .. Body : a < b /\ number[a] # 0 /\ number[b] # 0 => number[a] \in 1 .. executed

\* First come, first packed: what still waits after a step of the pump is the end of what
\* waited before it, so no entry is overtaken by one queued after it, a group that did not
\* fit the open body included (the push_front of run).
FirstComeFirstPacked ==
    [][LET waiting == deferred \o queue
           left    == SelectSeq(deferred' \o queue', LAMBDA c : c \in Range(waiting))
       IN  left = SubSeq(waiting, Len(waiting) - Len(left) + 1, Len(waiting))]_aggVars

\* Every queued entry has been answered: the pump is not asleep with work in its queue.
EntriesAnswered == Skipped \/ \A c \in Callers : entry[c] \notin {"queued", "in_flight"}
=============================================================================
