-------------------------- MODULE AggregatorProofs --------------------------
(***************************************************************************)
(* Proofs about the batching aggregator and the driver it runs over, for   *)
(* any number of callers with entries of any weight: the steps of AggInv   *)
(* with a body at the driver, and the theorems.  AggInv is inductive       *)
(* together with DriverInv of DriverProofs.                                *)
(***************************************************************************)
EXTENDS AggregatorPackProofs

-----------------------------------------------------------------------------
(* A body with the driver. *)

\* A sequence with one element more.
LEMMA AppendFacts ==
    ASSUME NEW S, NEW s \in Seq(S), NEW x \in S
    PROVE  /\ Append(s, x) \in Seq(S) /\ Len(Append(s, x)) = Len(s) + 1
           /\ \A i \in 1 .. Len(s) : Append(s, x)[i] = s[i]
           /\ Append(s, x)[Len(s) + 1] = x
  BY AppendProperties

\* The body is closed and handed to the driver.
LEMMA HandOffInv ==
    ASSUME DriverInv, AggInv, HandOff
    PROVE  AggInv'
<1> USE DEF AggInv
<1>1. /\ pump \in {"pack", "packed"}
      /\ UNCHANGED <<queue, closed, waker, handles, queued, deferred, packed, call, number, executed>>
  BY DEF HandOff, driverVars
<1>2. CASE packed = <<>>
  <2>1. pump' = "fetch" /\ UNCHANGED <<bodies, in_flight, entry>>
    BY <1>2 DEF HandOff
  <2>2. waker' \in BOOLEAN /\ handles' \subseteq Callers
    BY <1>1 DEF AggTypes
  <2> QED BY <1>1, <1>2, <2>1, <2>2, PumpWakesInv
<1>3. CASE packed # <<>>
  <2>1. /\ pump' = "submit" /\ bodies' = Append(bodies, packed) /\ in_flight' = packed
        /\ entry' = [c \in Callers |-> IF c \in Range(packed) /\ entry[c] = "queued"
                                       THEN "in_flight" ELSE entry[c]]
    BY <1>3 DEF HandOff
  <2>2. ~Flying /\ Flying' /\ pump # "done" /\ pump' = "submit"
    BY <1>1, <2>1 DEF Flying
  <2>3. /\ bodies' \in Seq(Seq(Callers)) /\ Body' = Body + 1 /\ Body \in Nat
        /\ \A b \in 1 .. Body : bodies'[b] = bodies[b]
        /\ bodies'[Body + 1] = packed
    <3>1. bodies \in Seq(Seq(Callers)) /\ packed \in Seq(Callers)
      BY DEF AggTypes
    <3> DEFINE more == Append(bodies, packed)
    <3>2. /\ more \in Seq(Seq(Callers)) /\ Len(more) = Len(bodies) + 1
          /\ (\A b \in 1 .. Len(bodies) : more[b] = bodies[b]) /\ more[Len(bodies) + 1] = packed
      BY <3>1, AppendFacts, Zenon
    <3>3. Len(bodies) \in Nat
      BY <3>1, LenProperties, Zenon
    <3>4. bodies' = more
      BY <2>1, Zenon
    <3> HIDE DEF more
    <3> QED BY <3>2, <3>3, <3>4, Zenon DEF Body
  <2>4. \A c : BodiesOf(c)' = IF c \in Range(packed) THEN BodiesOf(c) \cup {Body + 1} ELSE BodiesOf(c)
    <3> TAKE c
    <3>1. BodiesOf(c)' = {b \in 1 .. (Body + 1) : c \in Range(bodies'[b])}
      BY <2>3 DEF BodiesOf
    <3>2. \A b : b \in 1 .. (Body + 1) <=> b \in 1 .. Body \/ b = Body + 1
      BY <2>3
    <3>3. \A b \in 1 .. Body : Range(bodies'[b]) = Range(bodies[b])
      BY <2>3
    <3>4. Range(bodies'[Body + 1]) = Range(packed)
      BY <2>3
    <3>5. BodiesOf(c) = {b \in 1 .. Body : c \in Range(bodies[b])}
      BY DEF BodiesOf
    <3> QED BY <3>1, <3>2, <3>3, <3>4, <3>5, Zenon
  <2>5. \A c \in Range(packed) : Waits(c) /\ c \in Callers
    BY <2>2, AggRanges DEF EntriesPlaced
  <2>6. \A c \in Callers : entry'[c] = IF c \in Range(packed) /\ entry[c] = "queued"
                                       THEN "in_flight" ELSE entry[c]
    BY <2>1
  <2>7. BodiesDisjoint'
    <3>1. ASSUME NEW b \in 1 .. Body' PROVE bodies'[b] # <<>>
      <4>1. CASE b \in 1 .. Body
        <5>1. bodies'[b] = bodies[b] /\ bodies[b] # <<>>
          BY <2>3, <4>1, Zenon DEF BodiesDisjoint
        <5> QED BY <5>1
      <4>2. CASE b = Body + 1
        BY <1>3, <2>3, <4>2
      <4> QED BY <2>3, <3>1, <4>1, <4>2
    <3>2. \A a \in 1 .. Body : Range(bodies[a]) \cap Range(packed) = {}
      <4>1. \A c \in Range(packed) : BodiesOf(c) = {}
        BY <2>5 DEF Waits
      <4> QED BY <4>1, Zenon DEF BodiesOf
    <3>3. ASSUME NEW a \in 1 .. Body', NEW b \in 1 .. Body', a # b
          PROVE  Range(bodies'[a]) \cap Range(bodies'[b]) = {}
      <4>1. CASE a \in 1 .. Body /\ b \in 1 .. Body
        <5>1. bodies'[a] = bodies[a] /\ bodies'[b] = bodies[b]
          BY <2>3, <4>1
        <5>2. Range(bodies[a]) \cap Range(bodies[b]) = {}
          BY <3>3, <4>1, Zenon DEF BodiesDisjoint
        <5> QED BY <5>1, <5>2, Zenon
      <4>2. CASE a \in 1 .. Body /\ b = Body + 1
        BY <2>3, <3>2, <4>2
      <4>3. CASE a = Body + 1 /\ b \in 1 .. Body
        BY <2>3, <3>2, <4>3
      <4> QED BY <2>3, <3>3, <4>1, <4>2, <4>3
    <3> QED BY <3>1, <3>3 DEF BodiesDisjoint
  <2>8. Body + 1 \in Calls
    <3>1. /\ \A b \in 1 .. Len(bodies') : bodies'[b] # <<>>
          /\ \A a, b \in 1 .. Len(bodies') : a # b => Range(bodies'[a]) \cap Range(bodies'[b]) = {}
      BY <2>7, Zenon DEF BodiesDisjoint, Body
    <3>2. 1 .. Len(bodies') \subseteq Calls
      BY <2>3, <3>1, BodiesFit, Zenon
    <3>3. Len(bodies') = Body + 1 /\ Body + 1 \in 1 .. (Body + 1)
      BY <2>3 DEF Body
    <3> QED BY <3>2, <3>3
  <2>9. call[Body + 1] = "idle" /\ number[Body + 1] = 0
    <3>1. call[Body + 1] = "idle"
      BY <2>3, <2>8 DEF OnlyLast
    <3> QED BY <2>8, <3>1 DEF DriverInv, Places
  <2>10. OneInFlight'
    <3>1. number' = number /\ executed' = executed
      BY <1>1
    <3> QED BY <2>3, <2>9, <3>1 DEF OneInFlight
  <2>11. AggTypes'
    <3>1. entry' \in [Callers -> {"idle", "reserved", "queued", "in_flight", "cancelled", "reply",
                                  "Refused", "OutcomeUnknown", "CommittedReplyLost"}]
      BY <2>1 DEF AggTypes
    <3> QED BY <1>1, <2>1, <2>3, <3>1 DEF AggTypes
  <2>12. PumpHolds'
    BY <1>1, <2>1, <2>2, <2>3 DEF PumpHolds
  <2>13. EntriesPlaced'
    <3>1. queue' = queue /\ deferred' = deferred /\ packed' = packed
      BY <1>1
    <3>2. \A c \in Range(queue) \cup Range(deferred) :
            c \in Callers /\ c \notin Range(packed) /\ Waits(c)
      BY AggRanges DEF EntriesPlaced
    <3>3. \A c \in Range(queue) \cup Range(deferred) : Waits(c)'
      BY <2>4, <2>6, <3>2 DEF Waits
    <3>4. \A c \in Callers : entry'[c] \in {"idle", "reserved"} => BodiesOf(c)' = {}
      BY <2>4, <2>5, <2>6 DEF EntriesPlaced, Waits
    <3> QED BY <2>2, <3>1, <3>3, <3>4 DEF EntriesPlaced
  <2>14. VerdictsFollow'
    <3>1. call' = call
      BY <1>1
    <3>2. ASSUME NEW c \in Callers, entry'[c] \in {"Refused", "reply", "CommittedReplyLost"}
          PROVE  entry'[c] = entry[c] /\ BodiesOf(c)' = BodiesOf(c)
      BY <2>4, <2>5, <2>6, <3>2 DEF Waits
    <3> QED BY <3>1, <3>2 DEF VerdictsFollow
  <2>15. OnlyLast'
    <3>1. \A x \in Calls : x \in Nat
      BY DriverAssumption
    <3>2. call' = call
      BY <1>1
    <3>3. \A x \in Calls : x > Body + 1 => call[x] = "idle"
      BY <2>3, <3>1 DEF OnlyLast
    <3>4. \A x \in Calls : x < Body + 1 => call[x] \in Outcomes
      BY <2>2, <2>3, <3>1 DEF OnlyLast
    <3> QED BY <2>2, <2>3, <3>2, <3>3, <3>4 DEF OnlyLast
  <2>16. QueuedExact'
    <3>1. Unsent' = Unsent
      BY <2>6 DEF Unsent
    <3>2. /\ queued' = queued /\ queue' = queue /\ deferred' = deferred /\ packed' = packed
      BY <1>1
    <3> QED BY <3>1, <3>2 DEF QueuedExact
  <2> QED BY <2>7, <2>10, <2>11, <2>12, <2>13, <2>14, <2>15, <2>16
<1> QED BY <1>2, <1>3

\* The callers of the body with the driver are in no other body.
LEMMA FlyingBody ==
    ASSUME AggInv, Flying
    PROVE  /\ Body \in Calls /\ in_flight = bodies[Body]
           /\ \A c \in Range(in_flight) : c \in Callers /\ BodiesOf(c) = {Body}
<1> USE DEF AggInv
<1>1. Body \in 1 .. Body /\ in_flight = bodies[Body]
  BY AggRanges DEF PumpHolds
<1>2. Body \in Calls
  BY <1>1, BodiesAreCalls
<1>3. \A b \in 1 .. Body : b # Body => Range(bodies[b]) \cap Range(in_flight) = {}
  <2>1. \A a, b \in 1 .. Body : a # b => Range(bodies[a]) \cap Range(bodies[b]) = {}
    BY Zenon DEF BodiesDisjoint
  <2> QED BY <1>1, <2>1, Zenon
<1>4. ASSUME NEW c \in Range(in_flight) PROVE c \in Callers /\ BodiesOf(c) = {Body}
  <2>1. c \in Callers
    BY AggRanges
  <2>2. \A b \in 1 .. Body : c \in Range(bodies[b]) <=> b = Body
    BY <1>1, <1>3
  <2> QED BY <1>1, <2>1, <2>2, Zenon DEF BodiesOf
<1> QED BY <1>1, <1>2, <1>4

\* The driver's answer is handed to the callers of the body.
LEMMA ResolvedInv ==
    ASSUME AggInv, Flying, Resolved, packed' = <<>>,
           queued' = queued - SumOver(Range(packed), Weight),
           UNCHANGED <<queue, closed, waker, handles, deferred, bodies, call, number, executed>>
    PROVE  AggInv'
<1> USE DEF AggInv
<1>1. PICK v \in Verdicts : entry' = resolve_all(entry, in_flight, v)
  BY DEF Resolved
<1>2. call[Body] \in Outcomes /\ in_flight' = <<>> /\ pump' = "fetch"
  BY DEF Resolved
<1>3. Body' = Body /\ \A d : BodiesOf(d)' = BodiesOf(d)
  BY SameBodies
<1>4. /\ v \in {"reply", "CommittedReplyLost", "Refused", "OutcomeUnknown"}
      /\ v = "Refused" => call[Body] \in {"Busy", "DriverGone"}
      /\ v \in {"reply", "CommittedReplyLost"} => call[Body] = "reply"
  BY DEF Verdicts, submit_failure
<1>5. \A c \in Callers : entry'[c] = IF c \in Range(in_flight) /\ entry[c] \in {"queued", "in_flight"}
                                     THEN v ELSE entry[c]
  BY <1>1, ResolveAll
<1>6. ~Flying' /\ pump # "done" /\ pump' # "done"
  BY <1>2 DEF Flying
<1>7. AggTypes'
  <2>1. entry' \in [Callers -> {"idle", "reserved", "queued", "in_flight", "cancelled", "reply",
                                "Refused", "OutcomeUnknown", "CommittedReplyLost"}]
    BY <1>1, <1>4 DEF AggTypes, resolve_all
  <2>2. closed' \in BOOLEAN /\ waker' \in BOOLEAN
    BY DEF AggTypes
  <2> QED BY <1>2, <2>1, <2>2, NothingIn DEF AggTypes
<1>8. PumpHolds'
  BY <1>2, <1>6 DEF PumpHolds
<1>9. EntriesPlaced'
  <2>1. Range(packed') = {} /\ Distinct(packed') /\ queue' = queue /\ deferred' = deferred
    BY NothingIn
  <2>2. \A c \in Range(queue) \cup Range(deferred) : c \in Callers /\ Waits(c) /\ c \notin Range(in_flight)
    <3>1. \A c \in Range(queue) \cup Range(deferred) : c \in Callers /\ Waits(c)
      BY AggRanges DEF EntriesPlaced
    <3>2. \A c \in Range(in_flight) : BodiesOf(c) = {Body}
      BY FlyingBody, Zenon
    <3>3. \A c \in Range(in_flight) : ~Waits(c)
      BY <3>2 DEF Waits
    <3> QED BY <3>1, <3>3, Zenon
  <2>3. \A c \in Range(queue) \cup Range(deferred) : Waits(c)'
    BY <1>3, <1>5, <2>2 DEF Waits
  <2>4. \A c \in Callers : entry'[c] \in {"idle", "reserved"} => BodiesOf(c)' = {}
    BY <1>3, <1>4, <1>5 DEF EntriesPlaced
  <2> QED BY <2>1, <2>3, <2>4 DEF EntriesPlaced
<1>10. BodiesDisjoint' /\ OneInFlight'
  BY BodiesStay
<1>11. VerdictsFollow'
  <2> SUFFICES ASSUME NEW c \in Callers
               PROVE  /\ entry'[c] = "Refused" => \A b \in BodiesOf(c) : call[b] \in {"Busy", "DriverGone"}
                      /\ entry'[c] \in {"reply", "CommittedReplyLost"} => \E b \in BodiesOf(c) : call[b] = "reply"
    BY <1>3 DEF VerdictsFollow
  <2>1. CASE entry'[c] = entry[c]
    BY <2>1 DEF VerdictsFollow
  <2>2. CASE c \in Range(in_flight) /\ entry'[c] = v
    BY <1>4, <2>2, FlyingBody
  <2> QED BY <1>5, <2>1, <2>2
<1>12. OnlyLast'
  <2>1. \A x \in Calls : x \in Nat
    BY DriverAssumption
  <2>2. \A x \in Calls : x < Body => call[x] \in Outcomes
    BY <1>6 DEF OnlyLast
  <2>3. \A x \in Calls : x > Body => call[x] = "idle"
    BY DEF OnlyLast
  <2>4. call' = call
    OBVIOUS
  <2> QED BY <1>2, <1>3, <1>6, <2>2, <2>3, <2>4 DEF OnlyLast
<1>13. QueuedExact'
  <2>1. Unsent' = Unsent
    BY <1>4, <1>5 DEF Unsent
  <2>2. SumOver(Range(packed'), Weight) = 0 /\ queue' = queue /\ deferred' = deferred
    BY NothingIn
  <2> QED BY <2>1, <2>2, AggSums DEF QueuedExact
<1> QED BY <1>7, <1>8, <1>9, <1>10, <1>11, <1>12, <1>13

\* The first poll of the submit is over.
LEMMA FirstPollInv ==
    ASSUME AggInv, FirstPoll
    PROVE  AggInv'
<1>1. /\ pump = "submit" /\ call[Body] \notin {"idle", "gated", "reserved"}
      /\ queued' = queued - Units(packed) /\ packed' = <<>>
      /\ UNCHANGED <<queue, closed, waker, handles, deferred, bodies, call, number, executed>>
  BY DEF FirstPoll, driverVars
<1>2. queued' = queued - SumOver(Range(packed), Weight) /\ Flying
  <2>1. Units(packed) = SumOver(Range(packed), Weight)
    BY UnitsDistinct DEF AggInv, AggTypes, EntriesPlaced
  <2> QED BY <1>1, <2>1 DEF Flying
<1>3. CASE Resolved
  BY <1>1, <1>2, <1>3, ResolvedInv
<1>4. CASE call[Body] \notin Outcomes /\ pump' = "race" /\ UNCHANGED <<entry, in_flight>>
  <2> USE DEF AggInv
  <2>1. Body' = Body /\ \A d : BodiesOf(d)' = BodiesOf(d)
    BY <1>1, SameBodies
  <2>2. Flying' /\ pump # "done" /\ pump' = "race"
    BY <1>1, <1>4 DEF Flying
  <2>3. Range(packed') = {} /\ Distinct(packed') /\ packed' \in Seq(Callers)
        /\ SumOver(Range(packed'), Weight) = 0
    BY <1>1, NothingIn
  <2>4. /\ entry' = entry /\ queue' = queue /\ deferred' = deferred /\ bodies' = bodies
        /\ call' = call /\ number' = number /\ executed' = executed /\ in_flight' = in_flight
    BY <1>1, <1>4
  <2>5. AggTypes'
    BY <1>1, <2>2, <2>3, <2>4 DEF AggTypes
  <2>6. PumpHolds'
    BY Zenon, <1>1, <1>2, <2>1, <2>2, <2>4 DEF PumpHolds
  <2>7. EntriesPlaced'
    BY <2>1, <2>2, <2>3, <2>4 DEF EntriesPlaced, Waits
  <2>8. BodiesDisjoint' /\ OneInFlight'
    BY <2>4, BodiesStay
  <2>9. VerdictsFollow'
    BY <2>1, <2>4 DEF VerdictsFollow
  <2>10. OnlyLast'
    BY <1>1, <1>2, <2>1, <2>2, <2>4 DEF OnlyLast
  <2>11. QueuedExact'
    <3>1. Unsent' = Unsent
      BY <2>4 DEF Unsent
    <3> QED BY <1>2, <2>3, <2>4, <3>1, AggSums DEF QueuedExact
  <2> QED BY <2>5, <2>6, <2>7, <2>8, <2>9, <2>10, <2>11
<1> QED BY <1>3, <1>4 DEF FirstPoll

\* The race is won by the driver's answer.
LEMMA AnswerInv ==
    ASSUME AggInv, Answer
    PROVE  AggInv'
<1>1. /\ pump = "race" /\ Resolved
      /\ UNCHANGED <<queue, closed, waker, handles, queued, deferred, packed, bodies, call, number, executed>>
  BY DEF Answer, driverVars
<1>2. packed = <<>> /\ Flying
  BY <1>1 DEF AggInv, PumpHolds, Flying
<1>3. queued' = queued - SumOver(Range(packed), Weight)
  <2>1. SumOver(Range(packed), Weight) = 0
    BY <1>2, NothingIn
  <2>2. queued' = queued /\ queued \in Int
    BY <1>1, AggSums DEF AggInv, QueuedExact
  <2> QED BY <2>1, <2>2
<1> QED BY <1>1, <1>2, <1>3, ResolvedInv

\* The pump ends with its submit dropped: a stall, an abandoned body, or its own drop.
LEMMA EndInv ==
    ASSUME DriverInv, AggInv, Stalled \/ Abandoned \/ DropPump
    PROVE  DriverInv' /\ AggInv'
<1>1. /\ pump \in {"parked", "race"} /\ Close
      /\ call' = [x \in Calls |-> IF x = Body /\ call[x] = "waiting" THEN "cancelled" ELSE call[x]]
      /\ UNCHANGED <<commands, budget, loop, retired, next_request, pending, number, releasing, wire,
                     executed, applied, losses, installs>>
  BY DEF Stalled, Abandoned, DropPump, DropSubmit, clusterVars
<1>2. AggInv'
  BY <1>1, CloseInv DEF DriverInv
<1>3. call \in [Calls -> {"idle", "gated", "reserved", "waiting", "cancelled"} \cup Outcomes]
  BY DEF DriverInv, DriverTypes
<1>4. CASE Body \in Calls /\ call[Body] = "waiting"
  <2>1. call' = [call EXCEPT ![Body] = "cancelled"]
    <3>1. call' = [x \in Calls |-> IF x = Body /\ call[x] = "waiting" THEN "cancelled" ELSE call[x]]
      BY <1>1
    <3>2. [call EXCEPT ![Body] = "cancelled"] = [x \in Calls |-> IF x = Body THEN "cancelled" ELSE call[x]]
      <4>1. DOMAIN call = Calls
        BY <1>3
      <4> QED BY <4>1, Zenon
    <3>3. call' = [x \in Calls |-> IF x = Body THEN "cancelled" ELSE call[x]]
      BY <1>4, <3>1
    <3> QED BY <3>2, <3>3, Zenon
  <2> QED BY <1>1, <1>2, <1>4, <2>1, CancelInv
<1>5. CASE ~(Body \in Calls /\ call[Body] = "waiting")
  <2>1. call' = call
    BY <1>1, <1>3, <1>5
  <2>2. UNCHANGED driverVars
    BY <1>1, <2>1 DEF driverVars
  <2> QED BY <1>2, <2>2, DriverNextInv
<1> QED BY <1>4, <1>5

\* A step of the driver, or of the submit the pump polls, as the aggregator sees it: a call that
\* has ended stays as it is, only the body in flight can take a number, and what is executed
\* stays executed.
LEMMA CallsEvolveInv ==
    ASSUME DriverInv, AggInv, UNCHANGED aggVars,
           \A x \in Calls : call'[x] = call[x]
                            \/ (call[x] = "waiting" /\ call'[x] \in Outcomes)
                            \/ (pump = "submit" /\ x = Body /\ call[x] \in {"idle", "gated", "reserved"}),
           executed <= executed', executed' \in Nat,
           \A x \in Calls : number'[x] = number[x]
                            \/ (x = Body /\ loop = "running" /\ ~retired /\ Flying)
    PROVE  AggInv'
<1> USE DEF AggInv
<1>1. /\ UNCHANGED <<entry, queue, closed, waker, handles, queued>>
      /\ UNCHANGED <<pump, deferred, packed, in_flight, bodies>>
  BY DEF aggVars, queueVars, pumpVars
<1>2. Body' = Body /\ Flying' = Flying /\ \A d : BodiesOf(d)' = BodiesOf(d)
  BY <1>1, SameBodies DEF Flying
<1>3. AggTypes' /\ PumpHolds'
  BY <1>1, <1>2 DEF AggTypes, PumpHolds
<1>4. EntriesPlaced'
  BY Zenon, <1>1, <1>2 DEF EntriesPlaced, Waits
<1>5. BodiesDisjoint' /\ QueuedExact'
  <2>1. BodiesDisjoint'
    BY <1>1, <1>2, Zenon DEF BodiesDisjoint
  <2> QED BY Zenon, <1>1, <2>1 DEF QueuedExact, Unsent
<1>6. 1 .. Body \subseteq Calls /\ \A c : BodiesOf(c) \subseteq 1 .. Body
  BY BodiesAreCalls, Zenon
<1>7. \A x \in 1 .. Body : x \in Calls /\ x \in Nat
  BY <1>6
<1>8. \A c : BodiesOf(c) \subseteq 1 .. Body
  BY <1>6, Zenon
<1>9. VerdictsFollow'
  <2>1. \A x \in Calls : call[x] \in {"Busy", "DriverGone", "reply"} => call'[x] = call[x]
    OBVIOUS
  <2> QED BY Zenon, <1>1, <1>2, <1>7, <1>8, <2>1 DEF VerdictsFollow
<1>10. OnlyLast'
  <2>1. \A x \in Calls : x \in Nat
    BY DriverAssumption, Zenon
  <2>2. Body \in Nat
    BY AggRanges, Zenon
  <2>3. ASSUME NEW x \in Calls, x > Body PROVE call'[x] = "idle"
    <3>1. call[x] = "idle" /\ x # Body
      BY <2>1, <2>3, <2>2 DEF OnlyLast
    <3> QED BY <3>1
  <2>4. \A x \in Calls : x < Body \/ (x = Body /\ ~Flying)
          => call'[x] \in Outcomes \/ (call'[x] = "cancelled" /\ pump = "done")
    BY <2>1, <2>2 DEF OnlyLast, Outcomes, Flying
  <2>5. pump = "race" => call'[Body] \notin {"idle", "gated", "reserved"}
    BY FlyingBody DEF OnlyLast, Outcomes, Flying
  <2> QED BY Zenon, <1>1, <1>2, <2>3, <2>4, <2>5 DEF OnlyLast
<1>11. OneInFlight'
  <2> SUFFICES ASSUME NEW a \in 1 .. Body, NEW b \in 1 .. Body, a < b, number'[a] # 0, number'[b] # 0
               PROVE  number'[a] \in 1 .. executed'
    BY <1>2 DEF OneInFlight
  <2>1. Body \in Nat /\ executed \in Nat /\ a \in Calls /\ b \in Calls
    BY <1>7, AggRanges DEF DriverInv, DriverTypes
  <2>2. number'[a] = number[a]
    BY <2>1
  <2>3. number[a] \in 1 .. executed
    <3>1. CASE number'[b] = number[b]
      BY <2>2, <3>1 DEF OneInFlight
    <3>2. CASE loop = "running" /\ ~retired /\ Flying
      <4>1. call[a] \in Outcomes
        BY <2>1, <3>2 DEF OnlyLast, Flying
      <4>2. call[a] \notin {"ReplyDropped", "Retired", "Busy", "DriverGone"}
        BY <2>1, <2>2, <3>2 DEF DriverInv, Endings, Places
      <4>3. call[a] = "reply"
        BY <4>1, <4>2 DEF Outcomes
      <4> QED BY <2>1, <4>3 DEF DriverInv, RepliesExecuted
    <3> QED BY <2>1, <3>1, <3>2
  <2> QED BY <2>1, <2>2, <2>3
<1> QED BY <1>3, <1>4, <1>5, <1>9, <1>10, <1>11

\* The steps of the driver are such steps.
LEMMA DriverStepInv ==
    ASSUME DriverInv, AggInv, DriverNext, UNCHANGED aggVars
    PROVE  AggInv'
<1> DEFINE Calling == \A x \in Calls : call'[x] = call[x] \/ (call[x] = "waiting" /\ call'[x] \in Outcomes)
           Executing == executed <= executed' /\ executed' \in Nat
           Minting == \A x \in Calls : number'[x] = number[x]
                                       \/ (x = Body /\ loop = "running" /\ ~retired /\ Flying)
<1> USE DEF DriverInv
<1>1. executed \in Nat /\ (executed' = executed \/ executed' = executed + 1 => Executing)
  BY DEF DriverTypes
<1>2. \A xs : \A reason \in Outcomes : call' = Dropped(xs, reason) => Calling
  BY DEF Dropped
<1>3. CASE \E x \in Calls : HandleSubmit(x)
  <2>1. PICK x \in Calls : HandleSubmit(x)
    BY <1>3
  <2>2. loop = "running" /\ executed' = executed /\ Head(commands) = x /\ commands # <<>>
    BY <2>1 DEF HandleSubmit
  <2>3. CASE retired \/ call[x] = "cancelled"
    <3>1. call' = Dropped({x}, "Retired") /\ number' = number
      BY <2>1, <2>3 DEF HandleSubmit
    <3>2. Calling /\ Executing /\ Minting
      <4>1. "Retired" \in Outcomes
        BY DEF Outcomes
      <4>2. Calling
        BY <1>2, <3>1, <4>1, Zenon
      <4>3. Executing /\ Minting
        <5>1. executed' = executed /\ number' = number
          BY <2>2, <3>1
        <5> QED BY <1>1, <5>1
      <4> QED BY <4>2, <4>3, Zenon
    <3> QED BY <3>2, CallsEvolveInv
  <2>4. CASE ~(retired \/ call[x] = "cancelled")
    <3>1. call' = call /\ number' = [number EXCEPT ![x] = next_request + 1]
      BY <2>1, <2>4 DEF HandleSubmit
    <3>2. x \in InChannel
      <4>1. commands \in Seq(Calls \cup {ShutdownCommand}) /\ Distinct(commands) /\ x # ShutdownCommand
        BY DriverAssumption DEF DriverTypes, Places, ShutdownCommand
      <4>2. x \in Range(commands)
        BY <2>2, <4>1, TailElements
      <4> QED BY <4>1, <4>2 DEF InChannel
    <3>3. call[x] = "waiting"
      BY <2>4, <3>2 DEF Places
    <3>4. x = Body /\ Flying
      <4>1. x \in Nat /\ Body \in Nat
        BY DriverAssumption, AggRanges DEF AggInv
      <4> QED BY <3>3, <4>1 DEF AggInv, OnlyLast, Outcomes
    <3>5. \A y \in Calls : number'[y] = number[y] \/ y = x
      BY <3>1 DEF DriverTypes
    <3>6. Calling /\ Executing /\ Minting
      BY <1>1, <2>2, <2>4, <3>1, <3>4, <3>5
    <3> QED BY <3>6, CallsEvolveInv
  <2> QED BY <2>3, <2>4
<1>4. CASE HandleShutdown \/ Retire \/ Teardown
  <2>1. reply_dropped_reason \in Outcomes /\ "Retired" \in Outcomes
    BY DEF reply_dropped_reason, Outcomes
  <2>2. /\ number' = number /\ executed' = executed
        /\ \E xs : \E reason \in Outcomes : call' = Dropped(xs, reason)
    BY <1>4, <2>1 DEF HandleShutdown, Retire, Teardown, drain_pending, clusterVars
  <2>3. Calling /\ Executing /\ Minting
    BY <1>1, <1>2, <2>2
  <2> QED BY <2>3, CallsEvolveInv
<1>5. CASE Committed
  <2>1. /\ number' = number /\ executed' = executed
        /\ call' = (IF applied + 1 \in DOMAIN pending /\ call[pending[applied + 1]] = "waiting"
                    THEN [call EXCEPT ![pending[applied + 1]] = "reply"] ELSE call)
    BY <1>5 DEF Committed, deliver_event
  <2>2. Calling
    BY <2>1 DEF DriverTypes, Outcomes
  <2>3. Executing /\ Minting
    BY <1>1, <2>1
  <2> QED BY <2>2, <2>3, CallsEvolveInv
<1>6. CASE reap_and_collect_retransmits \/ DropReservation \/ Execute \/ Lose \/ Install \/ RequestShutdown
  <2>1. number' = number /\ call' = call /\ (executed' = executed \/ executed' = executed + 1)
    BY Zenon, <1>6 DEF reap_and_collect_retransmits, DropReservation, Execute, Lose, Install, RequestShutdown,
                clusterVars
  <2>2. Calling /\ Executing /\ Minting
    BY <1>1, <2>1
  <2> QED BY <2>2, CallsEvolveInv
<1> QED BY <1>3, <1>4, <1>5, <1>6 DEF DriverNext, Loop

\* The pump polls its submit.
LEMMA PollSubmitInv ==
    ASSUME DriverInv, AggInv, PollSubmit
    PROVE  DriverInv' /\ AggInv'
<1>1. /\ pump = "submit" /\ Flying /\ Body \in Calls /\ UNCHANGED aggVars
      /\ Gate(Body) \/ Reserve(Body) \/ Send(Body)
  BY FlyingBody DEF PollSubmit, Flying
<1>2. DriverInv'
  BY <1>1, GateInv, ReserveInv, SendInv
<1>3. /\ call[Body] \in {"idle", "gated", "reserved"} /\ number' = number /\ executed' = executed
      /\ \E to : call' = [call EXCEPT ![Body] = to]
  BY <1>1 DEF Gate, Reserve, Send, clusterVars
<1>4. \A x \in Calls : call'[x] = call[x]
                       \/ (pump = "submit" /\ x = Body /\ call[x] \in {"idle", "gated", "reserved"})
  BY <1>1, <1>3 DEF DriverInv, DriverTypes
<1>5. executed <= executed' /\ executed' \in Nat
  BY <1>3 DEF DriverInv, DriverTypes
<1>6. \A x \in Calls : number'[x] = number[x]
  BY <1>3
<1>7. AggInv'
  BY <1>1, <1>4, <1>5, <1>6, CallsEvolveInv
<1> QED BY <1>2, <1>7

\* The first state.
LEMMA AggInitInv ==
    ASSUME DriverInit, AggInit
    PROVE  AggInv
<1>1. /\ entry = [c \in Callers |-> "idle"] /\ queue = <<>> /\ deferred = <<>> /\ packed = <<>>
      /\ in_flight = <<>> /\ bodies = <<>> /\ closed = FALSE /\ waker = FALSE /\ handles = Callers
      /\ pump = "fetch" /\ queued = 0 /\ call = [x \in Calls |-> "idle"]
  BY DEF AggInit, DriverInit
<1>2. /\ <<>> \in Seq(Callers) /\ Range(<<>>) = {} /\ Distinct(<<>>) /\ SumOver(Range(<<>>), Weight) = 0
  BY NothingIn
<1>3. Body = 0 /\ (\A c : BodiesOf(c) = {}) /\ ~Flying
  BY <1>1 DEF Body, BodiesOf, Flying
<1>4. Unsent = {}
  BY <1>1 DEF Unsent
<1>5. AggTypes
  <2>1. closed \in BOOLEAN /\ waker \in BOOLEAN
    BY <1>1, Zenon
  <2> QED BY <1>1, <1>2, <2>1 DEF AggTypes
<1>6. PumpHolds
  BY <1>1, <1>3 DEF PumpHolds
<1>7. EntriesPlaced
  BY <1>1, <1>2, <1>3 DEF EntriesPlaced
<1>8. BodiesDisjoint /\ OneInFlight
  BY <1>3 DEF BodiesDisjoint, OneInFlight
<1>9. VerdictsFollow
  BY <1>1 DEF VerdictsFollow
<1>10. OnlyLast
  <2>1. \A x \in Calls : x \in Nat \ {0}
    BY DriverAssumption, Zenon
  <2> QED BY <1>1, <1>3, <2>1 DEF OnlyLast
<1>11. QueuedExact
  <2>1. SumOver(Unsent, Weight) = 0 /\ SumOver(Range(queue), Weight) = 0
        /\ SumOver(Range(deferred), Weight) = 0 /\ SumOver(Range(packed), Weight) = 0
    BY <1>1, <1>2, <1>4, SumEmpty
  <2>2. queued = 0 /\ 0 <= MaxQueued
    BY <1>1, AggregatorAssumption
  <2> QED BY <2>1, <2>2 DEF QueuedExact
<1> QED BY <1>5, <1>6, <1>7, <1>8, <1>9, <1>10, <1>11 DEF AggInv

\* The aggregator over the driver keeps both invariants.
LEMMA AggInvariant == AggSpec => [](DriverInv /\ AggInv)
<1> DEFINE Step == AggNext \/ (DriverNext /\ UNCHANGED aggVars)
<1>1. DriverInit /\ AggInit => DriverInv /\ AggInv
  BY DriverInitInv, AggInitInv
<1>2. DriverInv /\ AggInv /\ [Step]_<<driverVars, aggVars>> => DriverInv' /\ AggInv'
  <2> SUFFICES ASSUME DriverInv, AggInv, [Step]_<<driverVars, aggVars>> PROVE DriverInv' /\ AggInv'
    OBVIOUS
  <2>1. CASE Fetch
    <3>1. UNCHANGED driverVars /\ DriverTypes
      BY <2>1 DEF Fetch, DriverInv
    <3> QED BY <2>1, <3>1, FetchInv, DriverNextInv
  <2>2. CASE Pack
    BY <2>2, PackInv, DriverNextInv DEF Pack
  <2>3. CASE HandOff
    BY <2>3, HandOffInv, DriverNextInv DEF HandOff
  <2>4. CASE FirstPoll
    BY <2>4, FirstPollInv, DriverNextInv DEF FirstPoll
  <2>5. CASE Answer
    BY <2>5, AnswerInv, DriverNextInv DEF Answer
  <2>6. CASE PollSubmit
    BY <2>6, PollSubmitInv
  <2>7. CASE Stalled \/ Abandoned \/ DropPump
    BY <2>7, EndInv
  <2>8. CASE \E c \in Callers : submit_group(c)
    BY <2>8, SubmitGroupInv, DriverNextInv DEF submit_group
  <2>9. CASE \E c \in Callers : send(c)
    BY <2>9, SendEntryInv, DriverNextInv DEF send
  <2>10. CASE \E c \in Callers : CancelEntry(c)
    <3>1. UNCHANGED driverVars
      BY <2>10 DEF CancelEntry
    <3> QED BY <2>10, <3>1, CancelEntryInv, DriverNextInv
  <2>11. CASE \E c \in Callers : DropHandle(c)
    BY <2>11, DropHandleInv, DriverNextInv DEF DropHandle
  <2>12. CASE DriverNext /\ UNCHANGED aggVars
    BY <2>12, DriverStepInv, DriverNextInv
  <2>13. CASE UNCHANGED <<driverVars, aggVars>>
    <3>1. UNCHANGED aggVars /\ UNCHANGED driverVars /\ call' = call /\ number' = number /\ executed' = executed
      BY <2>13 DEF driverVars
    <3>2. executed <= executed' /\ executed' \in Nat
      BY <3>1 DEF DriverInv, DriverTypes
    <3>3. AggInv'
      BY <3>1, <3>2, CallsEvolveInv
    <3> QED BY <3>1, <3>3, DriverNextInv
  <2> QED BY <2>1, <2>2, <2>3, <2>4, <2>5, <2>6, <2>7, <2>8, <2>9, <2>10, <2>11, <2>12, <2>13
      DEF Step, AggNext, PumpStep
<1> QED BY <1>1, <1>2, PTL DEF AggSpec, Step

-----------------------------------------------------------------------------
(* What the aggregator promises. *)

\* For any callers and weights, the queue's budget is exactly the units of the entries that are
\* reserved, queued, deferred or packed: every way an entry ends gives its units back once.
THEOREM AggregatorBudgetExact == AggSpec => []QueueBudgetExact
<1>1. ASSUME AggInv PROVE QueueBudgetExact
  <2>1. /\ Units(queue) = SumOver(Range(queue), Weight)
        /\ Units(deferred) = SumOver(Range(deferred), Weight)
        /\ Units(packed) = SumOver(Range(packed), Weight)
    BY <1>1, UnitsDistinct DEF AggInv, AggTypes, EntriesPlaced
  <2>2. queued = SumOver(Unsent, Weight) + SumOver(Range(queue), Weight)
                 + SumOver(Range(deferred), Weight) + SumOver(Range(packed), Weight)
    BY <1>1 DEF AggInv, QueuedExact
  <2> QED BY <2>1, <2>2 DEF QueueBudgetExact, Unsent
<1>2. DriverInv /\ AggInv => QueueBudgetExact
  BY <1>1
<1> QED BY <1>2, AggInvariant, PTL

\* For any callers, Refused is said only of units no body of which entered the session, and a
\* reply, delivered or lost, only of units that were executed.
THEOREM AggregatorVerdictsTruthful == AggSpec => []VerdictTruthful
<1>1. ASSUME DriverInv, AggInv PROVE VerdictTruthful
  <2> SUFFICES ASSUME NEW c \in Callers
               PROVE  /\ entry[c] = "Refused" => \A b \in BodiesOf(c) : number[b] = 0
                      /\ entry[c] \in {"reply", "CommittedReplyLost"}
                           => \E b \in BodiesOf(c) : number[b] \in 1 .. executed
    BY DEF VerdictTruthful
  <2>1. BodiesOf(c) \subseteq Calls
    BY <1>1, BodiesAreCalls
  <2>2. \A b \in Calls : call[b] \in {"Busy", "DriverGone"} => number[b] = 0
    BY <1>1 DEF DriverInv, Places
  <2>3. \A b \in Calls : call[b] = "reply" => number[b] \in 1 .. executed
    BY <1>1 DEF DriverInv, RepliesExecuted
  <2> QED BY <1>1, <2>1, <2>2, <2>3 DEF AggInv, VerdictsFollow
<1>2. DriverInv /\ AggInv => VerdictTruthful
  BY <1>1
<1> QED BY <1>2, AggInvariant, PTL

\* For any callers, a body enters the session only after every body that entered before it was
\* executed.
THEOREM AggregatorOneInFlight == AggSpec => []OneInFlight
<1>1. DriverInv /\ AggInv => OneInFlight
  BY DEF AggInv
<1> QED BY <1>1, AggInvariant, PTL

\* Type correctness: among other things, there are never more bodies than submits, and the
\* queue's budget stays within its limit.
THEOREM AggregatorTypeCorrect == AggSpec => []AggTypeOK
<1>1. ASSUME AggInv PROVE AggTypeOK
  <2>1. Body <= Cardinality(Calls)
    <3>1. 1 .. Body \subseteq Calls /\ IsFiniteSet(Calls) /\ Body \in Nat
      BY <1>1, BodiesAreCalls, AggRanges, DriverAssumption DEF AggInv
    <3>2. Cardinality(1 .. Body) <= Cardinality(Calls)
      BY <3>1, FS_Subset
    <3>3. Cardinality(1 .. Body) = Body
      <4>1. Body \in Int /\ 1 \in Int
        BY <3>1
      <4>2. Cardinality(1 .. Body) = IF 1 > Body THEN 0 ELSE Body - 1 + 1
        BY <4>1, FS_Interval, Zenon
      <4> QED BY <3>1, <4>2
    <3> QED BY <3>2, <3>3
  <2>2. queued \in 0 .. MaxQueued
    BY <1>1, AggSums DEF AggInv, QueuedExact
  <2> QED BY <1>1, <2>1, <2>2 DEF AggInv, AggTypes, AggTypeOK
<1>2. DriverInv /\ AggInv => AggTypeOK
  BY <1>1
<1> QED BY <1>2, AggInvariant, PTL

\* With the pump as its only caller the driver keeps what it promises to direct callers.
THEOREM AggregatedDriverSafe == AggSpec => [](BudgetExact /\ OutcomeTruthful /\ NoneStranded)
<1>1. DriverInv /\ AggInv => BudgetExact /\ OutcomeTruthful /\ NoneStranded
  BY DriverInvImplies
<1> QED BY <1>1, AggInvariant, PTL
=============================================================================
