------------------------ MODULE AggregatorPackProofs ------------------------
(***************************************************************************)
(* The first half of the proofs about the batching aggregator: the units   *)
(* of sequences of entries, the invariant AggInv and its steps up to the   *)
(* open body (submissions, cancellations, the queue, packing).             *)
(*                                                                         *)
(* AggInv follows an entry through its places (queue, deferred, open body, *)
(* body with the driver).  It says that an entry is in one of them at a    *)
(* time and in one body ever, and that only the last body can still be     *)
(* with the driver.                                                        *)
(***************************************************************************)
EXTENDS Aggregator, DriverProofs

-----------------------------------------------------------------------------
(* Units of sequences of entries. *)

\* The units of distinct entries are the sum of their weights.
LEMMA UnitsDistinct ==
    ASSUME NEW s \in Seq(Callers), Distinct(s)
    PROVE  /\ Units(s) = SumOver(Range(s), Weight)
           /\ Range(s) \subseteq Callers /\ IsFiniteSet(Range(s))
<1> DEFINE w == [i \in DOMAIN s |-> Weight[s[i]]]
           U == UnitsOf(DOMAIN s, w)
           V == UnitsOf(Range(s), Weight)
           g == [u \in U |-> <<s[u[1]], u[2]>>]
<1>1. Range(s) \subseteq Callers /\ IsFiniteSet(Range(s))
  BY RangeOfSeq, AggregatorAssumption, FS_Subset
<1>2. IsFiniteSet(U)
  <2>1. IsFiniteSet(DOMAIN s) /\ \A i \in DOMAIN s : s[i] \in Callers
    BY LenProperties, FS_Interval
  <2>2. \A i \in DOMAIN s : w[i] \in Nat
    BY <2>1, AggregatorAssumption
  <2> HIDE DEF w
  <2> QED BY <2>1, <2>2, SumType
<1>3. \A u \in U : \E i \in DOMAIN s : \E k \in 1 .. Weight[s[i]] : u = <<i, k>>
  BY DEF UnitsOf
<1>4. \A v \in V : \E i \in DOMAIN s : \E k \in 1 .. Weight[s[i]] : v = <<s[i], k>>
  BY DEF UnitsOf, Range
<1>5. \A i \in DOMAIN s : \A k \in 1 .. Weight[s[i]] : <<i, k>> \in U /\ <<s[i], k>> \in V
  BY DEF UnitsOf, Range
<1>6. g \in Bijection(U, V)
  <2>1. g \in [U -> V]
    <3> SUFFICES ASSUME NEW u \in U PROVE g[u] \in V
      OBVIOUS
    <3>1. PICK i \in DOMAIN s : \E k \in 1 .. Weight[s[i]] : u = <<i, k>>
      BY <1>3
    <3>2. PICK k \in 1 .. Weight[s[i]] : u = <<i, k>>
      BY <3>1
    <3>3. g[u] = <<s[i], k>>
      BY <3>2
    <3> QED BY Zenon, <1>5, <3>3
  <2>2. \A u, v \in U : g[u] = g[v] => u = v
    <3> SUFFICES ASSUME NEW u \in U, NEW v \in U, g[u] = g[v] PROVE u = v
      OBVIOUS
    <3>1. PICK i \in DOMAIN s : \E k \in 1 .. Weight[s[i]] : u = <<i, k>>
      BY <1>3
    <3>2. PICK k \in 1 .. Weight[s[i]] : u = <<i, k>>
      BY <3>1
    <3>3. PICK j \in DOMAIN s : \E l \in 1 .. Weight[s[j]] : v = <<j, l>>
      BY <1>3
    <3>4. PICK l \in 1 .. Weight[s[j]] : v = <<j, l>>
      BY <3>3
    <3>5. <<s[i], k>> = <<s[j], l>>
      BY <3>2, <3>4
    <3>6. s[i] = s[j] /\ k = l
      BY <3>5
    <3> QED BY <3>2, <3>4, <3>6 DEF Distinct
  <2>3. \A v \in V : \E u \in U : g[u] = v
    <3> SUFFICES ASSUME NEW v \in V PROVE \E u \in U : g[u] = v
      OBVIOUS
    <3>1. PICK i \in DOMAIN s : \E k \in 1 .. Weight[s[i]] : v = <<s[i], k>>
      BY <1>4
    <3>2. PICK k \in 1 .. Weight[s[i]] : v = <<s[i], k>>
      BY <3>1
    <3>3. <<i, k>> \in U
      BY Zenon, <1>5
    <3>4. g[<<i, k>>] = v
      BY <3>2, <3>3
    <3> QED BY Zenon, <3>3, <3>4
  <2> HIDE DEF g, U, V
  <2> QED BY <2>1, <2>2, <2>3 DEF Bijection, Injection, Surjection, IsInjective
<1>7. ExistsBijection(U, V)
  BY <1>6 DEF ExistsBijection
<1>8. Cardinality(V) = Cardinality(U)
  <2> HIDE DEF U, V
  <2> QED BY <1>2, <1>7, FS_Bijection
<1> QED BY <1>1, <1>8 DEF Units, SumOver

\* The sum over two sets with nothing in common.
LEMMA SumUnion ==
    ASSUME NEW S, IsFiniteSet(S), NEW T, IsFiniteSet(T), S \cap T = {}, NEW w,
           \A x \in S \cup T : w[x] \in Nat
    PROVE  SumOver(S \cup T, w) = SumOver(S, w) + SumOver(T, w)
<1> DEFINE U == UnitsOf(S, w)
           V == UnitsOf(T, w)
<1>1. UnitsOf(S \cup T, w) = U \cup V
  BY DEF UnitsOf
<1>2. U \cap V = {}
  BY DEF UnitsOf
<1>3. IsFiniteSet(U) /\ IsFiniteSet(V) /\ Cardinality(U) \in Nat /\ Cardinality(V) \in Nat
  BY SumType DEF SumOver
<1>4. Cardinality(U \cup V) = Cardinality(U) + Cardinality(V) - Cardinality(U \cap V)
  <2> HIDE DEF U, V
  <2> QED BY <1>3, FS_Union
<1>5. Cardinality(U \cap V) = 0
  BY <1>2, FS_EmptySet, Zenon
<1>6. Cardinality(U \cup V) = Cardinality(U) + Cardinality(V)
  <2> HIDE DEF U, V
  <2> QED BY <1>3, <1>4, <1>5
<1> QED BY <1>1, <1>6 DEF SumOver

\* Two sequences of entries, one after the other.
LEMMA ConcatDistinct ==
    ASSUME NEW s \in Seq(Callers), NEW t \in Seq(Callers), Distinct(s), Distinct(t),
           Range(s) \cap Range(t) = {}
    PROVE  /\ Range(s \o t) = Range(s) \cup Range(t) /\ Distinct(s \o t)
           /\ Units(s \o t) = SumOver(Range(s), Weight) + SumOver(Range(t), Weight)
<1>1. Range(s \o t) = Range(s) \cup Range(t) /\ s \o t \in Seq(Callers)
  BY RangeConcatenation, ConcatProperties
<1>2. Distinct(s \o t)
  <2>1. /\ DOMAIN (s \o t) = 1 .. (Len(s) + Len(t)) /\ DOMAIN s = 1 .. Len(s) /\ DOMAIN t = 1 .. Len(t)
        /\ Len(s) \in Nat /\ Len(t) \in Nat
        /\ \A i \in 1 .. (Len(s) + Len(t)) : (s \o t)[i] = IF i <= Len(s) THEN s[i] ELSE t[i - Len(s)]
    BY ConcatProperties, LenProperties
  <2> SUFFICES ASSUME NEW i \in DOMAIN (s \o t), NEW j \in DOMAIN (s \o t), (s \o t)[i] = (s \o t)[j]
               PROVE  i = j
    BY DEF Distinct
  <2>2. CASE i <= Len(s) /\ j <= Len(s)
    BY <2>1, <2>2 DEF Distinct
  <2>3. CASE i > Len(s) /\ j > Len(s)
    <3>1. i - Len(s) \in DOMAIN t /\ j - Len(s) \in DOMAIN t /\ t[i - Len(s)] = t[j - Len(s)]
      BY <2>1, <2>3
    <3>2. i - Len(s) = j - Len(s)
      BY <3>1 DEF Distinct
    <3> QED BY <2>1, <3>2
  <2>4. ASSUME NEW a \in DOMAIN (s \o t), NEW b \in DOMAIN (s \o t), a <= Len(s), b > Len(s)
        PROVE  (s \o t)[a] # (s \o t)[b]
    <3>1. a \in DOMAIN s /\ b - Len(s) \in DOMAIN t
      BY <2>1, <2>4
    <3>2. (s \o t)[a] = s[a] /\ (s \o t)[b] = t[b - Len(s)]
      BY <2>1, <2>4
    <3>3. s[a] \in Range(s) /\ t[b - Len(s)] \in Range(t)
      BY <3>1 DEF Range
    <3> QED BY <3>2, <3>3
  <2> QED BY <2>1, <2>2, <2>3, <2>4
<1>3. Units(s \o t) = SumOver(Range(s) \cup Range(t), Weight)
  BY Zenon, <1>1, <1>2, UnitsDistinct
<1>4. SumOver(Range(s) \cup Range(t), Weight) = SumOver(Range(s), Weight) + SumOver(Range(t), Weight)
  <2>1. /\ IsFiniteSet(Range(s)) /\ IsFiniteSet(Range(t))
        /\ \A x \in Range(s) \cup Range(t) : Weight[x] \in Nat
    BY UnitsDistinct, AggregatorAssumption
  <2> QED BY <2>1, SumUnion
<1> QED BY <1>1, <1>2, <1>3, <1>4

-----------------------------------------------------------------------------
(* The invariant. *)

\* The entries whose callers have reserved their units and not sent them.
Unsent == {c \in Callers : entry[c] = "reserved"}

\* A body is with the driver.
Flying == pump \in {"submit", "race"}

\* The types of the aggregator's state.
AggTypes ==
    /\ entry \in [Callers -> {"idle", "reserved", "queued", "in_flight", "cancelled", "reply",
                              "Refused", "OutcomeUnknown", "CommittedReplyLost"}]
    /\ queue \in Seq(Callers) /\ deferred \in Seq(Callers)
    /\ packed \in Seq(Callers) /\ in_flight \in Seq(Callers)
    /\ bodies \in Seq(Seq(Callers))
    /\ closed \in BOOLEAN /\ waker \in BOOLEAN /\ handles \subseteq Callers
    /\ pump \in {"fetch", "parked", "pack", "packed", "submit", "race", "done"}

\* Where the pump is says what it holds.
PumpHolds ==
    /\ pump \in {"fetch", "parked", "race", "done"} => packed = <<>>
    /\ pump = "submit" => packed = in_flight
    /\ Flying => Body # 0 /\ in_flight = bodies[Body]
    /\ ~Flying => in_flight = <<>>
    /\ pump = "done" => closed /\ queue = <<>> /\ deferred = <<>>
    /\ closed => pump = "done"

\* An entry that still waits is in one place, and in no body yet.
Waits(c) == entry[c] \in {"queued", "cancelled"} /\ BodiesOf(c) = {}

EntriesPlaced ==
    /\ Distinct(queue) /\ Distinct(deferred) /\ Distinct(packed)
    /\ Range(queue) \cap Range(deferred) = {}
    /\ Range(queue) \cap Range(packed) = {}
    /\ Range(deferred) \cap Range(packed) = {}
    /\ \A c \in Range(queue) \cup Range(deferred) : Waits(c)
    /\ ~Flying => \A c \in Range(packed) : Waits(c)
    /\ \A c \in Callers : entry[c] \in {"idle", "reserved"} => BodiesOf(c) = {}

\* Every body has entries, and no entry is in two bodies.
BodiesDisjoint ==
    /\ \A b \in 1 .. Body : bodies[b] # <<>>
    /\ \A a, b \in 1 .. Body : a # b => Range(bodies[a]) \cap Range(bodies[b]) = {}

\* The verdicts of the entries are the outcomes of their bodies.
VerdictsFollow ==
    \A c \in Callers :
        /\ entry[c] = "Refused" => \A b \in BodiesOf(c) : call[b] \in {"Busy", "DriverGone"}
        /\ entry[c] \in {"reply", "CommittedReplyLost"} => \E b \in BodiesOf(c) : call[b] = "reply"

\* Only the last body may still be with the driver.
OnlyLast ==
    /\ \A x \in Calls : x > Body => call[x] = "idle"
    /\ \A x \in Calls : x < Body \/ (x = Body /\ ~Flying)
         => call[x] \in Outcomes \/ (call[x] = "cancelled" /\ pump = "done")
    /\ pump = "race" => call[Body] \notin {"idle", "gated", "reserved"}

QueuedExact ==
    /\ queued = SumOver(Unsent, Weight) + SumOver(Range(queue), Weight)
                + SumOver(Range(deferred), Weight) + SumOver(Range(packed), Weight)
    /\ queued <= MaxQueued

AggInv == AggTypes /\ PumpHolds /\ EntriesPlaced /\ BodiesDisjoint /\ VerdictsFollow /\ OnlyLast
          /\ OneInFlight /\ QueuedExact

\* Any callers have a sum of weights.
LEMMA CallerSums ==
    /\ \A c \in Callers : Weight[c] \in Nat
    /\ \A S \in SUBSET Callers : IsFiniteSet(S) /\ SumOver(S, Weight) \in Nat
<1>1. \A c \in Callers : Weight[c] \in Nat
  BY AggregatorAssumption
<1>2. ASSUME NEW S \in SUBSET Callers
      PROVE  IsFiniteSet(S) /\ SumOver(S, Weight) \in Nat
  <2>1. IsFiniteSet(S)
    BY AggregatorAssumption, FS_Subset
  <2> QED BY <1>1, <2>1, SumType
<1> QED BY <1>1, <1>2

\* One caller more or less.
LEMMA CallerSumStep ==
    ASSUME NEW S \in SUBSET Callers, NEW c \in Callers
    PROVE  /\ c \notin S => SumOver(S \cup {c}, Weight) = SumOver(S, Weight) + Weight[c]
           /\ c \in S => SumOver(S \ {c}, Weight) = SumOver(S, Weight) - Weight[c]
<1>1. IsFiniteSet(S) /\ \A x \in S \cup {c} : Weight[x] \in Nat
  BY CallerSums
<1> QED BY Zenon, <1>1, SumAdd, SumRemove

\* Where entries are.
LEMMA AggRanges ==
    ASSUME AggTypes
    PROVE  /\ Range(queue) \subseteq Callers /\ Range(deferred) \subseteq Callers
           /\ Range(packed) \subseteq Callers /\ Range(in_flight) \subseteq Callers
           /\ Unsent \subseteq Callers /\ Body \in Nat
           /\ \A b \in 1 .. Body : bodies[b] \in Seq(Callers) /\ Range(bodies[b]) \subseteq Callers
<1>1. /\ Range(queue) \subseteq Callers /\ Range(deferred) \subseteq Callers
      /\ Range(packed) \subseteq Callers /\ Range(in_flight) \subseteq Callers
  BY RangeOfSeq DEF AggTypes
<1>2. Body \in Nat /\ \A b \in 1 .. Body : bodies[b] \in Seq(Callers)
  BY LenProperties, ElementOfSeq DEF AggTypes, Body
<1> QED BY <1>1, <1>2, RangeOfSeq DEF Unsent

\* The sums that make up the queue's budget.
LEMMA AggSums ==
    ASSUME AggTypes
    PROVE  /\ SumOver(Unsent, Weight) \in Nat /\ SumOver(Range(queue), Weight) \in Nat
           /\ SumOver(Range(deferred), Weight) \in Nat /\ SumOver(Range(packed), Weight) \in Nat
           /\ MaxQueued \in Nat /\ \A c \in Callers : Weight[c] \in Nat
BY AggRanges, CallerSums, AggregatorAssumption

\* An entry that was not sent is nowhere.
LEMMA UnsentApart ==
    ASSUME AggInv, NEW c \in Callers, entry[c] \in {"idle", "reserved"}
    PROVE  c \notin Range(queue) /\ c \notin Range(deferred) /\ c \notin Range(packed)
<1> USE DEF AggInv
<1>1. c \notin Range(queue) /\ c \notin Range(deferred)
  BY DEF EntriesPlaced, Waits
<1>2. CASE ~Flying
  BY <1>1, <1>2 DEF EntriesPlaced, Waits
<1>3. CASE pump = "submit"
  <2>1. packed = bodies[Body] /\ Body \in 1 .. Body
    BY <1>3, AggRanges DEF PumpHolds, Flying
  <2>2. c \in Range(packed) => Body \in BodiesOf(c)
    BY <2>1 DEF BodiesOf
  <2> QED BY <1>1, <2>2 DEF EntriesPlaced
<1>4. CASE pump = "race"
  <2>1. Range(packed) = {}
    BY <1>4 DEF PumpHolds, Range
  <2> QED BY <1>1, <2>1
<1> QED BY <1>2, <1>3, <1>4 DEF Flying

\* A step that submits no body.
LEMMA SameBodies ==
    ASSUME bodies' = bodies
    PROVE  Body' = Body /\ \A c : BodiesOf(c)' = BodiesOf(c)
BY DEF Body, BodiesOf

\* Nor does it disturb the bodies there are, if no request is minted or executed.
LEMMA BodiesStay ==
    ASSUME BodiesDisjoint, OneInFlight, bodies' = bodies, number' = number, executed' = executed
    PROVE  BodiesDisjoint' /\ OneInFlight'
<1>1. Body' = Body
  BY DEF Body
<1>2. OneInFlight'
  BY <1>1 DEF OneInFlight
<1>3. BodiesDisjoint'
  BY <1>1, Zenon DEF BodiesDisjoint
<1> QED BY <1>2, <1>3

\* submit and submit_group up to their reservation.
LEMMA SubmitGroupInv ==
    ASSUME AggInv, NEW c \in Callers, submit_group(c)
    PROVE  AggInv'
<1> USE DEF AggInv
<1>1. PICK to \in {"Refused", "reserved"} :
        /\ entry' = [entry EXCEPT ![c] = to]
        /\ to = "Refused" => queued' = queued
        /\ to = "reserved" => queued' = queued + Weight[c] /\ ~(queued + Weight[c] > MaxQueued)
  BY DEF submit_group
<1>2. /\ entry[c] = "idle"
      /\ UNCHANGED <<queue, closed, waker, handles, pump, deferred, packed, in_flight, bodies, call,
                     number, executed>>
  BY DEF submit_group, pumpVars, driverVars
<1>3. Body' = Body /\ \A d : BodiesOf(d)' = BodiesOf(d)
  BY <1>2, SameBodies
<1>4. \A d \in Callers : entry'[d] = IF d = c THEN to ELSE entry[d]
  BY <1>1 DEF AggTypes
<1>5. BodiesOf(c) = {}
  BY <1>2 DEF EntriesPlaced
<1>6. AggTypes'
  BY <1>1, <1>2 DEF AggTypes
<1>7. PumpHolds' /\ BodiesDisjoint' /\ OnlyLast' /\ OneInFlight'
  BY <1>2, <1>3 DEF PumpHolds, BodiesDisjoint, OnlyLast, OneInFlight, Flying
<1>8. EntriesPlaced'
  BY <1>2, <1>3, <1>4, <1>5, UnsentApart, AggRanges DEF EntriesPlaced, Waits, Flying
<1>9. VerdictsFollow'
  BY Zenon, <1>2, <1>3, <1>4, <1>5 DEF VerdictsFollow
<1>10. QueuedExact'
  <2>1. CASE to = "Refused"
    <3>1. Unsent' = Unsent
      BY <1>2, <1>4, <2>1 DEF Unsent
    <3> QED BY <1>1, <1>2, <2>1, <3>1 DEF QueuedExact
  <2>2. CASE to = "reserved"
    <3>1. Unsent' = Unsent \cup {c} /\ c \notin Unsent
      BY <1>2, <1>4, <2>2 DEF Unsent
    <3>2. SumOver(Unsent', Weight) = SumOver(Unsent, Weight) + Weight[c]
      BY <3>1, AggRanges, CallerSumStep
    <3> QED BY <1>1, <1>2, <2>2, <3>2, AggSums DEF QueuedExact
  <2> QED BY <1>1, <2>1, <2>2
<1> QED BY <1>6, <1>7, <1>8, <1>9, <1>10

\* The push under the queue lock.
LEMMA SendEntryInv ==
    ASSUME AggInv, NEW c \in Callers, send(c)
    PROVE  AggInv'
<1> USE DEF AggInv
<1>1. /\ entry[c] = "reserved"
      /\ UNCHANGED <<closed, handles, deferred, packed, in_flight, bodies, call, number, executed>>
  BY DEF send, driverVars
<1>2. Body' = Body /\ \A d : BodiesOf(d)' = BodiesOf(d)
  BY <1>1, SameBodies
<1>3. BodiesOf(c) = {} /\ c \in Unsent
  BY <1>1 DEF EntriesPlaced, Unsent
<1>4. c \notin Range(queue) /\ c \notin Range(deferred) /\ c \notin Range(packed)
  BY <1>1, UnsentApart
<1>5. SumOver(Unsent \ {c}, Weight) = SumOver(Unsent, Weight) - Weight[c]
  BY <1>3, AggRanges, CallerSumStep
<1>6. SumOver(Unsent \ {c}, Weight) \in Nat
  BY AggRanges, CallerSums
<1>7. CASE closed
  <2>1. /\ entry' = [entry EXCEPT ![c] = "Refused"] /\ queued' = queued - Weight[c]
        /\ UNCHANGED <<queue, waker, pump>>
    BY <1>7 DEF send
  <2>2. \A d \in Callers : entry'[d] = IF d = c THEN "Refused" ELSE entry[d]
    BY <2>1 DEF AggTypes
  <2>3. AggTypes'
    BY <1>1, <2>1 DEF AggTypes
  <2>4. PumpHolds' /\ BodiesDisjoint' /\ OnlyLast' /\ OneInFlight'
    BY Zenon, <1>1, <1>2, <2>1 DEF PumpHolds, BodiesDisjoint, OnlyLast, OneInFlight, Flying
  <2>5. EntriesPlaced'
    BY Zenon, <1>1, <1>2, <1>4, <2>1, <2>2, AggRanges DEF EntriesPlaced, Waits, Flying
  <2>6. VerdictsFollow'
    BY <1>1, <1>2, <1>3, <2>2 DEF VerdictsFollow
  <2>7. Unsent' = Unsent \ {c}
    BY <2>2 DEF Unsent
  <2>8. QueuedExact'
    BY <1>1, <1>5, <1>6, <2>1, <2>7, AggSums DEF QueuedExact
  <2> QED BY <2>3, <2>4, <2>5, <2>6, <2>8
<1>8. CASE ~closed
  <2>1. /\ entry' = [entry EXCEPT ![c] = "queued"] /\ queue' = Append(queue, c) /\ queued' = queued
        /\ waker' = FALSE /\ pump' = IF waker /\ pump = "parked" THEN "fetch" ELSE pump
    BY <1>8 DEF send, Wake
  <2>2. \A d \in Callers : entry'[d] = IF d = c THEN "queued" ELSE entry[d]
    BY <2>1 DEF AggTypes
  <2>3. queue \in Seq(Callers) /\ Distinct(queue)
    BY DEF AggTypes, EntriesPlaced
  <2>4. Range(queue') = Range(queue) \cup {c} /\ Distinct(queue') /\ queue' \in Seq(Callers)
    BY <1>4, <2>1, <2>3, AppendElements, AppendProperties
  <2>5. AggTypes'
    BY Zenon, <1>1, <2>1, <2>4 DEF AggTypes
  <2>6. pump # "done" /\ pump' # "done" /\ Flying' = Flying
    BY <1>8, <2>1 DEF PumpHolds, Flying
  <2>7. PumpHolds'
    BY <1>1, <1>2, <1>8, <2>1, <2>6 DEF PumpHolds, Flying
  <2>8. BodiesDisjoint' /\ OneInFlight'
    BY Zenon, <1>1, <1>2 DEF BodiesDisjoint, OneInFlight
  <2>9. OnlyLast'
    BY <1>1, <1>2, <2>1, <2>6 DEF OnlyLast, Flying
  <2>10. EntriesPlaced'
    BY <1>1, <1>2, <1>3, <1>4, <2>2, <2>4, <2>6, AggRanges DEF EntriesPlaced, Waits
  <2>11. VerdictsFollow'
    BY Zenon, <1>1, <1>2, <2>2 DEF VerdictsFollow
  <2>12. Unsent' = Unsent \ {c}
    BY <2>2 DEF Unsent
  <2>13. SumOver(Range(queue'), Weight) = SumOver(Range(queue), Weight) + Weight[c]
    BY <1>4, <2>4, AggRanges, CallerSumStep
  <2>14. QueuedExact'
    BY <1>1, <1>5, <1>6, <2>1, <2>12, <2>13, AggSums DEF QueuedExact
  <2> QED BY <2>5, <2>7, <2>8, <2>9, <2>10, <2>11, <2>14
<1> QED BY <1>7, <1>8

\* A caller gives up.
LEMMA CancelEntryInv ==
    ASSUME AggInv, NEW c \in Callers, CancelEntry(c)
    PROVE  AggInv'
<1> USE DEF AggInv
<1>1. /\ entry[c] \in {"queued", "in_flight"} /\ entry' = [entry EXCEPT ![c] = "cancelled"]
      /\ UNCHANGED <<queue, closed, waker, handles, queued, pump, deferred, packed, in_flight, bodies,
                     call, number, executed>>
  BY DEF CancelEntry, pumpVars, driverVars
<1>2. Body' = Body /\ \A d : BodiesOf(d)' = BodiesOf(d)
  BY <1>1, SameBodies
<1>3. \A d \in Callers : entry'[d] = IF d = c THEN "cancelled" ELSE entry[d]
  BY <1>1 DEF AggTypes
<1>4. AggTypes'
  BY <1>1 DEF AggTypes
<1>5. PumpHolds' /\ BodiesDisjoint' /\ OnlyLast' /\ OneInFlight'
  BY <1>1, <1>2 DEF PumpHolds, BodiesDisjoint, OnlyLast, OneInFlight, Flying
<1>6. EntriesPlaced'
  BY <1>1, <1>2, <1>3, AggRanges DEF EntriesPlaced, Waits, Flying
<1>7. VerdictsFollow'
  BY <1>1, <1>2, <1>3 DEF VerdictsFollow
<1>8. Unsent' = Unsent
  BY <1>1, <1>3 DEF Unsent
<1>9. QueuedExact'
  BY <1>1, <1>8 DEF QueuedExact
<1> QED BY <1>4, <1>5, <1>6, <1>7, <1>9

\* A handle is dropped, or the pump parks, finds an entry it already holds, or has nothing in
\* its open body.
LEMMA PumpWakesInv ==
    ASSUME AggInv, NEW to, pump' = to, waker' \in BOOLEAN, handles' \subseteq Callers,
           \/ pump = "parked" /\ to = "fetch"
           \/ pump = "fetch" /\ to \in {"parked", "pack"}
           \/ pump \in {"pack", "packed"} /\ packed = <<>> /\ to = "fetch"
           \/ to = pump,
           UNCHANGED <<entry, queue, closed, queued, deferred, packed, in_flight, bodies, call, number,
                       executed>>
    PROVE  AggInv'
<1> USE DEF AggInv
<1>1. Body' = Body /\ \A d : BodiesOf(d)' = BodiesOf(d)
  BY SameBodies
<1>2. AggTypes'
  BY DEF AggTypes
<1>3. Flying' = Flying /\ (pump' = "done" <=> pump = "done")
  BY DEF Flying
<1>4. PumpHolds'
  BY <1>1, <1>3 DEF PumpHolds, Flying
<1>5. OnlyLast'
  <2>1. call' = call /\ (pump' = "race" => pump = "race")
    OBVIOUS
  <2> QED BY <1>1, <1>3, <2>1 DEF OnlyLast
<1>6. EntriesPlaced'
  BY <1>1, <1>3 DEF EntriesPlaced, Waits
<1>7. VerdictsFollow' /\ BodiesDisjoint' /\ OneInFlight'
  <2>1. entry' = entry /\ call' = call /\ number' = number /\ executed' = executed /\ bodies' = bodies
    OBVIOUS
  <2>2. VerdictsFollow'
    BY <1>1, <2>1 DEF VerdictsFollow
  <2>3. BodiesDisjoint' /\ OneInFlight'
    BY <2>1, BodiesStay
  <2> QED BY <2>2, <2>3
<1>8. QueuedExact'
  BY DEF QueuedExact, Unsent
<1> QED BY <1>2, <1>4, <1>5, <1>6, <1>7, <1>8

\* Drop of a BatchHandle.
LEMMA DropHandleInv ==
    ASSUME AggInv, NEW c \in Callers, DropHandle(c)
    PROVE  AggInv'
<1>1. /\ handles' \subseteq Callers /\ waker' \in BOOLEAN
      /\ UNCHANGED <<entry, queue, closed, queued, deferred, packed, in_flight, bodies, call, number,
                     executed>>
  BY Zenon DEF DropHandle, Wake, driverVars, AggInv, AggTypes
<1>2. pump' = pump \/ (pump = "parked" /\ pump' = "fetch")
  BY DEF DropHandle, Wake
<1> QED BY <1>1, <1>2, PumpWakesInv

\* Bodies that have entries and share none are no more than the callers, so each has a submit
\* of the driver.
LEMMA BodiesFit ==
    ASSUME NEW bs \in Seq(Seq(Callers)), \A b \in 1 .. Len(bs) : bs[b] # <<>>,
           \A a, b \in 1 .. Len(bs) : a # b => Range(bs[a]) \cap Range(bs[b]) = {}
    PROVE  Len(bs) <= Cardinality(Callers) /\ 1 .. Len(bs) \subseteq Calls
<1> DEFINE f == [b \in 1 .. Len(bs) |-> bs[b][1]]
<1>1. \A b \in 1 .. Len(bs) : bs[b][1] \in Callers /\ bs[b][1] \in Range(bs[b])
  <2> TAKE b \in 1 .. Len(bs)
  <2>1. bs[b] \in Seq(Callers) /\ bs[b] # <<>>
    BY ElementOfSeq
  <2>2. 1 \in DOMAIN bs[b]
    BY <2>1, LenProperties, EmptySeq
  <2> QED BY <2>1, <2>2 DEF Range
<1>2. f \in Injection(1 .. Len(bs), Callers)
  <2>1. f \in [1 .. Len(bs) -> Callers]
    BY <1>1
  <2>2. \A a, b \in 1 .. Len(bs) : f[a] = f[b] => a = b
    <3> SUFFICES ASSUME NEW a \in 1 .. Len(bs), NEW b \in 1 .. Len(bs), f[a] = f[b], a # b
                 PROVE  FALSE
      OBVIOUS
    <3>1. bs[a][1] = bs[b][1] /\ bs[a][1] \in Range(bs[a]) /\ bs[b][1] \in Range(bs[b])
      BY <1>1
    <3>2. Range(bs[a]) \cap Range(bs[b]) = {}
      BY Zenon
    <3> QED BY <3>1, <3>2, Zenon
  <2> HIDE DEF f
  <2> QED BY <2>1, <2>2 DEF Injection, IsInjective
<1>3. Cardinality(1 .. Len(bs)) <= Cardinality(Callers)
  <2> HIDE DEF f
  <2> QED BY <1>2, FS_Injection, AggregatorAssumption
<1>4. Len(bs) \in Nat /\ Len(bs) \in Int /\ 1 \in Int /\ Cardinality(Callers) \in Nat
  BY LenProperties, FS_CardinalityType, AggregatorAssumption
<1>5. Cardinality(1 .. Len(bs)) = Len(bs)
  <2>1. Cardinality(1 .. Len(bs)) = IF 1 > Len(bs) THEN 0 ELSE Len(bs) - 1 + 1
    BY <1>4, FS_Interval, Zenon
  <2> QED BY <1>4, <2>1
<1>6. 1 .. Len(bs) \subseteq 1 .. Cardinality(Callers)
  BY <1>3, <1>4, <1>5
<1> QED BY <1>3, <1>5, <1>6, AggregatorAssumption

\* The bodies so far are submits.
LEMMA BodiesAreCalls ==
    ASSUME AggInv
    PROVE  1 .. Body \subseteq Calls /\ Body <= Cardinality(Callers) /\ \A c : BodiesOf(c) \subseteq 1 .. Body
<1>1. 1 .. Len(bodies) \subseteq Calls /\ Len(bodies) <= Cardinality(Callers)
  <2>1. bodies \in Seq(Seq(Callers))
    BY DEF AggInv, AggTypes
  <2>2. /\ \A b \in 1 .. Len(bodies) : bodies[b] # <<>>
        /\ \A a, b \in 1 .. Len(bodies) : a # b => Range(bodies[a]) \cap Range(bodies[b]) = {}
    BY Zenon DEF AggInv, BodiesDisjoint, Body
  <2> QED BY <2>1, <2>2, BodiesFit, Zenon
<1> QED BY <1>1 DEF Body, BodiesOf

\* A sequence with nothing in it.
LEMMA NothingIn ==
    /\ <<>> \in Seq(Callers) /\ Range(<<>>) = {} /\ Distinct(<<>>)
    /\ SumOver(Range(<<>>), Weight) = 0
<1>1. <<>> \in Seq(Callers) /\ Range(<<>>) = {} /\ Distinct(<<>>)
  BY DEF Range, Distinct
<1>2. SumOver({}, Weight) = 0
  BY SumEmpty
<1> QED BY <1>1, <1>2, Zenon

\* What resolve_all does to each entry.
LEMMA ResolveAll ==
    ASSUME NEW e, NEW s, NEW v, NEW c \in Callers
    PROVE  resolve_all(e, s, v)[c] = IF c \in Range(s) /\ e[c] \in {"queued", "in_flight"} THEN v ELSE e[c]
BY DEF resolve_all

\* The end of the pump, with its submit dropped.
LEMMA CloseInv ==
    ASSUME DriverTypes, AggInv, pump \in {"fetch", "parked", "race"}, Close,
           call' = [x \in Calls |-> IF x = Body /\ call[x] = "waiting" THEN "cancelled" ELSE call[x]],
           UNCHANGED <<number, executed>>
    PROVE  AggInv'
<1> USE DEF AggInv
<1>1. /\ pump' = "done" /\ closed' = TRUE /\ waker' = FALSE
      /\ entry' = resolve_all(resolve_all(entry, in_flight, "OutcomeUnknown"), deferred \o queue, "Refused")
      /\ queued' = queued - Units(deferred \o queue)
      /\ deferred' = <<>> /\ queue' = <<>> /\ in_flight' = <<>>
      /\ UNCHANGED <<handles, packed, bodies>>
  BY DEF Close
<1>2. Body' = Body /\ \A d : BodiesOf(d)' = BodiesOf(d)
  BY <1>1, SameBodies
<1>3. /\ Range(deferred \o queue) = Range(deferred) \cup Range(queue)
      /\ Units(deferred \o queue) = SumOver(Range(deferred), Weight) + SumOver(Range(queue), Weight)
  <2>1. /\ deferred \in Seq(Callers) /\ queue \in Seq(Callers) /\ Distinct(deferred) /\ Distinct(queue)
        /\ Range(deferred) \cap Range(queue) = {}
    BY DEF AggTypes, EntriesPlaced
  <2> QED BY <2>1, ConcatDistinct
<1>4. packed = <<>> /\ ~Flying'
  BY <1>1 DEF PumpHolds, Flying
<1>5. \A c \in Callers :
        entry'[c] = IF entry[c] \in {"queued", "in_flight"}
                    THEN IF c \in Range(in_flight) THEN "OutcomeUnknown"
                         ELSE IF c \in Range(deferred) \cup Range(queue) THEN "Refused" ELSE entry[c]
                    ELSE entry[c]
  <2> TAKE c \in Callers
  <2>1. entry'[c] = IF c \in Range(deferred \o queue)
                       /\ resolve_all(entry, in_flight, "OutcomeUnknown")[c] \in {"queued", "in_flight"}
                    THEN "Refused" ELSE resolve_all(entry, in_flight, "OutcomeUnknown")[c]
    BY <1>1, ResolveAll
  <2>2. resolve_all(entry, in_flight, "OutcomeUnknown")[c]
          = IF c \in Range(in_flight) /\ entry[c] \in {"queued", "in_flight"} THEN "OutcomeUnknown" ELSE entry[c]
    BY ResolveAll
  <2>3. c \in Range(deferred \o queue) <=> c \in Range(deferred) \cup Range(queue)
    BY <1>3
  <2> QED BY <2>1, <2>2, <2>3
<1>6. AggTypes'
  <2>1. entry' = [c \in Callers |-> entry'[c]]
    BY <1>1 DEF resolve_all
  <2>2. \A c \in Callers : entry'[c] \in {"idle", "reserved", "queued", "in_flight", "cancelled", "reply",
                                          "Refused", "OutcomeUnknown", "CommittedReplyLost"}
    BY <1>5 DEF AggTypes
  <2>3. entry' \in [Callers -> {"idle", "reserved", "queued", "in_flight", "cancelled", "reply",
                                "Refused", "OutcomeUnknown", "CommittedReplyLost"}]
    BY <2>1, <2>2
  <2>4. closed' \in BOOLEAN /\ waker' \in BOOLEAN
    BY <1>1, Zenon
  <2> QED BY <1>1, <2>3, <2>4, NothingIn DEF AggTypes
<1>7. PumpHolds'
  BY <1>1, <1>4 DEF PumpHolds
<1>8. EntriesPlaced'
  <2>1. /\ Range(queue') = {} /\ Range(deferred') = {} /\ Range(packed') = {}
        /\ Distinct(queue') /\ Distinct(deferred') /\ Distinct(packed')
    BY <1>1, <1>4, NothingIn
  <2>2. \A c \in Callers : entry'[c] \in {"idle", "reserved"} => BodiesOf(c)' = {}
    BY Zenon, <1>2, <1>5 DEF EntriesPlaced
  <2> QED BY Zenon, <2>1, <2>2 DEF EntriesPlaced
<1>9. BodiesDisjoint' /\ OneInFlight'
  <2>1. number' = number /\ executed' = executed
    OBVIOUS
  <2>2. OneInFlight'
    BY <1>2, <2>1 DEF OneInFlight
  <2> QED BY <1>1, <1>2, <2>2 DEF BodiesDisjoint
<1>10. \A x \in Calls : call[x] # "waiting" => call'[x] = call[x]
  OBVIOUS
<1>11. \A c : BodiesOf(c) \subseteq Calls
  BY BodiesAreCalls
<1>12. VerdictsFollow'
  <2> SUFFICES ASSUME NEW c \in Callers
               PROVE  /\ entry'[c] = "Refused" => \A b \in BodiesOf(c) : call'[b] \in {"Busy", "DriverGone"}
                      /\ entry'[c] \in {"reply", "CommittedReplyLost"} => \E b \in BodiesOf(c) : call'[b] = "reply"
    BY <1>2 DEF VerdictsFollow
  <2>1. CASE entry'[c] = entry[c]
    BY <2>1, <1>10, <1>11 DEF VerdictsFollow
  <2>2. CASE entry'[c] = "Refused" /\ c \in Range(deferred) \cup Range(queue)
    BY <2>2 DEF EntriesPlaced, Waits
  <2>3. CASE entry'[c] = "OutcomeUnknown"
    BY <2>3
  <2> QED BY <1>5, <2>1, <2>2, <2>3
<1>13. OnlyLast'
  <2>1. \A x \in Calls : x > Body => call'[x] = "idle"
    BY AggRanges DEF OnlyLast
  <2>2. \A x \in Calls : x < Body => call'[x] \in Outcomes \cup {"cancelled"}
    BY <1>10 DEF OnlyLast, Outcomes
  <2>3. Body \in Calls => call'[Body] \in Outcomes \cup {"cancelled"}
    BY DEF OnlyLast, Outcomes, Flying, DriverTypes
  <2> QED BY <1>1, <1>2, <2>1, <2>2, <2>3 DEF OnlyLast
<1>14. QueuedExact'
  <2>1. Unsent' = Unsent
    BY <1>5 DEF Unsent
  <2>2. /\ SumOver(Range(queue'), Weight) = 0 /\ SumOver(Range(deferred'), Weight) = 0
        /\ SumOver(Range(packed'), Weight) = 0 /\ SumOver(Range(packed), Weight) = 0
    BY <1>1, <1>4, NothingIn
  <2> QED BY <1>1, <1>3, <2>1, <2>2, AggSums DEF QueuedExact
<1> QED BY <1>6, <1>7, <1>8, <1>9, <1>12, <1>13, <1>14

\* A sequence of one entry.
LEMMA OneIn ==
    ASSUME NEW c \in Callers
    PROVE  /\ <<c>> \in Seq(Callers) /\ Range(<<c>>) = {c} /\ Distinct(<<c>>)
           /\ SumOver({c}, Weight) = Weight[c]
<1>1. <<c>> \in Seq(Callers) /\ Range(<<c>>) = {c} /\ Distinct(<<c>>)
  BY DEF Range, Distinct
<1>2. SumOver({} \cup {c}, Weight) = SumOver({}, Weight) + Weight[c]
  BY CallerSumStep
<1>3. {} \cup {c} = {c} /\ SumOver({}, Weight) = 0 /\ Weight[c] \in Nat
  BY SumEmpty, CallerSums
<1> QED BY <1>1, <1>2, <1>3

\* The front entry leaves a sequence of entries.
LEMMA FrontLeaves ==
    ASSUME NEW s \in Seq(Callers), s # <<>>, Distinct(s)
    PROVE  /\ Head(s) \in Range(s) /\ Head(s) \in Callers /\ Tail(s) \in Seq(Callers)
           /\ Distinct(Tail(s)) /\ Range(Tail(s)) = Range(s) \ {Head(s)}
           /\ SumOver(Range(Tail(s)), Weight) = SumOver(Range(s), Weight) - Weight[Head(s)]
<1>1. Head(s) \in Range(s) /\ Distinct(Tail(s)) /\ Range(Tail(s)) = Range(s) \ {Head(s)}
  BY TailElements
<1>2. Head(s) \in Callers /\ Tail(s) \in Seq(Callers)
  BY HeadTailProperties
<1>3. Range(s) \in SUBSET Callers
  BY RangeOfSeq
<1>4. SumOver(Range(s) \ {Head(s)}, Weight) = SumOver(Range(s), Weight) - Weight[Head(s)]
  BY <1>1, <1>2, <1>3, CallerSumStep
<1> QED BY <1>1, <1>2, <1>4, Zenon

\* The front of the queue is taken into an empty deferred sequence.
LEMMA TakeFrontInv ==
    ASSUME AggInv, pump \in {"fetch", "pack"}, deferred = <<>>, queue # <<>>,
           deferred' = <<Head(queue)>>, queue' = Tail(queue), pump' \in {"pack", "packed"},
           UNCHANGED <<entry, closed, waker, handles, queued, packed, in_flight, bodies, call, number,
                       executed>>
    PROVE  AggInv'
<1> USE DEF AggInv
<1> DEFINE c == Head(queue)
<1>1. /\ c \in Range(queue) /\ c \in Callers /\ queue' \in Seq(Callers)
      /\ Distinct(queue') /\ Range(queue') = Range(queue) \ {c}
      /\ SumOver(Range(queue'), Weight) = SumOver(Range(queue), Weight) - Weight[c]
  BY FrontLeaves DEF AggTypes, EntriesPlaced
<1>2. /\ deferred' \in Seq(Callers) /\ Range(deferred') = {c} /\ Distinct(deferred')
      /\ SumOver(Range(deferred'), Weight) = Weight[c]
  <2>1. deferred' = <<c>>
    OBVIOUS
  <2> HIDE DEF c
  <2> QED BY <1>1, <2>1, OneIn, Zenon
<1>3. Body' = Body /\ \A d : BodiesOf(d)' = BodiesOf(d)
  BY SameBodies
<1>4. ~Flying /\ ~Flying' /\ pump # "done" /\ pump' # "done"
  BY DEF Flying
<1> HIDE DEF c
<1>5. AggTypes'
  BY <1>1, <1>2 DEF AggTypes
<1>6. PumpHolds'
  BY <1>4 DEF PumpHolds, Flying
<1>7. EntriesPlaced'
  BY Zenon, <1>1, <1>2, <1>3, <1>4 DEF EntriesPlaced, Waits
<1>8. VerdictsFollow' /\ BodiesDisjoint' /\ OneInFlight'
  <2>1. entry' = entry /\ call' = call /\ number' = number /\ executed' = executed /\ bodies' = bodies
    OBVIOUS
  <2>2. VerdictsFollow'
    BY <1>3, <2>1 DEF VerdictsFollow
  <2>3. OneInFlight'
    BY <1>3, <2>1 DEF OneInFlight
  <2>4. BodiesDisjoint'
    BY Zenon, <1>3, <2>1 DEF BodiesDisjoint
  <2> QED BY <2>2, <2>3, <2>4
<1>9. OnlyLast'
  BY <1>3, <1>4 DEF OnlyLast, Flying
<1>10. QueuedExact'
  <2>1. SumOver(Range(deferred), Weight) = 0 /\ Unsent' = Unsent
    BY NothingIn DEF Unsent
  <2>2. Weight[c] \in Nat
    BY <1>1, CallerSums
  <2>3. SumOver(Range(queue'), Weight) = SumOver(Range(queue), Weight) - Weight[c]
    BY <1>1, Zenon
  <2>4. SumOver(Range(deferred'), Weight) = Weight[c]
    BY <1>2, Zenon
  <2>5. SumOver(Unsent, Weight) \in Nat /\ SumOver(Range(queue), Weight) \in Nat /\ SumOver(Range(packed), Weight) \in Nat
    BY AggSums, Zenon
  <2>6. packed' = packed /\ queued' = queued
    OBVIOUS
  <2> QED BY <2>1, <2>2, <2>3, <2>4, <2>5, <2>6 DEF QueuedExact
<1> QED BY Zenon, <1>5, <1>6, <1>7, <1>8, <1>9, <1>10

\* The pump takes the first entry, parks, or ends.
LEMMA FetchInv ==
    ASSUME DriverTypes, AggInv, Fetch
    PROVE  AggInv'
<1>1. pump = "fetch" /\ UNCHANGED <<call, number, executed>>
  BY DEF Fetch, driverVars
<1>2. CASE deferred # <<>> /\ pump' = "pack" /\ UNCHANGED <<queueVars, deferred, packed, in_flight, bodies>>
  <2>1. waker' \in BOOLEAN /\ handles' \subseteq Callers
    BY <1>2 DEF queueVars, AggInv, AggTypes
  <2> QED BY <1>1, <1>2, <2>1, PumpWakesInv DEF queueVars
<1>3. CASE /\ deferred = <<>> /\ queue # <<>>
           /\ deferred' = <<Head(queue)>> /\ queue' = Tail(queue) /\ pump' = "pack"
           /\ UNCHANGED <<entry, closed, waker, handles, queued, packed, in_flight, bodies>>
  BY <1>1, <1>3, TakeFrontInv
<1>4. CASE Close
  <2>1. Body \in Calls => call[Body] # "waiting"
    BY <1>1 DEF AggInv, OnlyLast, Outcomes, Flying
  <2>2. call' = [x \in Calls |-> IF x = Body /\ call[x] = "waiting" THEN "cancelled" ELSE call[x]]
    BY <1>1, <2>1 DEF DriverTypes
  <2> QED BY <1>1, <1>4, <2>2, CloseInv
<1>5. CASE /\ waker' = TRUE /\ pump' = "parked"
           /\ UNCHANGED <<entry, queue, closed, handles, queued, deferred, packed, in_flight, bodies>>
  <2>1. waker' \in BOOLEAN /\ handles' \subseteq Callers
    <3>1. handles' \subseteq Callers
      BY <1>5 DEF AggInv, AggTypes
    <3> QED BY <1>5, <3>1, Zenon
  <2> QED BY <1>1, <1>5, <2>1, PumpWakesInv
<1> QED BY <1>2, <1>3, <1>4, <1>5, Zenon DEF Fetch

\* Popping the front entry, deferred ones first.
LEMMA PopEntry ==
    ASSUME AggInv, deferred \o queue # <<>>, Pop
    PROVE  /\ Popping \in Callers /\ Popping \in Range(deferred) \cup Range(queue)
           /\ deferred' \in Seq(Callers) /\ queue' \in Seq(Callers) /\ Distinct(deferred') /\ Distinct(queue')
           /\ Range(deferred') = Range(deferred) \ {Popping} /\ Range(queue') = Range(queue) \ {Popping}
           /\ SumOver(Range(deferred'), Weight) + SumOver(Range(queue'), Weight)
                = SumOver(Range(deferred), Weight) + SumOver(Range(queue), Weight) - Weight[Popping]
<1> USE DEF AggInv
<1>1. /\ deferred \in Seq(Callers) /\ queue \in Seq(Callers) /\ Distinct(deferred) /\ Distinct(queue)
      /\ Range(queue) \cap Range(deferred) = {}
  BY DEF AggTypes, EntriesPlaced
<1>2. CASE deferred # <<>>
  <2>1. Popping = Head(deferred) /\ deferred' = Tail(deferred) /\ queue' = queue
    BY <1>2 DEF Popping, Pop
  <2>2. /\ Popping \in Range(deferred) /\ Popping \in Callers /\ deferred' \in Seq(Callers)
        /\ Distinct(deferred') /\ Range(deferred') = Range(deferred) \ {Popping}
        /\ SumOver(Range(deferred'), Weight) = SumOver(Range(deferred), Weight) - Weight[Popping]
    BY <1>1, <1>2, <2>1, FrontLeaves, Zenon
  <2>3. Range(queue') = Range(queue) \ {Popping}
    BY <1>1, <2>1, <2>2
  <2>4. Weight[Popping] \in Nat
    BY <2>2, CallerSums
  <2> QED BY <1>1, <2>1, <2>2, <2>3, <2>4, AggSums
<1>3. CASE deferred = <<>>
  <2>1. queue # <<>>
    BY <1>1, <1>3, ConcatEmptySeq
  <2>2. Popping = Head(queue) /\ queue' = Tail(queue) /\ deferred' = deferred
    BY <1>3 DEF Popping, Pop
  <2>3. /\ Popping \in Range(queue) /\ Popping \in Callers /\ queue' \in Seq(Callers)
        /\ Distinct(queue') /\ Range(queue') = Range(queue) \ {Popping}
        /\ SumOver(Range(queue'), Weight) = SumOver(Range(queue), Weight) - Weight[Popping]
    BY <1>1, <2>1, <2>2, FrontLeaves, Zenon
  <2>4. Range(deferred') = Range(deferred) \ {Popping}
    BY <1>1, <2>2, <2>3
  <2>5. Weight[Popping] \in Nat
    BY <2>3, CallerSums
  <2> QED BY <1>1, <2>2, <2>3, <2>4, <2>5, AggSums
<1> QED BY <1>2, <1>3

\* One entry into the open body, dropped, or put back.
LEMMA PackInv ==
    ASSUME AggInv, Pack
    PROVE  AggInv'
<1> USE DEF AggInv
<1>1. /\ pump = "pack" /\ deferred \o queue # <<>>
      /\ UNCHANGED <<entry, closed, waker, handles, in_flight, bodies, call, number, executed>>
  BY DEF Pack, driverVars
<1>2. Body' = Body /\ \A d : BodiesOf(d)' = BodiesOf(d)
  BY <1>1, SameBodies
<1>3. VerdictsFollow' /\ BodiesDisjoint' /\ OneInFlight' /\ Unsent' = Unsent
  <2>1. VerdictsFollow'
    BY <1>1, <1>2 DEF VerdictsFollow
  <2>2. OneInFlight'
    BY <1>1, <1>2 DEF OneInFlight
  <2>3. BodiesDisjoint'
    BY <1>1, <1>2 DEF BodiesDisjoint
  <2> QED BY <1>1, <2>1, <2>2, <2>3 DEF Unsent
<1> DEFINE c == Popping
<1>4. CASE /\ pump' = pump /\ Pop
           /\ \/ queued' = queued - Weight[Popping] /\ packed' = packed
              \/ packed' = Append(packed, Popping) /\ queued' = queued
  <2>1. /\ c \in Callers /\ c \in Range(deferred) \cup Range(queue)
        /\ deferred' \in Seq(Callers) /\ queue' \in Seq(Callers) /\ Distinct(deferred') /\ Distinct(queue')
        /\ Range(deferred') = Range(deferred) \ {c} /\ Range(queue') = Range(queue) \ {c}
        /\ SumOver(Range(deferred'), Weight) + SumOver(Range(queue'), Weight)
             = SumOver(Range(deferred), Weight) + SumOver(Range(queue), Weight) - Weight[c]
    BY Zenon, <1>1, <1>4, PopEntry
  <2>2. ~Flying /\ ~Flying' /\ Waits(c) /\ c \notin Range(packed)
    BY Zenon, <1>1, <1>4, <2>1 DEF Flying, EntriesPlaced
  <2>3. /\ SumOver(Range(deferred'), Weight) \in Nat /\ SumOver(Range(queue'), Weight) \in Nat
        /\ Weight[c] \in Nat
    BY <2>1, AggRanges, CallerSums
  <2>4. packed \in Seq(Callers) /\ Distinct(packed)
    BY DEF AggTypes, EntriesPlaced
  <2>5. /\ SumOver(Unsent, Weight) \in Nat /\ SumOver(Range(queue), Weight) \in Nat
        /\ SumOver(Range(deferred), Weight) \in Nat /\ SumOver(Range(packed), Weight) \in Nat
        /\ MaxQueued \in Nat
    BY AggSums
  <2>6. /\ queued = SumOver(Unsent, Weight) + SumOver(Range(queue), Weight)
                     + SumOver(Range(deferred), Weight) + SumOver(Range(packed), Weight)
         /\ queued <= MaxQueued /\ SumOver(Unsent', Weight) = SumOver(Unsent, Weight)
    BY <1>3 DEF QueuedExact
  <2>7. SumOver(Range(deferred'), Weight) + SumOver(Range(queue'), Weight)
           = SumOver(Range(deferred), Weight) + SumOver(Range(queue), Weight) - Weight[c]
    BY <2>1, Zenon
  <2> HIDE DEF c
  <2>8. PumpHolds'
    BY Zenon, <1>1, <1>4, <2>2 DEF PumpHolds
  <2>9. OnlyLast'
    BY <1>1, <1>2, <1>4, <2>2 DEF OnlyLast
  <2>10. CASE queued' = queued - Weight[c] /\ packed' = packed
    <3>1. AggTypes'
      BY Zenon, <1>1, <1>4, <2>1, <2>10 DEF AggTypes
    <3>2. EntriesPlaced'
      BY Zenon, <1>1, <1>2, <2>1, <2>2, <2>10 DEF EntriesPlaced, Waits
    <3>3. QueuedExact'
      <4>1. SumOver(Range(packed'), Weight) = SumOver(Range(packed), Weight)
        BY <2>10
      <4>2. queued' <= MaxQueued
        BY <2>3, <2>10, <2>5, <2>6
      <4>3. queued' = SumOver(Unsent', Weight) + SumOver(Range(queue'), Weight)
                      + SumOver(Range(deferred'), Weight) + SumOver(Range(packed'), Weight)
        BY <2>3, <2>10, <2>5, <2>6, <2>7, <4>1
      <4> QED BY Zenon, <4>2, <4>3 DEF QueuedExact
    <3> QED BY <1>3, <2>8, <2>9, <3>1, <3>2, <3>3
  <2>11. CASE packed' = Append(packed, c) /\ queued' = queued
    <3>1. packed' \in Seq(Callers) /\ Range(packed') = Range(packed) \cup {c} /\ Distinct(packed')
      <4>1. c \in Callers /\ c \notin Range(packed)
        BY <2>1, <2>2
      <4>2. Range(Append(packed, c)) = Range(packed) \cup {c} /\ Distinct(Append(packed, c))
        BY <2>4, <4>1, AppendElements, Zenon
      <4>3. Append(packed, c) \in Seq(Callers)
        BY <2>4, <4>1, AppendProperties, Zenon
      <4> QED BY <2>11, <4>2, <4>3, Zenon
    <3>2. SumOver(Range(packed'), Weight) = SumOver(Range(packed), Weight) + Weight[c]
      <4>1. Range(packed) \in SUBSET Callers
        BY AggRanges
      <4>2. SumOver(Range(packed) \cup {c}, Weight) = SumOver(Range(packed), Weight) + Weight[c]
        BY <2>1, <2>2, <4>1, CallerSumStep
      <4> QED BY <3>1, <4>2, Zenon
    <3>3. AggTypes'
      BY <1>1, <1>4, <2>1, <3>1 DEF AggTypes
    <3>4. EntriesPlaced'
      BY Zenon, <1>1, <1>2, <2>1, <2>2, <3>1 DEF EntriesPlaced, Waits
    <3>5. QueuedExact'
      <4>1. queued' = queued
        BY <2>11
      <4> QED BY <2>3, <2>5, <2>6, <2>7, <3>2, <4>1 DEF QueuedExact
    <3> QED BY <1>3, <2>8, <2>9, <3>3, <3>4, <3>5
  <2> QED BY <1>4, <2>10, <2>11 DEF c
<1>5. CASE /\ pump' = "packed" /\ UNCHANGED <<queued, packed>>
           /\ deferred' = <<Popping>> \o (IF deferred # <<>> THEN Tail(deferred) ELSE deferred)
           /\ queue' = IF deferred # <<>> THEN queue ELSE Tail(queue)
  <2>1. deferred \in Seq(Callers) /\ queue \in Seq(Callers)
    BY DEF AggTypes
  <2>2. CASE deferred = <<>>
    <3>1. queue # <<>>
      BY <1>1, <2>1, <2>2, ConcatEmptySeq
    <3>2. Head(queue) \in Callers
      BY <2>1, <3>1, HeadTailProperties
    <3>3. deferred' = <<Head(queue)>> /\ queue' = Tail(queue)
      BY <1>5, <2>2, <3>2, ConcatEmptySeq, OneIn DEF Popping
    <3> QED BY <1>1, <1>5, <2>2, <3>1, <3>3, TakeFrontInv
  <2>3. CASE deferred # <<>>
    <3>1. deferred' = deferred
      <4>1. <<Head(deferred)>> \o Tail(deferred) = deferred
        BY <2>1, <2>3
      <4> QED BY <1>5, <2>3, <4>1 DEF Popping
    <3>2. AggTypes'
      BY <1>1, <1>5, <2>3, <3>1 DEF AggTypes
    <3>3. ~Flying /\ ~Flying' /\ queue' = queue
      BY <1>1, <1>5, <2>3 DEF Flying
    <3>4. PumpHolds' /\ OnlyLast'
      BY <1>1, <1>2, <1>5, <3>1, <3>3 DEF PumpHolds, OnlyLast
    <3>5. packed' = packed /\ queued' = queued /\ entry' = entry
      BY <1>1, <1>5
    <3>6. EntriesPlaced'
      BY <1>2, <3>1, <3>3, <3>5 DEF EntriesPlaced, Waits
    <3>7. QueuedExact'
      BY <1>3, <3>1, <3>3, <3>5 DEF QueuedExact
    <3> QED BY <1>3, <3>2, <3>4, <3>6, <3>7
  <2> QED BY <2>2, <2>3
<1> QED BY <1>4, <1>5 DEF Pack

=============================================================================
