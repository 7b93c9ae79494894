---------------------------- MODULE DriverProofs ----------------------------
(***************************************************************************)
(* Proofs about the in-flight budget and the client driver: sums over      *)
(* finite sets, the two counters of the budget for any number of threads   *)
(* (BudgetInv), and the driver with any number of submits made directly    *)
(* through its handle (DriverInv).                                         *)
(***************************************************************************)
EXTENDS ClientDriver, InflightBudget, FiniteSetTheorems, SequenceTheorems, TLAPS

-----------------------------------------------------------------------------
(* Sums. *)

\* The units of one element.
LEMMA UnitsOfOne ==
    ASSUME NEW x, NEW n \in Nat
    PROVE  IsFiniteSet({x} \X (1 .. n)) /\ Cardinality({x} \X (1 .. n)) = n
<1>1. IsFiniteSet({x}) /\ Cardinality({x}) = 1
  BY FS_Singleton
<1>2. IsFiniteSet(1 .. n) /\ Cardinality(1 .. n) = n
  BY FS_Interval
<1>3. /\ IsFiniteSet({x} \X (1 .. n))
      /\ Cardinality({x} \X (1 .. n)) = Cardinality({x}) * Cardinality(1 .. n)
  BY <1>1, <1>2, FS_Product, Zenon
<1>4. 1 * n = n
  OBVIOUS
<1> QED BY <1>1, <1>2, <1>3, <1>4, Zenon

\* Finitely many elements have finitely many units, and the sum is a number.
LEMMA SumType ==
    ASSUME NEW S, IsFiniteSet(S), NEW w, \A x \in S : w[x] \in Nat
    PROVE  IsFiniteSet(UnitsOf(S, w)) /\ SumOver(S, w) \in Nat
<1> DEFINE F == {{x} \X (1 .. w[x]) : x \in S}
           f == [x \in S |-> {x} \X (1 .. w[x])]
<1>1. IsFiniteSet(F)
  <2>1. f \in Surjection(S, F)
    BY Zenon DEF Surjection
  <2> QED BY <2>1, FS_Surjection
<1>2. \A T \in F : IsFiniteSet(T)
  <2> SUFFICES ASSUME NEW x \in S
               PROVE  IsFiniteSet({x} \X (1 .. w[x]))
    OBVIOUS
  <2> QED BY UnitsOfOne, Zenon
<1>3. IsFiniteSet(UNION F)
  <2> HIDE DEF F
  <2> QED BY <1>1, <1>2, FS_UNION
<1> QED BY <1>3, FS_CardinalityType DEF UnitsOf, SumOver

\* The sum over no elements.
LEMMA SumEmpty ==
    ASSUME NEW w
    PROVE  SumOver({}, w) = 0
<1>1. UnitsOf({}, w) = {}
  BY DEF UnitsOf
<1> QED BY <1>1, FS_EmptySet DEF SumOver

\* One more element adds its own units.
LEMMA SumAdd ==
    ASSUME NEW S, IsFiniteSet(S), NEW x, x \notin S, NEW w, \A y \in S \cup {x} : w[y] \in Nat
    PROVE  SumOver(S \cup {x}, w) = SumOver(S, w) + w[x]
<1> DEFINE U == UnitsOf(S, w)
           V == {x} \X (1 .. w[x])
<1>1. UnitsOf(S \cup {x}, w) = U \cup V
  BY DEF UnitsOf
<1>2. U \cap V = {}
  BY DEF UnitsOf
<1>3. IsFiniteSet(U) /\ Cardinality(U) \in Nat
  BY SumType DEF SumOver
<1>4. IsFiniteSet(V) /\ Cardinality(V) = w[x]
  BY Zenon, UnitsOfOne
<1>5. Cardinality(U \cup V) = Cardinality(U) + Cardinality(V) - Cardinality(U \cap V)
  <2> HIDE DEF U, V
  <2> QED BY <1>3, <1>4, FS_Union
<1>6. Cardinality(U \cap V) = 0
  BY <1>2, FS_EmptySet, Zenon
<1>7. Cardinality(U \cup V) = Cardinality(U) + w[x]
  <2> HIDE DEF U, V
  <2> QED BY <1>3, <1>4, <1>5, <1>6
<1> QED BY <1>1, <1>7 DEF SumOver

\* One element less takes its own units away.
LEMMA SumRemove ==
    ASSUME NEW S, IsFiniteSet(S), NEW x \in S, NEW w, \A y \in S : w[y] \in Nat
    PROVE  SumOver(S \ {x}, w) = SumOver(S, w) - w[x]
<1>1. IsFiniteSet(S \ {x})
  BY FS_Subset
<1>2. (S \ {x}) \cup {x} = S
  OBVIOUS
<1>3. SumOver(S, w) = SumOver(S \ {x}, w) + w[x]
  BY Zenon, <1>1, <1>2, SumAdd
<1>4. SumOver(S \ {x}, w) \in Nat
  BY <1>1, SumType
<1> QED BY <1>3, <1>4

\* A sum only depends on the weights of its elements.
LEMMA SumSame ==
    ASSUME NEW S, NEW v, NEW w, \A x \in S : v[x] = w[x]
    PROVE  SumOver(S, v) = SumOver(S, w)
<1>1. UnitsOf(S, v) = UnitsOf(S, w)
  BY DEF UnitsOf
<1> QED BY <1>1 DEF SumOver

\* Fewer elements have no larger sum.
LEMMA SumSubset ==
    ASSUME NEW S, IsFiniteSet(S), NEW R \in SUBSET S, NEW w, \A x \in S : w[x] \in Nat
    PROVE  SumOver(R, w) <= SumOver(S, w)
<1>1. UnitsOf(R, w) \subseteq UnitsOf(S, w)
  BY DEF UnitsOf
<1>2. IsFiniteSet(UnitsOf(S, w))
  BY SumType
<1> QED BY <1>1, <1>2, FS_Subset DEF SumOver

-----------------------------------------------------------------------------
(* The two counters of the in-flight budget. *)

\* Of any threads that have raised the count and not lowered it, one saw them all: the last
\* of them to raise it.
SawAll == \A S \in SUBSET InCount : S # {} => \E t \in S : SumOver(S, CountOf) <= new_count[t]

\* A reservation was granted on a count within the limit.
GrantedInTime == \A t \in Granted : new_count[t] <= MaxCount

BudgetInv == BudgetTypeOK /\ NoLeak /\ HeldWithinBudget /\ SawAll /\ GrantedInTime

\* The sets the sums range over are finite, and what a thread wants is a number of each.
LEMMA BudgetSets ==
    ASSUME BudgetTypeOK
    PROVE  /\ \A S \in SUBSET Threads : IsFiniteSet(S)
           /\ InCount \subseteq Threads /\ InBytes \subseteq Threads /\ Granted \subseteq Threads
           /\ \A t \in Threads : want[t].count \in Nat /\ want[t].bytes \in Nat
           /\ \A t \in Threads : CountOf[t] = want[t].count /\ BytesOf[t] = want[t].bytes
<1>1. \A S \in SUBSET Threads : IsFiniteSet(S)
  BY BudgetAssumption, FS_Subset
<1>2. InCount \subseteq Threads /\ InBytes \subseteq Threads /\ Granted \subseteq Threads
  BY DEF InCount, InBytes, Granted
<1>3. \A t \in Threads : want[t].count \in Nat /\ want[t].bytes \in Nat
  <2>1. \A v \in Wants : v.count \in Nat /\ v.bytes \in Nat
    BY Zenon, BudgetAssumption DEF Wants
  <2>2. Zero.count \in Nat /\ Zero.bytes \in Nat
    BY DEF Zero
  <2>3. \A t \in Threads : want[t] \in Wants \/ want[t] = Zero
    BY DEF BudgetTypeOK
  <2> QED BY <2>1, <2>2, <2>3
<1> QED BY <1>1, <1>2, <1>3 DEF CountOf, BytesOf

\* The first fetch_add.
LEMMA RaiseCountInv ==
    ASSUME BudgetInv, NEW t \in Threads, RaiseCount(t)
    PROVE  BudgetInv'
<1> USE DEF BudgetInv
<1>1. PICK w \in Wants : /\ want' = [want EXCEPT ![t] = w]
                         /\ count' = count + w.count
                         /\ new_count' = [new_count EXCEPT ![t] = count + w.count]
  BY Zenon DEF RaiseCount
<1>2. at[t] = "idle" /\ at' = [at EXCEPT ![t] = "counted"] /\ bytes' = bytes
  BY DEF RaiseCount, Goto
<1>3. w.count \in Nat /\ w.bytes \in Nat
  BY Zenon, BudgetAssumption DEF Wants
<1>4. BudgetTypeOK'
  BY <1>1, <1>2, <1>3 DEF BudgetTypeOK
<1>5. /\ InCount' = InCount \cup {t} /\ t \notin InCount
      /\ InBytes' = InBytes /\ t \notin InBytes
      /\ Granted' = Granted /\ t \notin Granted
  BY <1>2 DEF InCount, InBytes, Granted, BudgetTypeOK
<1>6. /\ \A u \in Threads \ {t} : CountOf'[u] = CountOf[u] /\ BytesOf'[u] = BytesOf[u]
      /\ CountOf'[t] = w.count
  BY <1>1 DEF CountOf, BytesOf, BudgetTypeOK
<1>7. \A S \in SUBSET (Threads \ {t}) : /\ SumOver(S, CountOf') = SumOver(S, CountOf)
                                        /\ SumOver(S, BytesOf') = SumOver(S, BytesOf)
  BY <1>6, SumSame
<1>8. SumOver(InCount', CountOf') = SumOver(InCount, CountOf') + w.count
  <2>1. \A u \in InCount \cup {t} : CountOf'[u] \in Nat
    BY <1>4, BudgetSets, <1>3, <1>6 DEF InCount
  <2>2. IsFiniteSet(InCount)
    BY BudgetSets
  <2>3. SumOver(InCount \cup {t}, CountOf') = SumOver(InCount, CountOf') + CountOf'[t]
    BY Zenon, <1>5, <2>1, <2>2, SumAdd
  <2> QED BY <1>5, <1>6, <2>3
<1>9. NoLeak'
  BY <1>1, <1>2, <1>5, <1>7, <1>8, BudgetSets DEF NoLeak
<1>10. HeldWithinBudget'
  BY <1>5, <1>7, BudgetSets DEF HeldWithinBudget
<1>11. SawAll'
  <2> SUFFICES ASSUME NEW S \in SUBSET InCount', S # {}
               PROVE  \E u \in S : SumOver(S, CountOf') <= new_count'[u]
    BY DEF SawAll
  <2>1. CASE t \in S
    <3>1. SumOver(S, CountOf') <= SumOver(InCount', CountOf')
      <4>1. IsFiniteSet(InCount') /\ \A u \in InCount' : CountOf'[u] \in Nat
        BY <1>3, <1>4, <1>5, <1>6, BudgetSets
      <4> QED BY <4>1, SumSubset
    <3>2. SumOver(InCount', CountOf') = new_count'[t]
      BY <1>9, <1>1 DEF NoLeak, BudgetTypeOK
    <3> QED BY <2>1, <3>1, <3>2
  <2>2. CASE t \notin S
    <3>1. S \in SUBSET InCount /\ S \in SUBSET (Threads \ {t})
      BY <2>2, <1>5, BudgetSets
    <3>2. PICK u \in S : SumOver(S, CountOf) <= new_count[u]
      BY <3>1 DEF SawAll
    <3>3. new_count'[u] = new_count[u]
      BY <1>1, <3>1 DEF BudgetTypeOK
    <3> QED BY <3>1, <3>2, <3>3, <1>7
  <2> QED BY <2>1, <2>2
<1>12. GrantedInTime'
  BY <1>1, <1>5 DEF GrantedInTime, BudgetTypeOK, Granted
<1> QED BY <1>4, <1>9, <1>10, <1>11, <1>12

\* The second fetch_add, and the decision.
LEMMA RaiseBytesInv ==
    ASSUME BudgetInv, NEW t \in Threads, RaiseBytes(t)
    PROVE  BudgetInv'
<1> USE DEF BudgetInv
<1>1. /\ at[t] = "counted" /\ bytes' = bytes + want[t].bytes
      /\ count' = count /\ want' = want /\ new_count' = new_count
  BY DEF RaiseBytes
<1>2. PICK to \in {"refused", "granted"} :
        /\ at' = [at EXCEPT ![t] = to]
        /\ to = "granted" => new_count[t] <= MaxCount /\ bytes' <= MaxBytes
  <2>1. CASE new_count[t] > MaxCount \/ bytes' > MaxBytes
    BY Zenon, <2>1 DEF RaiseBytes
  <2>2. CASE ~(new_count[t] > MaxCount \/ bytes' > MaxBytes)
    <3>1. new_count[t] \in Nat /\ bytes' \in Nat
      BY <1>1, BudgetSets DEF BudgetTypeOK
    <3>2. new_count[t] <= MaxCount /\ bytes' <= MaxBytes
      BY <2>2, <3>1, BudgetAssumption
    <3> QED BY <2>2, <3>2 DEF RaiseBytes
  <2> QED BY <2>1, <2>2
<1>3. BudgetTypeOK'
  BY <1>1, <1>2, BudgetSets DEF BudgetTypeOK
<1>4. CountOf' = CountOf /\ BytesOf' = BytesOf
  BY <1>1 DEF CountOf, BytesOf
<1>5. /\ InCount' = InCount /\ t \in InCount
      /\ InBytes' = InBytes \cup {t} /\ t \notin InBytes
      /\ to = "refused" => Granted' = Granted
      /\ to = "granted" => Granted' = Granted \cup {t}
      /\ Granted' \subseteq InCount' /\ Granted' \subseteq InBytes'
  BY <1>1, <1>2 DEF InCount, InBytes, Granted, BudgetTypeOK
<1>6. SumOver(InBytes', BytesOf) = SumOver(InBytes, BytesOf) + want[t].bytes
  <2>1. \A u \in InBytes \cup {t} : BytesOf[u] \in Nat
    BY BudgetSets
  <2>2. IsFiniteSet(InBytes)
    BY BudgetSets
  <2>3. SumOver(InBytes \cup {t}, BytesOf) = SumOver(InBytes, BytesOf) + BytesOf[t]
    BY Zenon, <1>5, <2>1, <2>2, SumAdd
  <2> QED BY <1>5, <2>3, BudgetSets
<1>7. NoLeak'
  BY <1>1, <1>4, <1>5, <1>6 DEF NoLeak
<1>8. SawAll'
  BY <1>1, <1>4, <1>5 DEF SawAll
<1>9. GrantedInTime'
  BY <1>1, <1>2, <1>5 DEF GrantedInTime
<1>10. HeldWithinBudget'
  <2>1. CASE to = "refused"
    BY <2>1, <1>4, <1>5 DEF HeldWithinBudget
  <2>2. CASE to = "granted"
    <3>1. PICK u \in Granted' : SumOver(Granted', CountOf') <= new_count'[u]
      BY <1>5, <1>8, <2>2 DEF SawAll
    <3>2. new_count'[u] <= MaxCount /\ new_count'[u] \in Nat
      BY <1>3, <1>9 DEF GrantedInTime, BudgetTypeOK, Granted
    <3>3. \A v \in InBytes' : BytesOf'[v] \in Nat
      BY <1>3, <1>4, <1>5, BudgetSets
    <3>4. IsFiniteSet(InBytes') /\ IsFiniteSet(Granted')
      BY <1>5, BudgetSets, FS_Subset, FS_AddElement
    <3>5. SumOver(Granted', BytesOf') <= SumOver(InBytes', BytesOf')
      BY <1>5, <3>3, <3>4, SumSubset
    <3>6. SumOver(Granted', BytesOf') \in Nat
      BY <1>5, <3>3, <3>4, SumType
    <3>7. \A v \in Granted' : CountOf'[v] \in Nat
      BY <1>4, <1>5, BudgetSets
    <3>8. SumOver(Granted', CountOf') \in Nat
      BY <3>4, <3>7, SumType
    <3>9. bytes' \in Nat /\ bytes' = SumOver(InBytes', BytesOf')
      BY <1>3, <1>7 DEF BudgetTypeOK, NoLeak
    <3> QED BY <2>2, <1>2, <3>1, <3>2, <3>5, <3>6, <3>8, <3>9, BudgetAssumption DEF HeldWithinBudget
  <2> QED BY <2>1, <2>2, <1>2
<1> QED BY <1>3, <1>7, <1>8, <1>9, <1>10

\* The first fetch_sub, of a refusal or of a release.
LEMMA LowerCountInv ==
    ASSUME BudgetInv, NEW t \in Threads, NEW from \in {"refused", "granted"}, LowerCount(t, from)
    PROVE  BudgetInv'
<1> USE DEF BudgetInv
<1>1. /\ at[t] = from /\ at' = [at EXCEPT ![t] = "lowered"]
      /\ count' = count - want[t].count
      /\ bytes' = bytes /\ want' = want /\ new_count' = new_count
  BY DEF LowerCount, Goto
<1>2. CountOf' = CountOf /\ BytesOf' = BytesOf
  BY <1>1 DEF CountOf, BytesOf
<1>3. /\ InCount' = InCount \ {t} /\ t \in InCount
      /\ InBytes' = InBytes
      /\ Granted' = Granted \ {t}
  BY <1>1 DEF InCount, InBytes, Granted, BudgetTypeOK
<1>4. SumOver(InCount', CountOf) = SumOver(InCount, CountOf) - want[t].count
  <2>1. \A u \in InCount : CountOf[u] \in Nat
    BY BudgetSets
  <2>2. IsFiniteSet(InCount)
    BY BudgetSets
  <2>3. SumOver(InCount \ {t}, CountOf) = SumOver(InCount, CountOf) - CountOf[t]
    BY <1>3, <2>1, <2>2, SumRemove
  <2> QED BY <1>3, <2>3, BudgetSets
<1>5. NoLeak'
  BY <1>1, <1>2, <1>3, <1>4 DEF NoLeak
<1>6. BudgetTypeOK'
  <2>1. \A u \in InCount' : CountOf[u] \in Nat
    BY <1>3, BudgetSets
  <2>2. IsFiniteSet(InCount')
    BY <1>3, BudgetSets, FS_Subset
  <2>3. SumOver(InCount', CountOf) \in Nat
    BY <2>1, <2>2, SumType
  <2> QED BY <1>1, <1>2, <1>5, <2>3 DEF BudgetTypeOK, NoLeak
<1>7. SawAll'
  BY <1>1, <1>2, <1>3 DEF SawAll
<1>8. GrantedInTime'
  BY <1>1, <1>3 DEF GrantedInTime
<1>9. HeldWithinBudget'
  <2>1. IsFiniteSet(Granted) /\ \A u \in Granted : CountOf[u] \in Nat /\ BytesOf[u] \in Nat
    BY BudgetSets
  <2>2. /\ SumOver(Granted', CountOf) <= SumOver(Granted, CountOf)
        /\ SumOver(Granted', BytesOf) <= SumOver(Granted, BytesOf)
    BY <1>3, <2>1, SumSubset
  <2>3. IsFiniteSet(Granted') /\ \A u \in Granted' : CountOf[u] \in Nat /\ BytesOf[u] \in Nat
    BY <1>3, <2>1, FS_Subset
  <2>4. /\ SumOver(Granted', CountOf) \in Nat /\ SumOver(Granted', BytesOf) \in Nat
        /\ SumOver(Granted, CountOf) \in Nat /\ SumOver(Granted, BytesOf) \in Nat
    BY <2>1, <2>3, SumType
  <2> QED BY <1>2, <2>2, <2>4, BudgetAssumption DEF HeldWithinBudget
<1> QED BY <1>5, <1>6, <1>7, <1>8, <1>9

\* The second fetch_sub.
LEMMA LowerBytesInv ==
    ASSUME BudgetInv, NEW t \in Threads, LowerBytes(t)
    PROVE  BudgetInv'
<1> USE DEF BudgetInv
<1>1. /\ at[t] = "lowered" /\ at' = [at EXCEPT ![t] = "idle"]
      /\ bytes' = bytes - want[t].bytes /\ count' = count
      /\ want' = [want EXCEPT ![t] = Zero] /\ new_count' = [new_count EXCEPT ![t] = 0]
  BY DEF LowerBytes, Goto
<1>2. /\ InCount' = InCount /\ t \notin InCount
      /\ InBytes' = InBytes \ {t} /\ t \in InBytes
      /\ Granted' = Granted /\ t \notin Granted
  BY <1>1 DEF InCount, InBytes, Granted, BudgetTypeOK
<1>3. \A u \in Threads \ {t} : CountOf'[u] = CountOf[u] /\ BytesOf'[u] = BytesOf[u]
  BY <1>1 DEF CountOf, BytesOf, BudgetTypeOK
<1>4. \A S \in SUBSET (Threads \ {t}) : /\ SumOver(S, CountOf') = SumOver(S, CountOf)
                                        /\ SumOver(S, BytesOf') = SumOver(S, BytesOf)
  BY <1>3, SumSame
<1>5. SumOver(InBytes', BytesOf) = SumOver(InBytes, BytesOf) - want[t].bytes
  <2>1. IsFiniteSet(InBytes) /\ \A u \in InBytes : BytesOf[u] \in Nat
    BY BudgetSets
  <2>2. SumOver(InBytes \ {t}, BytesOf) = SumOver(InBytes, BytesOf) - BytesOf[t]
    BY <1>2, <2>1, SumRemove
  <2> QED BY <1>2, <2>2, BudgetSets
<1>6. NoLeak'
  BY <1>1, <1>2, <1>4, <1>5, BudgetSets DEF NoLeak
<1>7. BudgetTypeOK'
  <2>1. IsFiniteSet(InBytes') /\ \A u \in InBytes' : BytesOf[u] \in Nat
    BY <1>2, BudgetSets, FS_Subset
  <2>2. SumOver(InBytes', BytesOf) \in Nat
    BY <2>1, SumType
  <2>3. bytes' \in Nat
    BY <2>2, <1>1, <1>5 DEF NoLeak
  <2> QED BY <1>1, <2>3 DEF BudgetTypeOK
<1>8. SawAll'
  <2> SUFFICES ASSUME NEW S \in SUBSET InCount', S # {}
               PROVE  \E u \in S : SumOver(S, CountOf') <= new_count'[u]
    BY DEF SawAll
  <2>1. S \in SUBSET InCount /\ S \in SUBSET (Threads \ {t})
    BY <1>2, BudgetSets
  <2>2. PICK u \in S : SumOver(S, CountOf) <= new_count[u]
    BY <2>1 DEF SawAll
  <2>3. new_count'[u] = new_count[u]
    BY <1>1, <2>1 DEF BudgetTypeOK
  <2> QED BY <2>1, <2>2, <2>3, <1>4
<1>9. GrantedInTime'
  BY <1>1, <1>2 DEF GrantedInTime, BudgetTypeOK, Granted
<1>10. HeldWithinBudget'
  BY <1>2, <1>4, BudgetSets DEF HeldWithinBudget
<1> QED BY <1>6, <1>7, <1>8, <1>9, <1>10

\* The invariant of the two counters.
LEMMA BudgetInvariant == BudgetSpec => []BudgetInv
<1>1. BudgetInit => BudgetInv
  <2> SUFFICES ASSUME BudgetInit PROVE BudgetInv
    OBVIOUS
  <2>1. BudgetTypeOK
    BY DEF BudgetInit, BudgetTypeOK
  <2>2. InCount = {} /\ InBytes = {} /\ Granted = {}
    BY DEF BudgetInit, InCount, InBytes, Granted
  <2>3. NoLeak /\ HeldWithinBudget
    BY <2>2, SumEmpty, BudgetAssumption DEF BudgetInit, NoLeak, HeldWithinBudget
  <2>4. SawAll /\ GrantedInTime
    BY <2>2 DEF SawAll, GrantedInTime
  <2> QED BY <2>1, <2>3, <2>4 DEF BudgetInv
<1>2. BudgetInv /\ [BudgetNext]_budgetVars => BudgetInv'
  <2> SUFFICES ASSUME BudgetInv, [BudgetNext]_budgetVars PROVE BudgetInv'
    OBVIOUS
  <2>1. CASE BudgetNext
    <3>1. PICK t \in Threads : try_acquire_many(t) \/ release(t) \/ LowerBytes(t)
      BY <2>1 DEF BudgetNext
    <3> QED BY <3>1, RaiseCountInv, RaiseBytesInv, LowerCountInv, LowerBytesInv
            DEF try_acquire_many, release
  <2>2. CASE UNCHANGED budgetVars
    BY <2>2 DEF budgetVars, BudgetInv, BudgetTypeOK, NoLeak, HeldWithinBudget, SawAll, GrantedInTime,
                InCount, InBytes, Granted, CountOf, BytesOf
  <2> QED BY <2>1, <2>2
<1> QED BY <1>1, <1>2, PTL DEF BudgetSpec

\* For any number of submitting threads and any limits, the reservations held at once never
\* exceed either limit of the budget, although each thread raises and checks the two atomic
\* counters one after the other (try_acquire_many, release).
THEOREM BudgetHolds == BudgetSpec => []HeldWithinBudget
<1>1. BudgetInv => HeldWithinBudget
  BY DEF BudgetInv
<1> QED BY <1>1, BudgetInvariant, PTL

\* For any number of threads, each counter is the sum of what is reserved: a refusal and the
\* drop of a reservation both give back exactly what was added.
THEOREM BudgetNeverLeaks == BudgetSpec => []NoLeak
<1>1. BudgetInv => NoLeak
  BY DEF BudgetInv
<1> QED BY <1>1, BudgetInvariant, PTL

-----------------------------------------------------------------------------
(* The driver. *)

Distinct(s) == \A i, j \in DOMAIN s : s[i] = s[j] => i = j

InChannel == Range(commands) \ {ShutdownCommand}

Reserving == {x \in Calls : call[x] = "reserved"}

\* The types of the driver's state.
DriverTypes ==
    /\ call \in [Calls -> {"idle", "gated", "reserved", "waiting", "cancelled"} \cup Outcomes]
    /\ commands \in Seq(Calls \cup {ShutdownCommand}) /\ Len(commands) <= CmdCap
    /\ loop \in {"running", "quiescing", "stopped"} /\ retired \in BOOLEAN /\ releasing \in BOOLEAN
    /\ next_request \in Nat /\ number \in [Calls -> 0 .. next_request]
    /\ pending \in [DOMAIN pending -> Calls] /\ DOMAIN pending \subseteq 1 .. next_request
    /\ wire \subseteq 1 .. next_request
    /\ applied \in Nat /\ executed \in Nat /\ applied <= executed /\ executed <= next_request

\* A submit is in one place at a time, with a number exactly when it is past the channel, and
\* one that waits is in the channel or in the pending map.
Places ==
    /\ Distinct(commands)
    /\ \A n \in DOMAIN pending : number[pending[n]] = n /\ call[pending[n]] \in {"waiting", "cancelled"}
    /\ \A x \in InChannel : number[x] = 0 /\ call[x] \in {"waiting", "cancelled"}
    /\ \A x \in Calls : call[x] = "waiting" => x \in InChannel \cup Waiters
    /\ \A x \in Calls : call[x] \in {"idle", "gated", "reserved", "Busy", "DriverGone"} => number[x] = 0

\* What the end of the loop leaves behind, and what it takes to see it.
Endings ==
    /\ loop # "running" => pending = <<>> /\ ~releasing
    /\ loop = "stopped" => commands = <<>>
    /\ \A x \in Calls : call[x] = "ReplyDropped" => loop # "running"
    /\ \A x \in Calls : call[x] = "Retired" => retired

\* A reply is one of an executed request.
RepliesExecuted == \A x \in Calls : call[x] = "reply" => number[x] \in 1 .. executed

\* Every reservation is somewhere.
SlotsExact ==
    /\ budget = Cardinality(Reserving) + Cardinality(InChannel) + Cardinality(DOMAIN pending)
                + (IF releasing THEN 1 ELSE 0)
    /\ budget <= MaxInflight

DriverInv == DriverTypes /\ Places /\ Endings /\ RepliesExecuted /\ SlotsExact

\* A command put on the channel.
LEMMA AppendElements ==
    ASSUME NEW S, NEW s \in Seq(S), NEW x \in S, x \notin Range(s), Distinct(s)
    PROVE  Range(Append(s, x)) = Range(s) \cup {x} /\ Distinct(Append(s, x))
<1>1. /\ DOMAIN s = 1 .. Len(s) /\ DOMAIN Append(s, x) = 1 .. (Len(s) + 1) /\ Len(s) \in Nat
      /\ \A i \in 1 .. Len(s) : Append(s, x)[i] = s[i]
      /\ Append(s, x)[Len(s) + 1] = x
  BY AppendProperties, LenProperties
<1>2. Range(Append(s, x)) = Range(s) \cup {x}
  BY <1>1 DEF Range
<1>3. Distinct(Append(s, x))
  BY <1>1 DEF Distinct, Range
<1> QED BY <1>2, <1>3

\* A command taken off the channel.
LEMMA TailElements ==
    ASSUME NEW S, NEW s \in Seq(S), s # <<>>, Distinct(s)
    PROVE  Range(Tail(s)) = Range(s) \ {Head(s)} /\ Distinct(Tail(s)) /\ Head(s) \in Range(s)
<1>1. /\ DOMAIN s = 1 .. Len(s) /\ DOMAIN Tail(s) = 1 .. (Len(s) - 1) /\ Len(s) \in Nat \ {0}
      /\ \A i \in 1 .. (Len(s) - 1) : Tail(s)[i] = s[i + 1]
      /\ Head(s) = s[1]
  BY HeadTailProperties, LenProperties, EmptySeq
<1>2. \A i \in 2 .. Len(s) : Tail(s)[i - 1] = s[i] /\ i - 1 \in DOMAIN Tail(s)
  BY <1>1
<1>3. Range(Tail(s)) \subseteq Range(s) \ {Head(s)}
  BY <1>1 DEF Range, Distinct
<1>4. Range(s) \ {Head(s)} \subseteq Range(Tail(s))
  <2> SUFFICES ASSUME NEW i \in DOMAIN s, s[i] # Head(s)
               PROVE  s[i] \in Range(Tail(s))
    BY DEF Range
  <2>1. i \in 2 .. Len(s)
    BY <1>1
  <2> QED BY Zenon, <2>1, <1>2 DEF Range
<1>5. Distinct(Tail(s))
  BY <1>1 DEF Distinct
<1>6. Head(s) \in Range(s)
  BY <1>1 DEF Range
<1> QED BY <1>3, <1>4, <1>5, <1>6, Zenon

\* Distinct commands are as many as their positions.
LEMMA CountCommands ==
    ASSUME NEW S, NEW s \in Seq(S), Distinct(s), NEW z
    PROVE  /\ IsFiniteSet(Range(s) \ {z})
           /\ Cardinality({i \in DOMAIN s : s[i] # z}) = Cardinality(Range(s) \ {z})
<1> DEFINE I == {i \in DOMAIN s : s[i] # z}
           E == Range(s) \ {z}
           f == [i \in I |-> s[i]]
<1>1. IsFiniteSet(I)
  <2>1. IsFiniteSet(DOMAIN s)
    BY LenProperties, FS_Interval
  <2> QED BY <2>1, FS_Subset
<1>2. f \in Bijection(I, E)
  <2>1. f \in [I -> E]
    BY DEF Range
  <2>2. \A i, j \in I : f[i] = f[j] => i = j
    BY DEF Distinct
  <2>3. \A e \in E : \E i \in I : f[i] = e
    BY DEF Range
  <2> HIDE DEF f, I, E
  <2> QED BY <2>1, <2>2, <2>3 DEF Bijection, Injection, Surjection, IsInjective
<1>3. ExistsBijection(I, E)
  BY Zenon, <1>2 DEF ExistsBijection
<1> HIDE DEF I, E
<1>4. IsFiniteSet(E) /\ Cardinality(E) = Cardinality(I)
  BY <1>1, <1>3, FS_Bijection
<1> QED BY <1>4 DEF I, E

\* The sets whose sizes make up the budget.
LEMMA DriverSets ==
    ASSUME DriverTypes
    PROVE  /\ IsFiniteSet(Reserving) /\ Cardinality(Reserving) \in Nat
           /\ IsFiniteSet(InChannel) /\ Cardinality(InChannel) \in Nat /\ InChannel \subseteq Calls
           /\ IsFiniteSet(DOMAIN pending) /\ Cardinality(DOMAIN pending) \in Nat
           /\ Waiters \subseteq Calls
           /\ ShutdownCommand \notin Calls
<1>1. IsFiniteSet(Reserving)
  BY DriverAssumption, FS_Subset DEF Reserving
<1>2. InChannel \subseteq Calls
  <2>1. \A i \in DOMAIN commands : commands[i] \in Calls \cup {ShutdownCommand}
    BY LenProperties, ElementOfSeq DEF DriverTypes
  <2> QED BY <2>1 DEF InChannel, Range
<1>3. IsFiniteSet(InChannel)
  BY Zenon, <1>2, DriverAssumption, FS_Subset
<1>4. IsFiniteSet(DOMAIN pending)
  <2>1. next_request \in Int /\ 1 \in Int
    BY DEF DriverTypes
  <2>2. IsFiniteSet(1 .. next_request)
    BY <2>1, FS_Interval
  <2> QED BY <2>2, FS_Subset DEF DriverTypes
<1>5. Waiters \subseteq Calls
  BY DEF Waiters, DriverTypes
<1>6. ShutdownCommand \notin Calls
  BY DriverAssumption DEF ShutdownCommand
<1> QED BY <1>1, <1>2, <1>3, <1>4, <1>5, <1>6, FS_CardinalityType

\* What the count of slots adds up, and that each part of it is a number.
LEMMA SlotFacts ==
    ASSUME DriverInv
    PROVE  /\ Cardinality(Reserving) \in Nat /\ Cardinality(InChannel) \in Nat
           /\ Cardinality(DOMAIN pending) \in Nat /\ MaxInflight \in Nat /\ budget <= MaxInflight
           /\ budget = Cardinality(Reserving) + Cardinality(InChannel) + Cardinality(DOMAIN pending)
                       + (IF releasing THEN 1 ELSE 0)
  BY Zenon, DriverSets, DriverAssumption DEF DriverInv, SlotsExact

\* Handle::submit up to its reservation.
LEMMA GateInv ==
    ASSUME DriverInv, NEW x \in Calls, Gate(x)
    PROVE  DriverInv'
<1> USE DEF DriverInv
<1>1. PICK to \in {"Retired", "gated"} : call' = [call EXCEPT ![x] = to] /\ (to = "Retired" => retired)
  BY Zenon DEF Gate
<1>2. /\ call[x] = "idle"
      /\ UNCHANGED <<commands, budget, loop, retired, next_request, pending, number, releasing, wire,
                     executed, applied>>
  BY DEF Gate, clusterVars
<1>3. DriverTypes'
  BY <1>1, <1>2 DEF DriverTypes, Outcomes
<1>4. Reserving' = Reserving /\ InChannel' = InChannel /\ Waiters' = Waiters
  BY <1>1, <1>2 DEF Reserving, InChannel, Waiters, DriverTypes
<1>5. Places'
  BY <1>1, <1>2, <1>4, DriverSets DEF Places, DriverTypes
<1>6. Endings' /\ RepliesExecuted'
  BY <1>1, <1>2 DEF Endings, RepliesExecuted, DriverTypes
<1>7. SlotsExact'
  BY <1>2, <1>4 DEF SlotsExact
<1> QED BY <1>3, <1>5, <1>6, <1>7

\* The reservation.
LEMMA ReserveInv ==
    ASSUME DriverInv, NEW x \in Calls, Reserve(x)
    PROVE  DriverInv'
<1> USE DEF DriverInv
<1>1. PICK to \in {"Busy", "reserved"} :
        /\ call' = [call EXCEPT ![x] = to]
        /\ to = "Busy" => budget' = budget
        /\ to = "reserved" => budget' = budget + 1 /\ ~(budget + 1 > MaxInflight)
  BY DEF Reserve
<1>2. /\ call[x] = "gated"
      /\ UNCHANGED <<commands, loop, retired, next_request, pending, number, releasing, wire,
                     executed, applied>>
  BY DEF Reserve, clusterVars
<1>3. DriverTypes'
  BY <1>1, <1>2 DEF DriverTypes, Outcomes
<1>4. InChannel' = InChannel /\ Waiters' = Waiters
  BY <1>2 DEF InChannel, Waiters
<1>5. Places'
  BY <1>1, <1>2, <1>4, DriverSets DEF Places, DriverTypes
<1>6. Endings' /\ RepliesExecuted'
  BY <1>1, <1>2 DEF Endings, RepliesExecuted, DriverTypes
<1>7. SlotsExact'
  <2>1. CASE to = "Busy"
    <3>1. Reserving' = Reserving
      BY <1>1, <1>2, <2>1 DEF Reserving, DriverTypes
    <3> QED BY <1>1, <1>2, <1>4, <2>1, <3>1 DEF SlotsExact
  <2>2. CASE to = "reserved"
    <3>1. Reserving' = Reserving \cup {x} /\ x \notin Reserving
      BY <1>1, <1>2, <2>2 DEF Reserving, DriverTypes
    <3>2. Cardinality(Reserving') = Cardinality(Reserving) + 1
      BY Zenon, <3>1, DriverSets, FS_AddElement
    <3> QED BY <1>1, <1>2, <1>4, <2>2, <3>2, DriverSets, DriverAssumption DEF SlotsExact
  <2> QED BY <1>1, <2>1, <2>2
<1> QED BY <1>3, <1>5, <1>6, <1>7

\* The send on the channel.
LEMMA SendInv ==
    ASSUME DriverInv, NEW x \in Calls, Send(x)
    PROVE  DriverInv'
<1> USE DEF DriverInv
<1>1. PICK to \in {"waiting", "Busy", "DriverGone"} :
        /\ call' = [call EXCEPT ![x] = to]
        /\ to = "waiting" => /\ commands' = Append(commands, x) /\ budget' = budget
                             /\ loop # "stopped" /\ Len(commands) < CmdCap
        /\ to # "waiting" => commands' = commands /\ budget' = budget - 1
  BY DEF Send
<1>2. /\ call[x] = "reserved"
      /\ UNCHANGED <<loop, retired, next_request, pending, number, releasing, wire, executed, applied>>
  BY DEF Send, clusterVars
<1>3. x \notin Range(commands)
  BY <1>2, DriverSets DEF Places, InChannel
<1>4. to = "waiting" => /\ commands' \in Seq(Calls \cup {ShutdownCommand}) /\ Len(commands') <= CmdCap
                        /\ Range(commands') = Range(commands) \cup {x} /\ Distinct(commands')
  <2> SUFFICES ASSUME to = "waiting"
               PROVE  /\ commands' \in Seq(Calls \cup {ShutdownCommand}) /\ Len(commands') <= CmdCap
                      /\ Range(commands') = Range(commands) \cup {x} /\ Distinct(commands')
    OBVIOUS
  <2>1. commands \in Seq(Calls \cup {ShutdownCommand}) /\ Distinct(commands)
    BY DEF DriverTypes, Places
  <2>2. Range(commands') = Range(commands) \cup {x} /\ Distinct(commands')
    <3>1. x \in Calls \cup {ShutdownCommand} /\ commands' = Append(commands, x)
      BY <1>1
    <3> QED BY <1>3, <2>1, <3>1, AppendElements
  <2> QED BY <1>1, <2>1, <2>2, AppendProperties, DriverAssumption
<1>5. DriverTypes'
  BY <1>1, <1>2, <1>4 DEF DriverTypes, Outcomes
<1>6. /\ Waiters' = Waiters
      /\ to = "waiting" => InChannel' = InChannel \cup {x} /\ x \notin InChannel
      /\ to # "waiting" => InChannel' = InChannel /\ Distinct(commands')
  BY <1>1, <1>2, <1>3, <1>4, DriverSets DEF InChannel, Waiters, Places
<1>7. Reserving' = Reserving \ {x} /\ x \in Reserving
  BY <1>1, <1>2 DEF Reserving, DriverTypes
<1>8. Places'
  BY <1>1, <1>2, <1>4, <1>6, DriverSets DEF Places, DriverTypes
<1>9. Endings' /\ RepliesExecuted'
  BY <1>1, <1>2 DEF Endings, RepliesExecuted, DriverTypes
<1>10. SlotsExact'
  <2>1. Cardinality(Reserving') = Cardinality(Reserving) - 1
    BY Zenon, <1>7, DriverSets, FS_RemoveElement
  <2>2. to = "waiting" => Cardinality(InChannel') = Cardinality(InChannel) + 1
    BY <1>6, DriverSets, FS_AddElement
  <2>3. Cardinality(Reserving') \in Nat
    BY <1>5, DriverSets, <1>7, FS_RemoveElement, FS_CardinalityType
  <2>4. UNCHANGED <<pending, releasing>> /\ DOMAIN pending' = DOMAIN pending
    BY <1>2
  <2>5. CASE to = "waiting"
    <3>1. budget' = budget /\ Cardinality(InChannel') = Cardinality(InChannel) + 1
      BY <1>1, <2>2, <2>5
    <3> QED BY <2>1, <2>3, <2>4, <3>1, SlotFacts DEF SlotsExact
  <2>6. CASE to # "waiting"
    <3>1. budget' = budget - 1 /\ InChannel' = InChannel
      BY <1>1, <1>6, <2>6
    <3> QED BY <2>1, <2>3, <2>4, <3>1, SlotFacts DEF SlotsExact
  <2> QED BY <2>5, <2>6
<1> QED BY <1>5, <1>8, <1>9, <1>10

\* The caller drops the future that awaits the reply.
LEMMA CancelInv ==
    ASSUME DriverInv, NEW x \in Calls, call[x] = "waiting", call' = [call EXCEPT ![x] = "cancelled"],
           UNCHANGED <<commands, budget, loop, retired, next_request, pending, number, releasing, wire,
                       executed, applied>>
    PROVE  DriverInv'
<1> USE DEF DriverInv
<1>1. DriverTypes'
  BY DEF DriverTypes
<1>2. Reserving' = Reserving /\ InChannel' = InChannel /\ Waiters' = Waiters
  BY DEF Reserving, InChannel, Waiters, DriverTypes
<1>3. Places'
  BY <1>2, DriverSets DEF Places, DriverTypes
<1>4. Endings' /\ RepliesExecuted'
  BY DEF Endings, RepliesExecuted, DriverTypes
<1>5. SlotsExact'
  BY <1>2 DEF SlotsExact
<1> QED BY <1>1, <1>3, <1>4, <1>5

\* Taking the front command off the channel.
LEMMA TakeCommand ==
    ASSUME DriverInv, commands # <<>>, commands' = Tail(commands)
    PROVE  /\ commands' \in Seq(Calls \cup {ShutdownCommand}) /\ Len(commands') <= CmdCap
           /\ Distinct(commands') /\ InChannel' = InChannel \ {Head(commands)}
           /\ Head(commands) \in Range(commands)
<1>1. commands \in Seq(Calls \cup {ShutdownCommand}) /\ Distinct(commands) /\ Len(commands) <= CmdCap
  BY DEF DriverInv, DriverTypes, Places
<1>2. /\ Range(Tail(commands)) = Range(commands) \ {Head(commands)} /\ Distinct(Tail(commands))
      /\ Head(commands) \in Range(commands)
  BY <1>1, TailElements
<1>3. Tail(commands) \in Seq(Calls \cup {ShutdownCommand}) /\ Len(Tail(commands)) <= CmdCap
  BY <1>1, HeadTailProperties, LenProperties, DriverAssumption
<1> QED BY <1>2, <1>3 DEF InChannel

\* Dropping reply channels ends the submits that wait, and no other.
LEMMA DroppedCalls ==
    ASSUME DriverTypes, NEW xs, NEW reason \in {"Retired", "ReplyDropped"}, call' = Dropped(xs, reason)
    PROVE  /\ call' \in [Calls -> {"idle", "gated", "reserved", "waiting", "cancelled"} \cup Outcomes]
           /\ \A x \in Calls : call'[x] = IF x \in xs /\ call[x] = "waiting" THEN reason ELSE call[x]
           /\ Reserving' = Reserving
<1>1. \A x \in Calls : call'[x] = IF x \in xs /\ call[x] = "waiting" THEN reason ELSE call[x]
  BY DEF Dropped
<1>2. call' = [x \in Calls |-> call'[x]]
  BY DEF Dropped
<1>3. \A x \in Calls : call'[x] \in {"idle", "gated", "reserved", "waiting", "cancelled"} \cup Outcomes
  BY <1>1 DEF DriverTypes, Outcomes
<1>4. Reserving' = Reserving
  BY <1>1 DEF Reserving
<1> QED BY <1>1, <1>2, <1>3, <1>4

\* The run loop takes a submit off the channel.
LEMMA HandleSubmitInv ==
    ASSUME DriverInv, NEW x \in Calls, HandleSubmit(x)
    PROVE  DriverInv'
<1> USE DEF DriverInv
<1>1. /\ loop = "running" /\ commands # <<>> /\ Head(commands) = x /\ commands' = Tail(commands)
      /\ UNCHANGED <<loop, retired, releasing, executed, applied>>
  BY DEF HandleSubmit
<1>2. /\ commands' \in Seq(Calls \cup {ShutdownCommand}) /\ Len(commands') <= CmdCap
      /\ Distinct(commands') /\ InChannel' = InChannel \ {x} /\ x \in InChannel
  BY <1>1, TakeCommand, DriverSets DEF InChannel
<1>3. number[x] = 0 /\ call[x] \in {"waiting", "cancelled"}
  BY <1>2 DEF Places
<1>4. Cardinality(InChannel') = Cardinality(InChannel) - 1 /\ Cardinality(InChannel') \in Nat
  BY <1>2, DriverSets, FS_RemoveElement, FS_CardinalityType
<1>5. CASE retired \/ call[x] = "cancelled"
  <2>1. /\ call' = Dropped({x}, "Retired") /\ budget' = budget - 1
        /\ UNCHANGED <<next_request, pending, number, wire>>
    BY <1>5 DEF HandleSubmit
  <2>2. /\ call' \in [Calls -> {"idle", "gated", "reserved", "waiting", "cancelled"} \cup Outcomes]
        /\ \A y \in Calls : call'[y] = IF y \in {x} /\ call[y] = "waiting" THEN "Retired" ELSE call[y]
        /\ Reserving' = Reserving
    BY <2>1, DroppedCalls
  <2>3. DriverTypes'
    BY Zenon, <1>1, <1>2, <2>1, <2>2 DEF DriverTypes
  <2>4. Waiters' = Waiters
    BY <2>1 DEF Waiters
  <2>5. \A n \in DOMAIN pending : pending[n] # x
    BY <1>3 DEF Places, DriverTypes
  <2>6. Places'
    <3>1. \A n \in DOMAIN pending : pending[n] \in Calls /\ call'[pending[n]] = call[pending[n]]
      BY <2>2, <2>5 DEF DriverTypes
    <3>2. \A n \in DOMAIN pending' : number'[pending'[n]] = n /\ call'[pending'[n]] \in {"waiting", "cancelled"}
      BY Zenon, <2>1, <3>1 DEF Places
    <3>3. InChannel' \subseteq InChannel /\ x \notin InChannel' /\ InChannel \subseteq Calls
      BY <1>2, DriverSets
    <3>4. \A y \in InChannel' : number'[y] = 0 /\ call'[y] \in {"waiting", "cancelled"}
      BY <2>1, <2>2, <3>3 DEF Places
    <3>5. \A y \in Calls : call'[y] = "waiting" => y \in InChannel' \cup Waiters'
      BY <1>2, <1>3, <2>2, <2>4 DEF Places
    <3>6. \A y \in Calls : call'[y] \in {"idle", "gated", "reserved", "Busy", "DriverGone"} => number'[y] = 0
      BY <2>1, <2>2 DEF Places
    <3> QED BY Zenon, <1>2, <3>2, <3>4, <3>5, <3>6 DEF Places
  <2>7. Endings' /\ RepliesExecuted'
    BY Zenon, <1>1, <1>3, <1>5, <2>1, <2>2 DEF Endings, RepliesExecuted
  <2>8. SlotsExact'
    BY <1>1, <1>4, <2>1, <2>2, SlotFacts DEF SlotsExact
  <2> QED BY <2>3, <2>6, <2>7, <2>8
<1>6. CASE ~(retired \/ call[x] = "cancelled")
  <2> DEFINE m == next_request + 1
  <2>1. /\ next_request' = m /\ DOMAIN pending' = DOMAIN pending \cup {m}
        /\ \A n \in DOMAIN pending' : pending'[n] = IF n = m THEN x ELSE pending[n]
        /\ pending' = [n \in DOMAIN pending' |-> pending'[n]]
        /\ number' = [number EXCEPT ![x] = m] /\ wire' = wire \cup {m}
        /\ call' = call /\ budget' = budget
    BY <1>6 DEF HandleSubmit
  <2>2. m \in Nat \ {0} /\ m \notin DOMAIN pending /\ \A k \in 0 .. next_request : k \in 0 .. m
    BY DEF DriverTypes
  <2>3. number' \in [Calls -> 0 .. m] /\ DOMAIN pending' \subseteq 1 .. m /\ wire' \subseteq 1 .. m
    BY <2>1, <2>2 DEF DriverTypes
  <2>4. \A n \in DOMAIN pending' : pending'[n] \in Calls
    BY <2>1 DEF DriverTypes
  <2>5. pending' \in [DOMAIN pending' -> Calls]
    BY <2>1, <2>4
  <2>6. DriverTypes'
    BY <1>1, <1>2, <2>1, <2>2, <2>3, <2>5 DEF DriverTypes
  <2>7. Waiters' = Waiters \cup {x}
    BY <2>1, <2>2 DEF Waiters
  <2>8. \A n \in DOMAIN pending : pending[n] # x
    BY <1>3 DEF Places, DriverTypes
  <2>9. \A y \in Calls : number'[y] = IF y = x THEN m ELSE number[y]
    BY <2>1 DEF DriverTypes
  <2>10. \A n \in DOMAIN pending' : number'[pending'[n]] = n /\ call'[pending'[n]] \in {"waiting", "cancelled"}
    BY <1>3, <2>1, <2>4, <2>8, <2>9 DEF Places
  <2>11. Places'
    BY <1>2, <1>3, <2>1, <2>7, <2>9, <2>10, DriverSets DEF Places
  <2>12. Endings' /\ RepliesExecuted'
    BY <1>1, <1>3, <2>1, <2>9 DEF Endings, RepliesExecuted
  <2>13. SlotsExact'
    <3>1. Cardinality(DOMAIN pending') = Cardinality(DOMAIN pending) + 1
      BY Zenon, <2>1, <2>2, DriverSets, FS_AddElement
    <3>2. Reserving' = Reserving
      BY <2>1 DEF Reserving
    <3> QED BY <1>1, <1>4, <2>1, <3>1, <3>2, DriverSets, DriverAssumption DEF SlotsExact
  <2> QED BY <2>6, <2>11, <2>12, <2>13
<1> QED BY <1>5, <1>6

\* Draining the pending map: nobody is in it any more, and its slots are given back.
LEMMA DrainPending ==
    ASSUME DriverInv, ~releasing, NEW reason \in {"Retired", "ReplyDropped"}, drain_pending(reason)
    PROVE  /\ call' \in [Calls -> {"idle", "gated", "reserved", "waiting", "cancelled"} \cup Outcomes]
           /\ \A x \in Calls : call'[x] = IF x \in Waiters /\ call[x] = "waiting" THEN reason ELSE call[x]
           /\ Reserving' = Reserving /\ Waiters' = {}
           /\ pending' = <<>> /\ DOMAIN pending' = {} /\ pending' \in [DOMAIN pending' -> Calls]
           /\ budget' = Cardinality(Reserving) + Cardinality(InChannel) /\ budget' <= MaxInflight
           /\ Cardinality(DOMAIN pending') = 0
<1> USE DEF DriverInv
<1>1. /\ pending' = <<>> /\ call' = Dropped(Waiters, reason)
      /\ budget' = budget - Cardinality(DOMAIN pending)
  BY DEF drain_pending
<1>2. /\ call' \in [Calls -> {"idle", "gated", "reserved", "waiting", "cancelled"} \cup Outcomes]
      /\ \A x \in Calls : call'[x] = IF x \in Waiters /\ call[x] = "waiting" THEN reason ELSE call[x]
      /\ Reserving' = Reserving
  BY <1>1, DroppedCalls
<1>3. DOMAIN pending' = {} /\ pending' \in [DOMAIN pending' -> Calls]
  BY <1>1
<1>4. Waiters' = {}
  BY <1>3 DEF Waiters
<1>5. budget' = Cardinality(Reserving) + Cardinality(InChannel) /\ budget' <= MaxInflight
  BY <1>1, SlotFacts
<1>6. Cardinality(DOMAIN pending') = 0
  BY <1>3, FS_EmptySet
<1> QED BY <1>1, <1>2, <1>3, <1>4, <1>5, <1>6

\* The run loop takes Shutdown off the channel.
LEMMA HandleShutdownInv ==
    ASSUME DriverInv, HandleShutdown
    PROVE  DriverInv'
<1> USE DEF DriverInv
<1>1. /\ ~releasing /\ commands # <<>> /\ Head(commands) = ShutdownCommand /\ commands' = Tail(commands)
      /\ loop' = "quiescing"
      /\ UNCHANGED <<retired, next_request, number, releasing, wire, executed, applied>>
  BY DEF HandleShutdown, clusterVars
<1>2. PICK reason \in {"Retired", "ReplyDropped"} :
        drain_pending(reason) /\ (reason = "Retired" => retired)
  BY DEF HandleShutdown, reply_dropped_reason
<1>3. /\ commands' \in Seq(Calls \cup {ShutdownCommand}) /\ Len(commands') <= CmdCap
      /\ Distinct(commands') /\ InChannel' = InChannel
  BY <1>1, TakeCommand DEF InChannel
<1>4. /\ call' \in [Calls -> {"idle", "gated", "reserved", "waiting", "cancelled"} \cup Outcomes]
      /\ \A x \in Calls : call'[x] = IF x \in Waiters /\ call[x] = "waiting" THEN reason ELSE call[x]
      /\ Reserving' = Reserving /\ Waiters' = {}
      /\ pending' = <<>> /\ DOMAIN pending' = {} /\ pending' \in [DOMAIN pending' -> Calls]
      /\ budget' = Cardinality(Reserving) + Cardinality(InChannel) /\ budget' <= MaxInflight
      /\ Cardinality(DOMAIN pending') = 0
  BY <1>1, <1>2, <1>3, DrainPending
<1>5. DriverTypes'
  BY <1>1, <1>3, <1>4 DEF DriverTypes
<1>6. \A x \in InChannel : x \notin Waiters
  BY DEF Places, Waiters, DriverTypes
<1>7. Places'
  BY Zenon, <1>1, <1>3, <1>4, <1>6, DriverSets DEF Places
<1>8. Endings' /\ RepliesExecuted'
  BY Zenon, <1>1, <1>2, <1>4 DEF Endings, RepliesExecuted
<1>9. SlotsExact'
  BY <1>1, <1>3, <1>4, DriverSets DEF SlotsExact
<1> QED BY <1>5, <1>7, <1>8, <1>9

\* The node is retired.
LEMMA RetireInv ==
    ASSUME DriverInv, Retire
    PROVE  DriverInv'
<1> USE DEF DriverInv
<1>1. /\ loop = "running" /\ ~releasing /\ retired' = TRUE /\ drain_pending("Retired")
      /\ UNCHANGED <<commands, loop, next_request, number, releasing, wire, executed, applied>>
  BY DEF Retire, clusterVars
<1>2. InChannel' = InChannel
  BY <1>1 DEF InChannel
<1>3. /\ call' \in [Calls -> {"idle", "gated", "reserved", "waiting", "cancelled"} \cup Outcomes]
      /\ \A x \in Calls : call'[x] = IF x \in Waiters /\ call[x] = "waiting" THEN "Retired" ELSE call[x]
      /\ Reserving' = Reserving /\ Waiters' = {}
      /\ pending' = <<>> /\ DOMAIN pending' = {} /\ pending' \in [DOMAIN pending' -> Calls]
      /\ budget' = Cardinality(Reserving) + Cardinality(InChannel) /\ budget' <= MaxInflight
      /\ Cardinality(DOMAIN pending') = 0
  BY <1>1, <1>2, DrainPending
<1>4. DriverTypes'
  BY <1>1, <1>3 DEF DriverTypes
<1>5. \A x \in InChannel : x \notin Waiters
  BY DEF Places, Waiters, DriverTypes
<1>6. Places'
  BY <1>1, <1>2, <1>3, <1>5, DriverSets DEF Places
<1>7. Endings' /\ RepliesExecuted'
  BY <1>1, <1>3 DEF Endings, RepliesExecuted
<1>8. SlotsExact'
  BY <1>1, <1>2, <1>3, DriverSets DEF SlotsExact
<1> QED BY <1>4, <1>6, <1>7, <1>8

\* The end of the run loop: what is left in the channel is dropped.
LEMMA TeardownInv ==
    ASSUME DriverInv, Teardown
    PROVE  DriverInv'
<1> USE DEF DriverInv
<1>1. /\ loop = "quiescing" /\ loop' = "stopped" /\ commands' = <<>>
      /\ budget' = budget - Cardinality(InChannel)
      /\ UNCHANGED <<retired, next_request, pending, number, releasing, wire, executed, applied>>
  BY Zenon DEF Teardown, clusterVars, InChannel, Range
<1>2. PICK reason \in {"Retired", "ReplyDropped"} :
        call' = Dropped(InChannel, reason) /\ (reason = "Retired" => retired)
  BY DEF Teardown, reply_dropped_reason, InChannel, Range
<1>3. /\ call' \in [Calls -> {"idle", "gated", "reserved", "waiting", "cancelled"} \cup Outcomes]
      /\ \A x \in Calls : call'[x] = IF x \in InChannel /\ call[x] = "waiting" THEN reason ELSE call[x]
      /\ Reserving' = Reserving
  BY <1>2, DroppedCalls
<1>4. pending = <<>> /\ ~releasing /\ Waiters = {} /\ DOMAIN pending = {}
  BY <1>1 DEF Endings, Waiters
<1>5. /\ commands' \in Seq(Calls \cup {ShutdownCommand}) /\ Len(commands') <= CmdCap
      /\ Range(commands') = {} /\ Distinct(commands')
  <2>1. DOMAIN commands' = {} /\ Len(commands') = 0
    BY <1>1
  <2> QED BY <1>1, <2>1, DriverAssumption DEF Range, Distinct
<1>6. InChannel' = {} /\ Cardinality(InChannel') = 0
  BY <1>5, FS_EmptySet DEF InChannel
<1>7. DriverTypes'
  BY <1>1, <1>3, <1>5 DEF DriverTypes
<1>8. Places'
  BY Zenon, <1>1, <1>3, <1>4, <1>5, <1>6, DriverSets DEF Places
<1>9. Endings' /\ RepliesExecuted'
  BY Zenon, <1>1, <1>2, <1>3, <1>4 DEF Endings, RepliesExecuted
<1>10. SlotsExact'
  BY <1>1, <1>3, <1>6, DriverSets, DriverAssumption DEF SlotsExact
<1> QED BY <1>7, <1>8, <1>9, <1>10

\* The periodic walk reaps the cancelled submits.
LEMMA ReapInv ==
    ASSUME DriverInv, reap_and_collect_retransmits
    PROVE  DriverInv'
<1> USE DEF DriverInv
<1>1. /\ loop = "running" /\ pending' = [n \in Live |-> pending[n]]
      /\ budget' = budget - Cardinality(DOMAIN pending \ Live)
      /\ wire' = (IF retired THEN wire ELSE wire \cup Live)
      /\ UNCHANGED <<call, commands, loop, retired, next_request, number, releasing, executed, applied>>
  BY DEF reap_and_collect_retransmits
<1>2. Live \subseteq DOMAIN pending
  BY DEF Live
<1>3. /\ DOMAIN pending' = Live /\ \A n \in Live : pending'[n] = pending[n]
      /\ pending' \in [DOMAIN pending' -> Calls]
  BY <1>1, <1>2 DEF DriverTypes
<1>4. DriverTypes'
  BY <1>1, <1>2, <1>3 DEF DriverTypes
<1>5. Reserving' = Reserving /\ InChannel' = InChannel
  BY <1>1 DEF Reserving, InChannel
<1>6. \A x \in Calls : call[x] = "waiting" /\ x \in Waiters => x \in Waiters'
  BY <1>3 DEF Waiters, Live
<1>7. Places'
  BY <1>1, <1>2, <1>3, <1>5, <1>6, DriverSets DEF Places
<1>8. Endings' /\ RepliesExecuted'
  BY Zenon, <1>1 DEF Endings, RepliesExecuted
<1>9. SlotsExact'
  <2>1. IsFiniteSet(Live) /\ Cardinality(Live) \in Nat
    BY <1>2, DriverSets, FS_Subset, FS_CardinalityType
  <2>2. DOMAIN pending \cap Live = Live
    BY <1>2
  <2>3. Cardinality(DOMAIN pending \ Live) = Cardinality(DOMAIN pending) - Cardinality(DOMAIN pending \cap Live)
    BY Zenon, DriverSets, FS_Difference
  <2>4. Cardinality(DOMAIN pending \ Live) = Cardinality(DOMAIN pending) - Cardinality(Live)
    BY <2>2, <2>3
  <2>5. Cardinality(DOMAIN pending \ Live) \in Nat
    BY DriverSets, FS_Subset, FS_CardinalityType
  <2> QED BY <1>1, <1>3, <1>5, <2>1, <2>4, <2>5, SlotFacts DEF SlotsExact
<1> QED BY <1>4, <1>7, <1>8, <1>9

\* A commit answers its submit.
LEMMA CommittedInv ==
    ASSUME DriverInv, Committed
    PROVE  DriverInv'
<1> USE DEF DriverInv
<1> DEFINE n == applied + 1
<1>1. /\ loop = "running" /\ ~releasing /\ applied < executed /\ applied' = applied + 1
      /\ call' = (IF n \in DOMAIN pending /\ call[pending[n]] = "waiting"
                  THEN [call EXCEPT ![pending[n]] = "reply"] ELSE call)
      /\ pending' = [m \in DOMAIN pending \ {n} |-> pending[m]]
      /\ releasing' = (n \in DOMAIN pending) /\ budget' = budget
      /\ UNCHANGED <<commands, loop, retired, next_request, number, wire, executed>>
  BY DEF Committed, deliver_event
<1>2. n \in 1 .. executed /\ applied' \in Nat /\ applied' <= executed
  BY <1>1 DEF DriverTypes
<1>3. /\ DOMAIN pending' = DOMAIN pending \ {n} /\ \A m \in DOMAIN pending' : pending'[m] = pending[m]
      /\ pending' \in [DOMAIN pending' -> Calls]
  BY <1>1 DEF DriverTypes
<1>4. /\ call' \in [Calls -> {"idle", "gated", "reserved", "waiting", "cancelled"} \cup Outcomes]
      /\ \A x \in Calls : call'[x] = IF n \in DOMAIN pending /\ pending[n] = x /\ call[x] = "waiting"
                                     THEN "reply" ELSE call[x]
  BY <1>1 DEF DriverTypes, Outcomes
<1>5. DriverTypes'
  BY <1>1, <1>2, <1>3, <1>4 DEF DriverTypes
<1>6. Reserving' = Reserving /\ InChannel' = InChannel
  BY <1>1, <1>4 DEF Reserving, InChannel
<1>7. \A m \in DOMAIN pending' : n \in DOMAIN pending => pending[m] # pending[n]
  BY <1>3 DEF Places
<1>8. \A x \in InChannel : x \notin Waiters
  BY DEF Places, Waiters, DriverTypes
<1>9. \A x \in Calls : call'[x] = "waiting" /\ x \in Waiters => x \in Waiters'
  BY <1>3, <1>4 DEF Waiters
<1>10. Places'
  <2>1. \A m \in DOMAIN pending' : number'[pending'[m]] = m /\ call'[pending'[m]] \in {"waiting", "cancelled"}
    BY <1>1, <1>3, <1>4, <1>7 DEF Places, DriverTypes
  <2>2. \A x \in InChannel' : number'[x] = 0 /\ call'[x] \in {"waiting", "cancelled"}
    <3>1. \A x \in InChannel : x \in Calls /\ number[x] = 0 /\ call[x] \in {"waiting", "cancelled"}
      BY DriverSets DEF Places
    <3>2. n \in DOMAIN pending => pending[n] \in Waiters
      BY DEF Waiters
    <3> QED BY Zenon, <1>1, <1>4, <1>6, <1>8, <3>1, <3>2
  <2>3. \A x \in Calls : call'[x] = "waiting" => x \in InChannel' \cup Waiters'
    BY <1>4, <1>6, <1>9 DEF Places
  <2>4. \A x \in Calls : call'[x] \in {"idle", "gated", "reserved", "Busy", "DriverGone"} => number'[x] = 0
    BY Zenon, <1>1, <1>4 DEF Places
  <2> QED BY Zenon, <1>1, <2>1, <2>2, <2>3, <2>4 DEF Places
<1>11. Endings'
  BY <1>1, <1>4 DEF Endings
<1>12. RepliesExecuted'
  <2> SUFFICES ASSUME NEW x \in Calls, call'[x] = "reply" PROVE number'[x] \in 1 .. executed'
    BY DEF RepliesExecuted
  <2>1. CASE n \in DOMAIN pending /\ pending[n] = x
    BY Zenon, <1>1, <1>2, <2>1 DEF Places
  <2>2. CASE call[x] = "reply"
    BY Zenon, <1>1, <2>2 DEF RepliesExecuted
  <2> QED BY Zenon, <1>4, <2>1, <2>2
<1>13. SlotsExact'
  <2>1. Cardinality(DOMAIN pending') = IF n \in DOMAIN pending THEN Cardinality(DOMAIN pending) - 1
                                       ELSE Cardinality(DOMAIN pending)
    BY Zenon, <1>3, DriverSets, FS_RemoveElement
  <2>2. CASE n \in DOMAIN pending
    <3>1. releasing'
      BY Zenon, <1>1, <2>2
    <3> QED BY <1>1, <1>6, <2>1, <2>2, <3>1, SlotFacts DEF SlotsExact
  <2>3. CASE n \notin DOMAIN pending
    <3>1. ~releasing'
      BY Zenon, <1>1, <2>3
    <3> QED BY Zenon, <1>1, <1>6, <2>1, <2>3, <3>1, DriverSets DEF SlotsExact
  <2> QED BY <2>2, <2>3
<1> QED BY <1>5, <1>10, <1>11, <1>12, <1>13

\* The steps that leave every submit where it is.
LEMMA QuietInv ==
    ASSUME DriverInv, DropReservation \/ Execute \/ Lose \/ Install
    PROVE  DriverInv'
<1> USE DEF DriverInv
<1>1. UNCHANGED <<call, commands, loop, retired, next_request, pending, number>>
  BY Zenon DEF DropReservation, Execute, Lose, Install
<1>2. Reserving' = Reserving /\ InChannel' = InChannel /\ Waiters' = Waiters
  BY <1>1 DEF Reserving, InChannel, Waiters
<1>3. Places'
  BY Zenon, <1>1, <1>2 DEF Places
<1>4. CASE DropReservation
  <2>1. releasing /\ releasing' = FALSE /\ budget' = budget - 1 /\ UNCHANGED <<wire, executed, applied>>
    BY <1>4 DEF DropReservation, clusterVars
  <2>2. DriverTypes' /\ Endings' /\ RepliesExecuted'
    BY Zenon, <1>1, <2>1 DEF DriverTypes, Endings, RepliesExecuted
  <2>3. SlotsExact'
    BY <1>1, <1>2, <2>1, SlotFacts DEF SlotsExact
  <2> QED BY <1>3, <2>2, <2>3
<1>5. CASE Execute \/ Lose \/ Install
  <2>1. /\ wire' \subseteq wire /\ UNCHANGED <<releasing, budget>> /\ executed' \in Nat /\ applied' \in Nat
        /\ applied' <= executed' /\ executed <= executed' /\ executed' <= next_request
    <3>1. CASE Execute
      BY <3>1 DEF Execute, DriverTypes
    <3>2. CASE Lose
      BY <3>2 DEF Lose, DriverTypes
    <3>3. CASE Install
      BY <3>3 DEF Install, DriverTypes
    <3> QED BY <1>5, <3>1, <3>2, <3>3
  <2>2. DriverTypes'
    BY <1>1, <2>1 DEF DriverTypes
  <2>3. RepliesExecuted'
    BY <1>1, <2>1 DEF RepliesExecuted, DriverTypes
  <2>4. Endings' /\ SlotsExact'
    BY <1>1, <1>2, <2>1 DEF Endings, SlotsExact
  <2> QED BY <1>3, <2>2, <2>3, <2>4
<1> QED BY <1>4, <1>5

\* Handle::shutdown.
LEMMA RequestShutdownInv ==
    ASSUME DriverInv, RequestShutdown
    PROVE  DriverInv'
<1> USE DEF DriverInv
<1>1. /\ loop # "stopped" /\ ShutdownCommand \notin Range(commands) /\ Len(commands) < CmdCap
      /\ commands' = Append(commands, ShutdownCommand)
      /\ UNCHANGED <<call, budget, loop, retired, next_request, pending, number, releasing, wire,
                     executed, applied>>
  BY DEF RequestShutdown, clusterVars, Range
<1>2. /\ commands \in Seq(Calls \cup {ShutdownCommand}) /\ Distinct(commands)
      /\ ShutdownCommand \in Calls \cup {ShutdownCommand}
  BY DEF DriverTypes, Places
<1>3. Range(commands') = Range(commands) \cup {ShutdownCommand} /\ Distinct(commands')
  BY <1>1, <1>2, AppendElements
<1>4. commands' \in Seq(Calls \cup {ShutdownCommand}) /\ Len(commands') <= CmdCap
  BY <1>1, <1>2, AppendProperties, DriverAssumption
<1>5. Reserving' = Reserving /\ InChannel' = InChannel /\ Waiters' = Waiters
  BY <1>1, <1>3 DEF Reserving, InChannel, Waiters
<1>6. DriverTypes'
  BY <1>1, <1>4 DEF DriverTypes
<1>7. Places' /\ Endings' /\ RepliesExecuted' /\ SlotsExact'
  BY <1>1, <1>3, <1>5 DEF Places, Endings, RepliesExecuted, SlotsExact
<1> QED BY <1>6, <1>7

\* The driver starts with nothing anywhere.
LEMMA DriverInitInv ==
    ASSUME DriverInit
    PROVE  DriverInv
<1>1. DOMAIN commands = {} /\ DOMAIN pending = {} /\ Len(commands) = 0
  BY DEF DriverInit
<1>2. Range(commands) = {} /\ Distinct(commands) /\ InChannel = {} /\ Waiters = {}
  BY <1>1 DEF Range, Distinct, InChannel, Waiters
<1>3. Reserving = {}
  BY DEF DriverInit, Reserving
<1>4. DriverTypes
  <2>1. call \in [Calls -> {"idle", "gated", "reserved", "waiting", "cancelled"} \cup Outcomes]
    BY DEF DriverInit
  <2>2. commands \in Seq(Calls \cup {ShutdownCommand}) /\ pending \in [DOMAIN pending -> Calls]
    BY <1>1 DEF DriverInit
  <2>3. number \in [Calls -> 0 .. next_request]
    BY DEF DriverInit
  <2>4. /\ loop = "running" /\ retired = FALSE /\ releasing = FALSE /\ wire = {}
        /\ next_request = 0 /\ applied = 0 /\ executed = 0
    BY DEF DriverInit
  <2>5. Len(commands) <= CmdCap
    BY <1>1, DriverAssumption
  <2>6. DOMAIN pending \subseteq 1 .. next_request /\ wire \subseteq 1 .. next_request
    BY <1>1, <2>4
  <2>7. /\ next_request \in Nat /\ applied \in Nat /\ executed \in Nat
        /\ applied <= executed /\ executed <= next_request
    BY <2>4
  <2>8. loop \in {"running", "quiescing", "stopped"}
    BY <2>4
  <2>9. retired \in BOOLEAN /\ releasing \in BOOLEAN
    BY <2>4, Zenon
  <2> QED BY <2>1, <2>2, <2>3, <2>5, <2>6, <2>7, <2>8, <2>9 DEF DriverTypes
<1>5. Places /\ Endings /\ RepliesExecuted
  BY <1>1, <1>2 DEF DriverInit, Places, Endings, RepliesExecuted
<1>6. SlotsExact
  BY <1>1, <1>2, <1>3, FS_EmptySet, DriverAssumption DEF DriverInit, SlotsExact
<1> QED BY <1>4, <1>5, <1>6 DEF DriverInv

\* Every step of the driver and of the network keeps the invariant, and so does a step of none.
LEMMA DriverNextInv ==
    ASSUME DriverInv, DriverNext \/ UNCHANGED driverVars
    PROVE  DriverInv'
<1>1. CASE DriverNext
  BY <1>1, HandleSubmitInv, HandleShutdownInv, TeardownInv, ReapInv, CommittedInv, QuietInv, RetireInv,
     RequestShutdownInv DEF DriverNext, Loop
<1>2. CASE UNCHANGED driverVars
  <2>1. UNCHANGED <<call, commands, budget, loop, retired, next_request, pending, number, releasing,
                    wire, executed, applied>>
    BY <1>2 DEF driverVars, clusterVars
  <2>2. Reserving' = Reserving /\ InChannel' = InChannel /\ Waiters' = Waiters
    BY <2>1, Zenon DEF Reserving, InChannel, Waiters
  <2>3. DriverTypes' /\ Endings' /\ RepliesExecuted'
    BY <2>1, Zenon DEF DriverInv, DriverTypes, Endings, RepliesExecuted
  <2>4. Places' /\ SlotsExact'
    BY <2>1, <2>2, Zenon DEF DriverInv, Places, SlotsExact
  <2> QED BY <2>3, <2>4 DEF DriverInv
<1> QED BY <1>1, <1>2

\* The invariant of the driver with its callers.
LEMMA DriverInvariant == DirectSpec => []DriverInv
<1>1. DriverInit => DriverInv
  BY DriverInitInv
<1>2. DriverInv /\ [DriverNext \/ DirectCalls]_driverVars => DriverInv'
  <2> SUFFICES ASSUME DriverInv, [DriverNext \/ DirectCalls]_driverVars PROVE DriverInv'
    OBVIOUS
  <2>1. CASE DirectCalls
    <3>1. PICK x \in Calls : Gate(x) \/ Reserve(x) \/ Send(x) \/ Cancel(x)
      BY <2>1 DEF DirectCalls
    <3>2. CASE Cancel(x)
      BY Zenon, <3>2, CancelInv DEF Cancel, clusterVars
    <3> QED BY <3>1, <3>2, GateInv, ReserveInv, SendInv
  <2> QED BY <2>1, DriverNextInv
<1> QED BY <1>1, <1>2, PTL DEF DirectSpec

\* The promises of the driver follow from its invariant.
LEMMA DriverInvImplies ==
    ASSUME DriverInv
    PROVE  DriverTypeOK /\ BudgetExact /\ OutcomeTruthful /\ NoneStranded
<1> USE DEF DriverInv
<1>1. budget \in 0 .. MaxInflight
  BY DriverSets, DriverAssumption DEF SlotsExact
<1>2. DriverTypeOK
  BY <1>1, DriverSets DEF DriverTypes, DriverTypeOK
<1>3. Cardinality({i \in DOMAIN commands : commands[i] # ShutdownCommand}) = Cardinality(InChannel)
  BY Zenon, CountCommands DEF DriverTypes, Places, InChannel
<1>4. BudgetExact
  BY <1>3 DEF BudgetExact, SlotsExact, Reserving
<1>5. OutcomeTruthful
  BY Zenon DEF OutcomeTruthful, RepliesExecuted, Places
<1>6. NoneStranded
  <2> SUFFICES ASSUME loop = "stopped" PROVE Waiters = {} /\ InChannel = {}
    BY DEF NoneStranded, Places
  <2>1. pending = <<>> /\ commands = <<>>
    BY DEF Endings
  <2> QED BY <2>1 DEF Waiters, InChannel, Range
<1> QED BY <1>2, <1>4, <1>5, <1>6

\* For any number of submits and any capacities the driver's state is of its types; the
\* budget stays within its limit and never underflows.
THEOREM DriverTypeCorrect == DirectSpec => []DriverTypeOK
<1>1. DriverInv => DriverTypeOK
  BY DriverInvImplies
<1> QED BY <1>1, DriverInvariant, PTL

\* For any number of submits, the driver's budget is exactly the reservations alive somewhere,
\* however commits, cancellations, refused sends, retirement and shutdown interleave.
THEOREM DriverBudgetExact == DirectSpec => []BudgetExact
<1>1. DriverInv => BudgetExact
  BY DriverInvImplies
<1> QED BY <1>1, DriverInvariant, PTL

\* For any number of submits, a reply is the answer to an executed request, and a submit that
\* was refused (Busy, DriverGone) never got a request number.
THEOREM DriverOutcomesTruthful == DirectSpec => []OutcomeTruthful
<1>1. DriverInv => OutcomeTruthful
  BY DriverInvImplies
<1> QED BY <1>1, DriverInvariant, PTL

\* For any number of submits, none waits for a run loop that has ended: the drains of the
\* pending map and of the closed channel reach them all.
THEOREM DriverStrandsNone == DirectSpec => []NoneStranded
<1>1. DriverInv => NoneStranded
  BY DriverInvImplies
<1> QED BY <1>1, DriverInvariant, PTL
=============================================================================
