--------------------------- MODULE InflightBudget ---------------------------
(***************************************************************************)
(* The driver's in-flight budget: two shared atomic counters, a number of  *)
(* requests and a number of bytes, raised one after the other by every     *)
(* submitting thread and rolled back one after the other.                  *)
(***************************************************************************)
EXTENDS Sums

CONSTANTS
    Threads,   \* threads that submit
    MaxCount,  \* InflightBudget::max_count
    MaxBytes,  \* InflightBudget::max_bytes
    Counts,    \* the counts a reservation may have: 1 for a request, n for a group
    Sizes      \* the byte lengths it may have

ASSUME BudgetAssumption ==
    /\ IsFiniteSet(Threads)
    /\ MaxCount \in Nat /\ MaxBytes \in Nat
    /\ Counts \subseteq Nat /\ Sizes \subseteq Nat

VARIABLES
    count,     \* InflightBudget::count
    bytes,     \* InflightBudget::bytes
    at,        \* where each thread is in try_acquire_many or in release
    want,      \* what it asked for
    new_count  \* the value its fetch_add on count returned, plus its own

budgetVars == <<count, bytes, at, want, new_count>>

Wants == [count : Counts, bytes : Sizes]

Zero == [count |-> 0, bytes |-> 0]

BudgetInit ==
    /\ count = 0 /\ bytes = 0
    /\ at = [t \in Threads |-> "idle"]
    /\ want = [t \in Threads |-> Zero]
    /\ new_count = [t \in Threads |-> 0]

Goto(t, from, to) == at[t] = from /\ at' = [at EXCEPT ![t] = to]

\* The first fetch_add.
RaiseCount(t) ==
    /\ Goto(t, "idle", "counted")
    /\ \E w \in Wants :
        /\ want' = [want EXCEPT ![t] = w]
        /\ count' = count + w.count
        /\ new_count' = [new_count EXCEPT ![t] = count + w.count]
    /\ UNCHANGED bytes

\* A decision taken on the byte counter alone.
RaiseBytesOnly(t) ==
    /\ at[t] = "counted"
    /\ bytes' = bytes + want[t].bytes
    /\ at' = [at EXCEPT ![t] = IF bytes' > MaxBytes THEN "refused" ELSE "granted"]
    /\ UNCHANGED <<count, want, new_count>>

\* The second fetch_add and the decision, on the two values the thread itself saw.
RaiseBytes(t) ==
    /\ at[t] = "counted"
    /\ bytes' = bytes + want[t].bytes
    /\ at' = [at EXCEPT ![t] = IF new_count[t] > MaxCount \/ bytes' > MaxBytes
                               THEN "refused" ELSE "granted"]
    /\ UNCHANGED <<count, want, new_count>>

\* A roll-back that forgets the count it raised.
LowerNothing(t, from) ==
    /\ Goto(t, from, "lowered")
    /\ UNCHANGED <<count, bytes, want, new_count>>

\* The roll-back of a refusal, and the release of a dropped reservation: count first.
LowerCount(t, from) ==
    /\ Goto(t, from, "lowered")
    /\ count' = count - want[t].count
    /\ UNCHANGED <<bytes, want, new_count>>

LowerBytes(t) ==
    /\ Goto(t, "lowered", "idle")
    /\ bytes' = bytes - want[t].bytes
    /\ want' = [want EXCEPT ![t] = Zero]
    /\ new_count' = [new_count EXCEPT ![t] = 0]
    /\ UNCHANGED count

try_acquire_many(t) == RaiseCount(t) \/ RaiseBytes(t) \/ LowerCount(t, "refused")

release(t) == LowerCount(t, "granted")

BudgetNext == \E t \in Threads : try_acquire_many(t) \/ release(t) \/ LowerBytes(t)

-----------------------------------------------------------------------------
BudgetSpec == BudgetInit /\ [][BudgetNext]_budgetVars

BudgetTypeOK ==
    /\ count \in Nat /\ bytes \in Nat
    /\ at \in [Threads -> {"idle", "counted", "refused", "granted", "lowered"}]
    /\ want \in [Threads -> Wants \cup {Zero}]
    /\ new_count \in [Threads -> Nat]

\* The threads between their increment and their decrement of each counter, and those that
\* hold a reservation.
InCount == {t \in Threads : at[t] \in {"counted", "refused", "granted"}}
InBytes == {t \in Threads : at[t] \in {"refused", "granted", "lowered"}}
Granted == {t \in Threads : at[t] = "granted"}

CountOf == [t \in Threads |-> want[t].count]
BytesOf == [t \in Threads |-> want[t].bytes]

\* However the increments and roll-backs of concurrent submitters interleave, the
\* reservations that are held never exceed either limit (try_acquire_many).
HeldWithinBudget == SumOver(Granted, CountOf) <= MaxCount /\ SumOver(Granted, BytesOf) <= MaxBytes

\* No reservation leaks: each counter is the sum of what the threads between their
\* increment and their decrement added, so it is zero when no thread is (Drop for
\* ReservationGuard and the refusal both give back exactly what was added).
NoLeak == count = SumOver(InCount, CountOf) /\ bytes = SumOver(InBytes, BytesOf)
=============================================================================
