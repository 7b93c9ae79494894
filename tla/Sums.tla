-------------------------------- MODULE Sums --------------------------------
(* Sums over finite sets, as the number of units that the elements have.     *)
EXTENDS Integers, FiniteSets

\* The units of the elements of S, w[x] of them for each x.
UnitsOf(S, w) == UNION {{x} \X (1 .. w[x]) : x \in S}

SumOver(S, w) == Cardinality(UnitsOf(S, w))
=============================================================================
