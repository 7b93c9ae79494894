--------------------------- MODULE ReplicatedLog ---------------------------
(***************************************************************************)
(* What the cluster promises its clients: one log of requests, without     *)
(* gaps, that only ever grows and holds no request twice.                  *)
(***************************************************************************)
EXTENDS Naturals, FiniteSets

VARIABLE chosen     \* the log, as the set of its <<op, request>> entries

IsLog(entries) ==
    /\ {e[1] : e \in entries} = 1 .. Cardinality(entries)
    /\ Cardinality({e[2] : e \in entries}) = Cardinality(entries)

Init == chosen = {}

Extend == chosen \subseteq chosen' /\ IsLog(chosen')

Spec == Init /\ [][Extend]_chosen

=============================================================================
