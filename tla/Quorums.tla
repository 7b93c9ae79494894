------------------------------ MODULE Quorums ------------------------------
(***************************************************************************)
(* The quorum arithmetic of a configuration of n voters                    *)
(* (viewstamp-proto/src/membership/mod.rs).  Voters occupy the slots       *)
(* 0 .. n-1 and the primary of a view is the slot the view selects         *)
(* round-robin.                                                            *)
(***************************************************************************)
EXTENDS Naturals

\* Prepare acknowledgements (the primary's own vote included) that commit an op.
quorum(n) == (n \div 2) + 1

\* StartViewChange / DoViewChange senders that form a view.
quorum_view_change(n) == (n - quorum(n)) + 1

\* A mutant of quorum_nack_prepare: one nack short.
quorum_nack_prepare_short(n) == n - quorum(n)

\* Nacks that prove an uncommitted op can no longer have been committed.
quorum_nack_prepare(n) == (n - quorum(n)) + 1

primary(view, n) == view % n

=============================================================================
