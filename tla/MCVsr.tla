------------------------------- MODULE MCVsr -------------------------------
(* Small instances of Vsr for TLC. *)
EXTENDS Vsr, TLC

Symmetry == Permutations(Requests)

-----------------------------------------------------------------------------
(* A part of the behaviours of Spec: replica 0 is cut off after it minted a *)
(* request and joined the change to view 1, and later hears again.          *)

MajorityStep(r) ==
    \/ PrimaryIdle(r) \/ RootLands(r) \/ CommitHeartbeat(r)
    \/ \E op \in Ops : WalDone(r, op)
    \/ \E q \in Requests : r = 1 /\ OnRequest(r, q)
    \/ \E m \in {x \in msgs : x.from # 0} :
          \/ OnStartViewChange(r, m) \/ OnDoViewChange(r, m) \/ OnStartView(r, m)
          \/ OnPrepareNext(r, m) \/ OnPrepareOk(r, m)

CutOffStep ==
    \/ \E q \in Requests : msgs = {} /\ OnRequest(0, q)
    \/ \E op \in Ops : WalDone(0, op)
    \/ RootLands(0) \/ ViewChangeStatus(0)
    \/ \E m \in msgs : OnStartViewChange(0, m) \/ CatchUp(0, m) \/ OnCommit(0, m)

CutOffSpec == Init /\ [][CutOffStep \/ \E r \in {1, 2} : MajorityStep(r)]_vars

=============================================================================
