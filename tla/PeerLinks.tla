------------------------------ MODULE PeerLinks ------------------------------
(***************************************************************************)
(* The connections of one node over the stream transport: the driver that  *)
(* dials, accepts, redials and drops them (viewstamp-compio                *)
(* stream_driver/mod.rs), the coordinator that binds a connection to the   *)
(* member its handshake attests (viewstamp-proto coordinator/mod.rs), and  *)
(* the router that keeps one authoritative connection per peer             *)
(* (router/mod.rs), while the configuration moves the members between      *)
(* slots.                                                                  *)
(*                                                                         *)
(* lk.conns lists the connections in the order of their ConnIds: the age   *)
(* that decides evictions and heirs is the position.  One record holds     *)
(* the driver's Conn (task, redial, deadline) and the router's Entry       *)
(* (peer, dialed, member, state); auth says that peers maps the entry's    *)
(* peer to it.  A connection the router dropped is "Reaped" until the      *)
(* driver has polled it from the closed queue.                             *)
(***************************************************************************)
EXTENDS Membership, SequencesExt

CONSTANTS
    LocalMember,      \* Endpoint::local
    Listener,         \* the member that answers at each address
    MaxConns,         \* DriverConfig::max_conns
    QuarantineLimit,  \* QUARANTINE_CONN_LIMIT (8)
    LinkScenarios     \* the bounds a behaviour may have: the first configuration (start), the deltas it goes
                      \* through, the first address book, the AddPeer calls (moves), and the number (accepts)
                      \* and the identities (callers) of the accepted connections

VARIABLE lk

Replica(slot) == <<"Replica", slot>>
Member(who) == <<"Member", who>>
Client(who) == <<"Client", who>>

NoRedial == <<>>

(* The peers of a configuration as (slot, address), as far as the book     *)
(* knows them.                                                             *)
Projection(m, book) ==
    [s \in {t \in 0..(Len(m.members) - 1) : member_at(m, t) \in DOMAIN book \ {LocalMember}}
        |-> book[member_at(m, s)]]

(* dial_peer: a fresh connection under the slot, its connect task spawned. *)
dial_peer(slot, addr) ==
    [peer |-> Replica(slot), dialed |-> TRUE, member |-> 0, state |-> "Handshaking", auth |-> FALSE,
     task |-> "Connecting", redial |-> <<slot, addr>>, deadline |-> FALSE]

(* register_accepted and spawn_bridge_accepted.                            *)
spawn_bridge_accepted ==
    [peer |-> Replica(0), dialed |-> FALSE, member |-> 0, state |-> "Handshaking", auth |-> FALSE,
     task |-> "Bridged", redial |-> NoRedial, deadline |-> TRUE]

DialAll(addrs, slots) ==
    LET order == SetToSortSeq(slots, <) IN [i \in DOMAIN order |-> dial_peer(order[i], addrs[order[i]])]

SetConn(conns, i, c) == [j \in DOMAIN conns |-> IF j = i THEN c ELSE conns[j]]

-----------------------------------------------------------------------------
(* The router.                                                             *)

AbortAll(conns, which) ==
    [i \in DOMAIN conns |-> IF i \in which THEN [conns[i] EXCEPT !.state = "Closed"] ELSE conns[i]]

abort(conns, i) == AbortAll(conns, {i})

(* reap_closed: every closed entry leaves the router; the oldest validated *)
(* connection of the same peer inherits the place of an authoritative one. *)
reap_closed(conns) ==
    LET gone == {i \in DOMAIN conns : conns[i].state = "Closed"}
        lost == {conns[i].peer : i \in {j \in gone : conns[j].auth}}
        Live(i) == conns[i].state = "Validated"
        Heir(i) == /\ Live(i) /\ conns[i].peer \in lost
                   /\ \A j \in 1..(i - 1) : ~(Live(j) /\ conns[j].peer = conns[i].peer)
    IN  SelectSeq([i \in DOMAIN conns |->
                     IF i \in gone THEN [conns[i] EXCEPT !.state = "Reaped", !.auth = FALSE]
                     ELSE [conns[i] EXCEPT !.auth = @ \/ Heir(i)]],
                  LAMBDA c : ~(c.state = "Reaped" /\ c.task = "None"))

(* mark_validated under a peer, which becomes routed over this connection. *)
mark_validated(conns, i, peer, who) ==
    [j \in DOMAIN conns |->
        IF j = i
        THEN [conns[j] EXCEPT !.peer = peer, !.member = who, !.state = "Validated", !.auth = TRUE]
        ELSE [conns[j] EXCEPT !.auth = @ /\ conns[j].peer # peer]]

(* note_established, for the client that the handshake names: a dialed     *)
(* connection expects a replica.                                           *)
note_established(conns, i, who) ==
    IF conns[i].dialed THEN abort(conns, i) ELSE mark_validated(conns, i, Client(who), 0)

note_established_member(conns, i, who, slot) ==
    IF conns[i].dialed /\ conns[i].peer # Replica(slot) THEN abort(conns, i)
    ELSE mark_validated(conns, i, Replica(slot), who)

note_established_quarantined(conns, i, who) ==
    IF conns[i].dialed THEN abort(conns, i) ELSE mark_validated(conns, i, Member(who), who)

(* The connections that attested a member.                                 *)
validated_member_conns(conns) ==
    {i \in DOMAIN conns : conns[i].state = "Validated" /\ conns[i].member # 0}

-----------------------------------------------------------------------------
(* The coordinator.                                                        *)

(* The oldest quarantined connection makes room when the limit is reached. *)
evict_quarantined_if_full(conns) ==
    LET quarantined == {i \in validated_member_conns(conns) : conns[i].peer[1] = "Member"}
    IN  IF Cardinality(quarantined) < QuarantineLimit THEN conns
        ELSE abort(conns, CHOOSE i \in quarantined : \A j \in quarantined : i <= j)

(* The handshake of connection i has settled on an identity.               *)
try_note_established_member(conns, i, m, who) ==
    IF who[1] = "Client" THEN note_established(conns, i, who[2])
    ELSE IF who[2] = LocalMember THEN abort(conns, i)
    ELSE IF who[2] \in Members(m) THEN note_established_member(conns, i, who[2], slot_of(m, who[2]))
    ELSE note_established_quarantined(evict_quarantined_if_full(conns), i, who[2])

(* A bug: only connections of removed members are closed.                  *)
reconcile_routing_removed_only(l) ==
    [l EXCEPT !.conns = AbortAll(@, {i \in validated_member_conns(@) :
                                        @[i].member \notin Members(l.live) /\ @[i].peer[1] = "Replica"}),
              !.reconciled = l.live.config_id]

(* reconcile_routing: after a change of configuration, a connection bound  *)
(* to another slot than the one its member holds now is closed.            *)
reconcile_routing(l) ==
    IF l.reconciled = l.live.config_id THEN l
    ELSE LET Stale(c) == IF c.member \in Members(l.live) THEN c.peer # Replica(slot_of(l.live, c.member))
                         ELSE c.peer[1] = "Replica"
         IN  [l EXCEPT !.conns = AbortAll(@, {i \in validated_member_conns(@) : Stale(@[i])}),
                       !.reconciled = l.live.config_id]

(* reconcile_routing and pump, the tail of every handler that moves the    *)
(* endpoint.                                                               *)
settle(l) == LET r == reconcile_routing(l) IN [r EXCEPT !.conns = reap_closed(@)]

-----------------------------------------------------------------------------
(* The driver.                                                             *)

Redials(l, conns) ==
    LET again == SelectSeq(conns, LAMBDA c : /\ c.redial # NoRedial /\ c.redial[1] \in DOMAIN l.addrs
                                             /\ l.addrs[c.redial[1]] = c.redial[2])
    IN  [i \in DOMAIN again |-> dial_peer(again[i].redial[1], again[i].redial[2])]

(* close_conn: the driver drops its side, the coordinator reaps its entry  *)
(* if it still has it, and a dialed connection is dialed again while its   *)
(* slot still has that address.                                            *)
close_conn(l, i) ==
    LET Dropped(c) == [c EXCEPT !.task = "None", !.state = IF @ = "Reaped" THEN @ ELSE "Closed"]
        dropped == SetConn(l.conns, i, Dropped(l.conns[i]))
        r == IF l.conns[i].state = "Reaped" THEN [l EXCEPT !.conns = dropped]
             ELSE settle([l EXCEPT !.conns = dropped])
    IN  [r EXCEPT !.conns = SelectSeq(@, LAMBDA c : c.task # "None") \o Redials(l, <<l.conns[i]>>)]

(* A bug: only a slot that had no address is dialed.                       *)
rekey_peers_added_only(l) ==
    LET addrs == Projection(l.live, l.book)
    IN  [l EXCEPT !.conns = @ \o DialAll(addrs, DOMAIN addrs \ DOMAIN l.addrs), !.addrs = addrs]

(* rekey_peers: every slot whose address is new or changed is dialed.      *)
rekey_peers(l) ==
    LET addrs == Projection(l.live, l.book)
        changed == {s \in DOMAIN addrs : s \notin DOMAIN l.addrs \/ l.addrs[s] # addrs[s]}
    IN  [l EXCEPT !.conns = @ \o DialAll(addrs, changed), !.addrs = addrs]

(* rekey_if_needed, with MembershipReconciler::check.                      *)
rekey_if_needed(l) ==
    IF l.rekeyed = l.live.config_id THEN l
    ELSE [rekey_peers(l) EXCEPT !.rekeyed = l.live.config_id]

(* with_config, and the dials run starts with.                             *)
LinkStart(sc) ==
    LET addrs == Projection(sc.start, sc.book)
    IN  [todo |-> sc.deltas, live |-> sc.start, reconciled |-> sc.start.config_id,
         rekeyed |-> sc.start.config_id, book |-> sc.book, addrs |-> addrs,
         conns |-> DialAll(addrs, DOMAIN addrs),
         moves |-> sc.moves, accepts |-> sc.accepts, callers |-> sc.callers]

LinkInit == \E sc \in LinkScenarios : lk = LinkStart(sc)

(* The connections that have not been validated before their deadline.     *)
Waiting(l) == {i \in DOMAIN l.conns : l.conns[i].deadline /\ l.conns[i].state = "Handshaking"}

Bridged(i) == lk.conns[i].task = "Bridged"

(* handle_inbound with the bytes that settle a handshake: who answers a    *)
(* dial is the listener of the address, who calls is any caller.           *)
HandshakeSettles(i, who) ==
    /\ Bridged(i) /\ lk.conns[i].state = "Handshaking"
    /\ IF lk.conns[i].dialed THEN who = Member(Listener[lk.conns[i].redial[2]]) ELSE who \in lk.callers
    /\ lk' = rekey_if_needed(settle([lk EXCEPT !.conns = try_note_established_member(@, i, lk.live, who)]))

(* handle_inbound with bytes the connection refuses: a bad record, hello,  *)
(* frame or message.                                                       *)
BytesRejected(i) ==
    /\ Bridged(i) /\ lk.conns[i].state # "Reaped"
    /\ lk' = rekey_if_needed(settle([lk EXCEPT !.conns = abort(@, i)]))

(* route: an authoritative connection over its outbound cap is closed.     *)
RouteOverflows(i) ==
    /\ LocalMember \in Members(lk.live)
    /\ lk.conns[i].auth
    /\ lk' = [lk EXCEPT !.conns = reap_closed(abort(@, i))]

(* handle_inbound with Eof or Error, and pump_outputs over a full or dead  *)
(* bridge.                                                                 *)
BridgeEnds(i) == Bridged(i) /\ lk' = close_conn(lk, i)

HandleDialReady(i, ok) ==
    /\ lk.conns[i].task = "Connecting"
    /\ lk' = IF ok THEN [lk EXCEPT !.conns = SetConn(@, i, [@[i] EXCEPT !.task = "Bridged", !.deadline = TRUE])]
             ELSE close_conn(lk, i)

(* The accept arm of run, which follows a turn's reconciling: at the cap,  *)
(* the oldest accepted connection that has not been validated makes room,  *)
(* else the new one is dropped.                                            *)
Accept ==
    LET waiting == {i \in Waiting(lk) : lk.conns[i].redial = NoRedial}
        room == IF Len(lk.conns) >= MaxConns /\ waiting # {}
                THEN close_conn(lk, CHOOSE i \in waiting : \A j \in waiting : i <= j) ELSE lk
    IN  /\ lk.accepts > 0
        /\ \A i \in DOMAIN lk.conns : lk.conns[i].state # "Reaped"
        /\ lk' = [room EXCEPT !.accepts = @ - 1,
                              !.conns = IF Len(@) < MaxConns THEN Append(@, spawn_bridge_accepted) ELSE @]

(* handle_command with AddPeer.                                            *)
AddPeer(mv) ==
    /\ mv \in lk.moves
    /\ LET l == [lk EXCEPT !.book = (mv[1] :> mv[2]) @@ @, !.moves = @ \ {mv}]
       IN  lk' = IF mv[1] # LocalMember /\ mv[1] \in Members(l.live) THEN rekey_peers(l) ELSE l

(* handle_storage_deferred or on_block_done completes the write that       *)
(* installs the next configuration.                                        *)
InstallConfiguration ==
    /\ lk.todo # <<>>
    /\ lk' = rekey_if_needed(settle([lk EXCEPT !.live = apply_delta(@, Head(lk.todo)), !.todo = Tail(@)]))

(* reconcile_closed_conns: what the router reaped is dropped and, where it *)
(* was dialed for an address its slot still has, dialed again.             *)
reconcile_closed_conns(l) ==
    [l EXCEPT !.conns = SelectSeq(@, LAMBDA c : c.state # "Reaped")
                        \o Redials(l, SelectSeq(@, LAMBDA c : c.state = "Reaped"))]

(* reconcile_auth_deadlines: a validated connection loses its deadline, an *)
(* expired one is closed.                                                  *)
reconcile_auth_deadlines(l, expired) ==
    LET kept == {i \in DOMAIN l.conns : i \notin expired}
        Cleared(c) == IF c.state = "Validated" THEN [c EXCEPT !.deadline = FALSE] ELSE c
        Part(which) == LET order == SetToSortSeq(which, <) IN [k \in DOMAIN order |-> l.conns[order[k]]]
        rest == Part(kept)
    IN  [l EXCEPT !.conns = [k \in DOMAIN rest |-> Cleared(rest[k])] \o Redials(l, Part(expired))]

(* The reconciling part of one turn of run's loop.                         *)
Reconcile(expired) ==
    LET l == reconcile_closed_conns(lk)
    IN  expired \subseteq Waiting(l) /\ lk' = reconcile_auth_deadlines(l, expired)

LinkNext ==
    \/ \E i \in DOMAIN lk.conns :
         \/ \E who \in lk.callers \union {Member(Listener[a]) : a \in DOMAIN Listener} : HandshakeSettles(i, who)
         \/ BytesRejected(i)
         \/ RouteOverflows(i)
         \/ BridgeEnds(i)
         \/ \E ok \in BOOLEAN : HandleDialReady(i, ok)
    \/ Accept
    \/ \E mv \in lk.moves : AddPeer(mv)
    \/ InstallConfiguration
    \/ \E expired \in SUBSET DOMAIN lk.conns : Reconcile(expired)

LinkSpec == LinkInit /\ [][LinkNext]_lk

-----------------------------------------------------------------------------
(* Whatever the order of handshakes, losses and changes of configuration,  *)
(* every peer with a validated connection is routed over exactly one of    *)
(* them, and a connection that attested a member carries that member's     *)
(* messages under the slot it holds now, or under its own identity while   *)
(* the configuration does not know it: no message is delivered or routed   *)
(* under another member's slot, and none over a closed connection          *)
(* (PeerRouter::peers, reconcile_routing).                                 *)
StreamRoutingSound ==
    LET live == {i \in DOMAIN lk.conns : lk.conns[i].state = "Validated"}
        Peer(i) == lk.conns[i].peer
        who(i) == lk.conns[i].member
    IN  /\ \A i \in live : \E j \in live : lk.conns[j].auth /\ Peer(j) = Peer(i)
        /\ \A i, j \in live : lk.conns[i].auth /\ lk.conns[j].auth /\ Peer(i) = Peer(j) => i = j
        /\ \A i \in live : IF who(i) \in Members(lk.live) THEN Peer(i) = Replica(slot_of(lk.live, who(i)))
                           ELSE Peer(i) \in {Member(who(i))} \union {Client(w[2]) : w \in lk.callers}
        /\ \A i \in live : who(i) # LocalMember
        /\ \A i \in DOMAIN lk.conns : lk.conns[i].auth => i \in live

(* Every member of the live configuration whose address is known keeps a   *)
(* connection, or a dial that will lead to one, at that address under the  *)
(* slot it holds: whatever is lost is dialed again, and nothing is given   *)
(* up over a change of configuration (close_conn, rekey_peers).            *)
StreamLinkKept ==
    /\ lk.addrs = Projection(lk.live, lk.book)
    /\ \A s \in DOMAIN lk.addrs : \E i \in DOMAIN lk.conns : lk.conns[i].redial = <<s, lk.addrs[s]>>

=============================================================================
