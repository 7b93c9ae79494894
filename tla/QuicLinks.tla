------------------------------ MODULE QuicLinks ------------------------------
(***************************************************************************)
(* The connections of one node over QUIC: the connection table             *)
(* (viewstamp-proto transport/quic/table/mod.rs), the bridge that binds    *)
(* and closes them (quic/bridge/mod.rs), the coordinator that attests      *)
(* members and reconciles the table with the configuration (quic/mod.rs),  *)
(* and the driver's list of peers to dial (viewstamp-compio                *)
(* driver/mod.rs).                                                         *)
(*                                                                         *)
(* qk.conns lists the table's entries by seq; routed says that by_peer     *)
(* maps the entry's peer to it.  A closed entry stays in the table, and    *)
(* counts towards its cap, until quinn has drained it.                     *)
(***************************************************************************)
EXTENDS PeerLinks

CONSTANTS
    MaxConnections,     \* max_connections, raised to the mesh's floor
    PerPeerLimit,       \* PER_PEER_CONN_LIMIT (3)
    QuicScenarios       \* as LinkScenarios

VARIABLE qk

Unbound == <<"None", 0>>

NewEntry(expected, addr) ==
    [expected |-> expected, addr |-> addr, peer |-> Unbound, member |-> 0, phase |-> "Handshaking", routed |-> FALSE]

LiveFor(conns, p) == {i \in DOMAIN conns : conns[i].peer = p /\ conns[i].phase # "Closed"}

(* mark_closed_unbind_push: the entry leaves by_peer, and the newest live  *)
(* connection of its peer takes its place where the peer has no other      *)
(* (promote_routing_if_unbound).                                           *)
mark_closed_unbind_push(conns, i) ==
    LET p == conns[i].peer
        down == SetConn(conns, i, [conns[i] EXCEPT !.phase = "Closed", !.routed = FALSE])
        left == LiveFor(down, p)
        Newest(j) == \A k \in left : k <= j
    IN  IF p = Unbound \/ \E j \in left : down[j].routed THEN down
        ELSE [j \in DOMAIN down |-> IF j \in left /\ Newest(j) THEN [down[j] EXCEPT !.routed = TRUE] ELSE down[j]]

(* close_local, which leaves a closed entry alone, over a set of entries.  *)
CloseAll(conns, which) ==
    LET order == SetToSortSeq({i \in which : conns[i].phase # "Closed"}, <)
    IN  FoldLeft(mark_closed_unbind_push, conns, order)

(* bind_validated, and set_attested_member after it: the peer is routed    *)
(* over this entry, and of its other live entries the oldest beyond the    *)
(* limit are closed (validate_routing, excess_peer_conns).                 *)
quic_bind_validated(conns, i, p, who) ==
    LET bound == [j \in DOMAIN conns |->
                    IF j = i THEN [conns[j] EXCEPT !.peer = p, !.member = who, !.phase = "Validated", !.routed = TRUE]
                    ELSE [conns[j] EXCEPT !.routed = @ /\ conns[j].peer # p]]
        others == LiveFor(bound, p) \ {i}
        excess == {j \in others : Cardinality({k \in others : k > j}) >= PerPeerLimit - 1}
    IN  CloseAll(bound, excess)

quic_quarantined(conns) == {i \in DOMAIN conns : conns[i].phase = "Validated" /\ conns[i].peer[1] = "Member"}

(* apply_outcome with an identity: the connection is closed, or bound to   *)
(* the member's slot, or to the member itself while the configuration does *)
(* not know it; then, at the limit, another such connection makes room     *)
(* (evict_quarantined_if_full: the lowest handle, which quinn may reuse).  *)
apply_outcome(conns, i, m, who) ==
    LET c == conns[i]
        refused == mark_closed_unbind_push(conns, i)
        full == Cardinality(quic_quarantined(conns)) >= QuarantineLimit
    IN  IF who[1] = "Client" \/ who[2] = LocalMember THEN {refused}
        ELSE IF who[2] \in Members(m)
        THEN LET p == Replica(slot_of(m, who[2]))
             IN  {IF c.expected \notin {Unbound, p} THEN refused ELSE quic_bind_validated(conns, i, p, who[2])}
        ELSE IF c.expected # Unbound THEN {refused}
        ELSE {quic_bind_validated(rest, i, Member(who[2]), who[2]) :
                 rest \in IF full THEN {CloseAll(conns, {v}) : v \in quic_quarantined(conns)} ELSE {conns}}

(* reconcile_routing of the QUIC coordinator.                              *)
quic_reconcile_routing(q) ==
    IF q.reconciled = q.live.config_id THEN q
    ELSE LET Stale(c) == /\ c.phase = "Validated"
                         /\ IF c.member \in Members(q.live) THEN c.peer # Replica(slot_of(q.live, c.member))
                            ELSE c.peer[1] = "Replica"
         IN  [q EXCEPT !.conns = CloseAll(@, {i \in DOMAIN @ : Stale(@[i])}), !.reconciled = q.live.config_id]

-----------------------------------------------------------------------------
(* The driver's list of peers to dial.                                     *)

PeerLink(slot, who, addr, next) == [id |-> slot, member_id |-> who, addr |-> addr, next_dial |-> next]

(* connect: refused at the cap.                                            *)
connect(conns, slot, addr) ==
    IF Len(conns) >= MaxConnections THEN conns ELSE Append(conns, NewEntry(Replica(slot), addr))

(* rekey_peers: a link for every slot whose address is known; one for the  *)
(* same slot and member keeps its schedule, another is due at once.        *)
quic_rekey_peers(q) ==
    LET addrs == Projection(q.live, q.book)
        order == SetToSortSeq(DOMAIN addrs, <)
        Prior(s) == {j \in DOMAIN q.links : q.links[j].id = s /\ q.links[j].member_id = member_at(q.live, s)}
        Next(s) == IF Prior(s) = {} THEN "Due" ELSE q.links[CHOOSE j \in Prior(s) : TRUE].next_dial
    IN  [q EXCEPT !.links = [i \in DOMAIN order |->
            PeerLink(order[i], member_at(q.live, order[i]), addrs[order[i]], Next(order[i]))]]

quic_rekey_if_needed(q) ==
    IF q.rekeyed = q.live.config_id THEN q
    ELSE [quic_rekey_peers(q) EXCEPT !.rekeyed = q.live.config_id]

has_bound_conn(conns, slot) == \E i \in DOMAIN conns : conns[i].routed /\ conns[i].peer = Replica(slot)

(* reconcile_peer_links: an unbound link is armed, and dialed when due;    *)
(* after a dial it waits for its next date.                                *)
reconcile_peer_links(q) ==
    LET Dial(conns, l) ==
            IF ~has_bound_conn(q.conns, l.id) /\ l.next_dial = "Due" THEN connect(conns, l.id, l.addr) ELSE conns
        Next(l) == IF has_bound_conn(q.conns, l.id) THEN "None" ELSE "Armed"
    IN  [q EXCEPT !.conns = FoldLeft(Dial, @, q.links),
                  !.links = [j \in DOMAIN q.links |-> [q.links[j] EXCEPT !.next_dial = Next(q.links[j])]]]

-----------------------------------------------------------------------------
(* with_config dials every peer.                                           *)
QuicStart(sc) ==
    LET addrs == Projection(sc.start, sc.book)
        order == SetToSortSeq(DOMAIN addrs, <)
    IN  [todo |-> sc.deltas, live |-> sc.start, reconciled |-> sc.start.config_id,
         rekeyed |-> sc.start.config_id, book |-> sc.book, moves |-> sc.moves, accepts |-> sc.accepts,
         callers |-> sc.callers,
         conns |-> [i \in DOMAIN order |-> NewEntry(Replica(order[i]), addrs[order[i]])],
         links |-> [i \in DOMAIN order |->
                       PeerLink(order[i], member_at(sc.start, order[i]), addrs[order[i]], "None")]]

QuicInit == \E sc \in QuicScenarios : qk = QuicStart(sc)

(* The tail of every entry point, and the driver's check after it.         *)
QuicSettle(q) == quic_rekey_if_needed(quic_reconcile_routing(q))

(* handle_datagram with a first packet: refused at the cap.                *)
NewConnection ==
    /\ qk.accepts > 0
    /\ qk' = [qk EXCEPT !.accepts = @ - 1,
                        !.conns = IF Len(@) >= MaxConnections THEN @ ELSE Append(@, NewEntry(Unbound, 0))]

(* on_app_event with Connected.                                            *)
QuicConnected(i) ==
    /\ qk.conns[i].phase = "Handshaking"
    /\ qk' = [qk EXCEPT !.conns = SetConn(@, i, [@[i] EXCEPT !.phase = "Authenticating"])]

(* drain_bridge authenticates a connection, by its certificate or by its   *)
(* hello.                                                                  *)
Authenticated(i, who) ==
    /\ qk.conns[i].phase = "Authenticating"
    /\ IF qk.conns[i].expected # Unbound THEN who = Member(Listener[qk.conns[i].addr]) ELSE who \in qk.callers
    /\ \E conns \in apply_outcome(qk.conns, i, qk.live, who) : qk' = QuicSettle([qk EXCEPT !.conns = conns])

(* A lost connection, a refused identity, an ended control stream, or the  *)
(* deadline of an authentication.                                          *)
QuicClosed(i) ==
    /\ qk.conns[i].phase # "Closed"
    /\ qk' = QuicSettle([qk EXCEPT !.conns = mark_closed_unbind_push(@, i)])

(* service: quinn has drained a closed connection, and its entry goes.     *)
Drained(i) ==
    /\ qk.conns[i].phase = "Closed"
    /\ qk' = [qk EXCEPT !.conns = SubSeq(@, 1, i - 1) \o SubSeq(@, i + 1, Len(@))]

QuicAddPeer(mv) ==
    LET q == [qk EXCEPT !.book = (mv[1] :> mv[2]) @@ @, !.moves = @ \ {mv}]
    IN  qk' = IF mv[1] # LocalMember /\ mv[1] \in Members(q.live) THEN quic_rekey_peers(q) ELSE q

QuicInstallConfiguration ==
    /\ qk.todo # <<>>
    /\ qk' = QuicSettle([qk EXCEPT !.live = apply_delta(@, Head(qk.todo)), !.todo = Tail(@)])

(* The date of a link's next dial comes.                                   *)
DialDue(j) ==
    /\ qk.links[j].next_dial = "Armed"
    /\ qk' = [qk EXCEPT !.links = SetConn(@, j, [@[j] EXCEPT !.next_dial = "Due"])]

QuicTurn == qk' = reconcile_peer_links(qk)

QuicNext ==
    \/ NewConnection
    \/ \E i \in DOMAIN qk.conns :
         \/ QuicConnected(i)
         \/ \E who \in qk.callers \union {Member(Listener[a]) : a \in DOMAIN Listener} : Authenticated(i, who)
         \/ QuicClosed(i)
         \/ Drained(i)
    \/ \E mv \in qk.moves : QuicAddPeer(mv)
    \/ QuicInstallConfiguration
    \/ \E j \in DOMAIN qk.links : DialDue(j)
    \/ QuicTurn

QuicSpec == QuicInit /\ [][QuicNext]_qk

-----------------------------------------------------------------------------
(* The same for QUIC: a peer with a live connection is routed over exactly *)
(* one, never over a closed one; it has no more than the limit; and an     *)
(* attested member is bound to the slot it holds now (the I1, I2 and I3    *)
(* assertions of bind_validated and mark_closed_unbind_push,               *)
(* reconcile_routing).                                                     *)
QuicRoutingSound ==
    LET peers == {qk.conns[i].peer : i \in DOMAIN qk.conns} \ {Unbound}
    IN  /\ \A p \in peers : LiveFor(qk.conns, p) # {} =>
              Cardinality({i \in LiveFor(qk.conns, p) : qk.conns[i].routed}) = 1
        /\ \A p \in peers : Cardinality(LiveFor(qk.conns, p)) <= PerPeerLimit
        /\ \A i \in DOMAIN qk.conns : qk.conns[i].routed => qk.conns[i].phase = "Validated"
        /\ \A i \in DOMAIN qk.conns :
              LET c == qk.conns[i]
              IN  c.phase = "Validated" =>
                    /\ c.member # LocalMember
                    /\ c.peer = IF c.member \in Members(qk.live) THEN Replica(slot_of(qk.live, c.member))
                                ELSE Member(c.member)

(* The links to dial are those of the live configuration, each under its   *)
(* member's slot and at its last known address (rekey_peers), and the      *)
(* table never outgrows its cap.                                           *)
QuicLinkKept ==
    /\ [s \in {qk.links[j].id : j \in DOMAIN qk.links} |-> (CHOOSE l \in Range(qk.links) : l.id = s).addr]
         = Projection(qk.live, qk.book)
    /\ \A j \in DOMAIN qk.links : qk.links[j].member_id = member_at(qk.live, qk.links[j].id)
    /\ Len(qk.conns) <= MaxConnections

=============================================================================
