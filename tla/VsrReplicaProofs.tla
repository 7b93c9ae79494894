-------------------------- MODULE VsrReplicaProofs --------------------------
(***************************************************************************)
(* What the operators of VsrReplica do to a replica, for every value of    *)
(* the constants: each keeps the replica well formed, and each says what   *)
(* it does to the fields the durable-view discipline is about.  The        *)
(* theorems of VsrProofs rest on these lemmas.                             *)
(***************************************************************************)
EXTENDS VsrReplica, FiniteSetTheorems, TLAPS

-----------------------------------------------------------------------------
(* Least and greatest elements. *)

\* The strict order on Nat is well founded.
LEMMA NatLessWellFounded == IsWellFoundedOn({p \in Nat \X Nat : p[1] < p[2]}, Nat)
BY NatLessThanWellFounded, Zenon DEF OpToRel

\* Min of a non-empty set of naturals is its least member.
LEMMA MinMember ==
    ASSUME NEW S, S \subseteq Nat, S # {}
    PROVE  Min(S) \in S /\ \A x \in S : Min(S) <= x
<1> DEFINE R == {p \in Nat \X Nat : p[1] < p[2]}
<1>1. \E m \in S : \A x \in S : ~(<<x, m>> \in R)
  <2> HIDE DEF R
  <2> QED BY Zenon, NatLessWellFounded, WFMin DEF R
<1>2. \A x, m \in Nat : <<x, m>> \in R <=> x < m
  OBVIOUS
<1> HIDE DEF R
<1>3. PICK m \in S : \A x \in S : ~(x < m)
  BY Zenon, <1>1, <1>2
<1>4. \A x \in S : m <= x
  BY <1>3
<1> QED BY Zenon, <1>4 DEF Min

\* Max of a non-empty bounded set of naturals is its greatest member.
LEMMA MaxMember ==
    ASSUME NEW S, NEW n \in Nat, S \subseteq 0 .. n, S # {}
    PROVE  Max(S) \in S /\ \A x \in S : x <= Max(S)
<1> DEFINE T == {n - x : x \in S}
<1>1. T \subseteq Nat
  OBVIOUS
<1>2. T # {}
  <2>1. PICK x \in S : TRUE
    BY Zenon
  <2>2. n - x \in T
    OBVIOUS
  <2> QED BY <2>2
<1>3. Min(T) \in T /\ \A x \in T : Min(T) <= x
  BY Zenon, <1>1, <1>2, MinMember
<1>4. PICK m \in S : \A x \in S : n - m <= n - x
  BY Zenon, <1>3
<1>5. \A x \in S : m >= x
  BY <1>4
<1> QED BY Zenon, <1>5 DEF Max

\* Induction over Nat, for a set.
LEMMA NatSetInduction ==
    ASSUME NEW S, 0 \in S, \A n \in Nat : n \in S => n + 1 \in S
    PROVE  Nat \subseteq S
<1> SUFFICES ASSUME Nat \ S # {} PROVE FALSE
  OBVIOUS
<1> DEFINE m == Min(Nat \ S)
<1>1. m \in Nat \ S /\ \A x \in Nat \ S : m <= x
  BY MinMember
<1> HIDE DEF m
<1>2. m # 0 /\ m - 1 \in Nat /\ m - 1 \in S
  BY <1>1
<1> QED BY <1>1, <1>2

\* A function from part of 0 .. n-1 to numbers has a greatest value.
LEMMA ImageMax ==
    ASSUME NEW n \in Nat, NEW D, D \subseteq 0 .. (n - 1), D # {}, NEW f \in [D -> Nat]
    PROVE  Max({f[q] : q \in D}) \in {f[q] : q \in D}
<1> DEFINE Bounded == {k \in Nat : \E b \in Nat : \A q \in D : q < k => f[q] <= b}
<1>1. 0 \in Bounded
  OBVIOUS
<1>2. ASSUME NEW k \in Nat, k \in Bounded PROVE k + 1 \in Bounded
  <2>1. PICK b \in Nat : \A q \in D : q < k => f[q] <= b
    BY <1>2
  <2>2. CASE k \in D
    <3> DEFINE c == IF f[k] <= b THEN b ELSE f[k]
    <3>1. c \in Nat /\ b <= c /\ f[k] <= c
      BY <2>2
    <3>2. \A q \in D : q < k + 1 => q = k \/ q < k
      OBVIOUS
    <3>3. \A q \in D : q < k + 1 => f[q] <= c
      BY <2>1, <3>1, <3>2
    <3> QED BY <3>1, <3>3
  <2>3. CASE k \notin D
    <3>1. \A q \in D : q < k + 1 => q < k
      BY <2>3
    <3> QED BY <2>1, <3>1
  <2> QED BY <2>2, <2>3
<1>3. Nat \subseteq Bounded
  BY Zenon, <1>1, <1>2, NatSetInduction
<1>4. PICK b \in Nat : \A q \in D : f[q] <= b
  <2>1. n \in Bounded
    BY Zenon, <1>3
  <2> QED BY <2>1
<1>5. {f[q] : q \in D} \subseteq 0 .. b
  BY <1>4
<1>6. {f[q] : q \in D} # {}
  BY Zenon
<1> QED BY Zenon, <1>5, <1>6, MaxMember

-----------------------------------------------------------------------------
(* Maps. *)

\* The empty map has every map type.
LEMMA EmptyMapType == ASSUME NEW K, NEW V PROVE IsMap(EmptyMap, K, V) /\ DOMAIN EmptyMap = {}
BY DEF IsMap, EmptyMap

\* Inserting a typed pair (BTreeMap::insert) keeps a map's type and adds its key.
LEMMA PutType ==
    ASSUME NEW K, NEW V, NEW f, IsMap(f, K, V), NEW k \in K, NEW v \in V
    PROVE  IsMap(Put(f, k, v), K, V) /\ DOMAIN Put(f, k, v) = DOMAIN f \cup {k}
BY DEF IsMap, Put

\* Removing keys keeps a map's type and removes exactly those keys.
LEMMA WithoutType ==
    ASSUME NEW K, NEW V, NEW f, IsMap(f, K, V), NEW X
    PROVE  /\ IsMap(Without(f, X), K, V)
           /\ DOMAIN Without(f, X) = DOMAIN f \ X
           /\ \A k \in DOMAIN f \ X : Without(f, X)[k] = f[k]
BY DEF IsMap, Without, Restrict

\* The set of maps and the predicate on maps agree.
LEMMA MapsToIsMap ==
    ASSUME NEW K, NEW V, NEW f
    PROVE  f \in MapsTo(K, V) <=> IsMap(f, K, V)
BY DEF MapsTo, IsMap

\* Min2 is the smaller of its arguments.
LEMMA Min2Type ==
    ASSUME NEW a \in Int, NEW b \in Int
    PROVE  Min2(a, b) \in {a, b} /\ Min2(a, b) <= a /\ Min2(a, b) <= b
BY DEF Min2

\* Max2 is the larger of its arguments.
LEMMA Max2Type ==
    ASSUME NEW a \in Int, NEW b \in Int
    PROVE  Max2(a, b) \in {a, b} /\ a <= Max2(a, b) /\ b <= Max2(a, b)
BY DEF Max2

-----------------------------------------------------------------------------
(* What a step may do to the view. *)

SameView(s, t) ==
    /\ t.status = s.status /\ t.view = s.view /\ t.durable_view = s.durable_view
    /\ t.root = s.root /\ t.roots = s.roots
    /\ t.catching_up = s.catching_up /\ t.pending_forfeit = s.pending_forfeit

\* From s to t the view stays, no op comes under vote, and only appends of the kinds K begin.
Keeps(s, t, K) ==
    /\ IsReplica(t)
    /\ SameView(s, t)
    /\ Kinds(t) \subseteq Kinds(s) \cup K \cup {"none"}
    /\ DOMAIN t.inflight \subseteq DOMAIN s.inflight

\* From s to t, nothing that speaks for a view is queued.
Silent(s, t) ==
    \A m \in t.outgoing : m \in s.outgoing \/ ~advertises_authoritative_view(m)

Quiet(s, t, K) == Keeps(s, t, K) /\ Silent(s, t)

\* Quiet steps compose: what each submits is joined, and both are silent.
LEMMA QuietStep ==
    ASSUME NEW s, NEW t, NEW u, NEW K, NEW L, Quiet(s, t, K), Quiet(t, u, L)
    PROVE  Quiet(s, u, K \cup L)
BY DEF Quiet, Keeps, Silent, SameView

\* Steps that keep the view and the roots compose.
LEMMA KeepsStep ==
    ASSUME NEW s, NEW t, NEW u, NEW K, NEW L, Keeps(s, t, K), Keeps(t, u, L)
    PROVE  Keeps(s, u, K \cup L)
BY DEF Keeps, SameView

-----------------------------------------------------------------------------
(* Messages are well formed. *)

\* What the assumption on the constants says of ops, frontiers and replica ids.
LEMMA FrontierType ==
    /\ Frontier \subseteq Nat /\ 0 \in Frontier /\ MaxOp \in Nat /\ Ops \subseteq Frontier
    /\ N \in Nat /\ 0 \in Replicas /\ Replicas \subseteq Nat
    /\ \A x \in Frontier : x # 0 => x \in Ops
BY ConstantsAssumption DEF Frontier, Ops, Replicas

\* The primary of every view is a replica.
LEMMA PrimaryType == \A v \in Nat : Primary(v) \in Replicas
BY ConstantsAssumption DEF Primary, primary, Replicas

\* An entry of a replica's log has an op as index and a request as identity.
LEMMA LogType ==
    ASSUME NEW s, IsReplica(s)
    PROVE  /\ DOMAIN s.log \subseteq Ops
           /\ \A op \in DOMAIN s.log : s.log[op] \in LogEntry /\ s.log[op].req \in Requests
BY DEF IsReplica, IsMap, LogEntry

\* A header-only slice of the log (log_entries, committed_band_headers) is typed.
LEMMA HeadersType ==
    ASSUME NEW s, IsReplica(s), NEW K
    PROVE  /\ IsMap(Headers(s, K), Ops, Requests)
           /\ Headers(s, K) \in MapsTo(Ops, Requests)
           /\ DOMAIN Headers(s, K) = DOMAIN s.log \cap K
<1>1. IsMap(Headers(s, K), Ops, Requests) /\ DOMAIN Headers(s, K) = DOMAIN s.log \cap K
  BY LogType DEF Headers, IsMap
<1> QED BY <1>1, MapsToIsMap

\* An op's identity is a request, or none for an op that is not held.
LEMMA IdentityType ==
    ASSUME NEW s, IsReplica(s), NEW op
    PROVE  identity(s, op) \in Requests \cup {NoIdentity}
BY LogType DEF identity, Held

\* What a StartView carries is a canonical head.
LEMMA CanonicalHeadType ==
    ASSUME NEW s, IsReplica(s) PROVE canonical_head(s) \in CanonicalHead
BY Zenon, HeadersType DEF canonical_head, CanonicalHead, log_entries, IsReplica

\* What a replica puts in its DoViewChange is a Dvc.
LEMMA OwnDvcType ==
    ASSUME NEW s, IsReplica(s) PROVE own_dvc(s) \in Dvc
<1>1. Min2(s.commit_max, s.op) \in Frontier
  BY DEF IsReplica, Min2
<1> QED BY Zenon, <1>1, HeadersType DEF own_dvc, Dvc, log_entries, IsReplica

\* A Prepare or a repair batch made of a held op is a message.
LEMMA ServedType ==
    ASSUME NEW s, IsReplica(s), NEW r \in Replicas, NEW op \in DOMAIN s.log, NEW q \in Replicas,
           NEW to \in SUBSET Replicas
    PROVE  Prepare(s, r, to, op) \in Message /\ RepairBatch(s, r, q, op) \in Message
BY Zenon, LogType DEF Prepare, RepairBatch, Message, IsReplica

\* A PrepareOk and a DoViewChange are messages.
LEMMA VoteType ==
    ASSUME NEW s, IsReplica(s), NEW r \in Replicas
    PROVE  /\ \A op \in Ops : PrepareOk(s, r, op) \in Message
           /\ DoViewChange(s, r) \in Message
           /\ StartViewChange(s, r) \in Message
<1>1. Primary(s.view) \in Replicas
  BY PrimaryType DEF IsReplica
<1>2. ASSUME NEW op \in Ops PROVE PrepareOk(s, r, op) \in Message
  BY Zenon, <1>1, IdentityType DEF PrepareOk, Message, IsReplica
<1>3. DoViewChange(s, r) \in Message
  BY Zenon, <1>1, OwnDvcType DEF DoViewChange, Message, IsReplica
<1>4. StartViewChange(s, r) \in Message
  BY DEF StartViewChange, Others, Message, IsReplica
<1> QED BY <1>2, <1>3, <1>4

\* Commit, StartView and the other announcements of a view are messages.
LEMMA AnnounceType ==
    ASSUME NEW s, IsReplica(s), NEW r \in Replicas
    PROVE  /\ Commit(s, r) \in Message
           /\ \A to \in SUBSET Replicas : StartView(s, r, to) \in Message
           /\ GetView(s, r) \in Message
           /\ Recovery(s, r) \in Message
<1>1. Commit(s, r) \in Message
  BY DEF Commit, Others, Message, IsReplica
<1>2. \A to \in SUBSET Replicas : StartView(s, r, to) \in Message
  BY Zenon, CanonicalHeadType DEF StartView, Message, IsReplica
<1>3. Primary(s.view) \in Replicas
  BY PrimaryType DEF IsReplica
<1>4. GetView(s, r) \in Message
  BY <1>3 DEF GetView, Message, IsReplica
<1>5. Recovery(s, r) \in Message
  BY DEF Recovery, Others, Message, IsReplica
<1> QED BY <1>1, <1>2, <1>4, <1>5

\* The requests for missing bodies are messages.
LEMMA RequestType ==
    ASSUME NEW r \in Replicas, NEW op \in Ops
    PROVE  RequestPrepare(r, op) \in Message /\ RequestPrepareRange(r, op) \in Message
BY DEF RequestPrepare, RequestPrepareRange, Others, Message

\* A Nack is a message.
LEMMA NackType ==
    ASSUME NEW s, IsReplica(s), NEW r \in Replicas, NEW op \in Ops, NEW q \in Replicas
    PROVE  Nack(s, r, q, op) \in Message
BY DEF Nack, Message, IsReplica

-----------------------------------------------------------------------------
(* Storage. *)

\* emit changes the outgoing messages alone.
LEMMA EmitKeeps ==
    ASSUME NEW s, IsReplica(s), NEW ms \in SUBSET Message
    PROVE  Keeps(s, emit(s, ms), {}) /\ emit(s, ms).outgoing = s.outgoing \cup ms
<1>1. IsReplica(emit(s, ms))
  BY DEF emit, IsReplica
<1> QED BY <1>1 DEF emit, Keeps, SameView, Kinds, IsReplica

\* emit of messages that advertise no view is quiet.
LEMMA EmitQuiet ==
    ASSUME NEW s, IsReplica(s), NEW ms \in SUBSET Message,
           \A m \in ms : ~advertises_authoritative_view(m)
    PROVE  Quiet(s, emit(s, ms), {})
BY EmitKeeps DEF Quiet, Silent

\* submit_or_defer_append submits appends of one kind and touches no view or root.
LEMMA SubmitAppend ==
    ASSUME NEW s, IsReplica(s), NEW reqs, IsMap(reqs, Ops, Requests), NEW view \in Nat,
           NEW kind \in Pending
    PROVE  Quiet(s, submit_or_defer_append(s, reqs, view, kind), {kind})
<1> DEFINE W(op) == [req |-> reqs[op], view |-> view, kind |-> kind]
           fenced == DOMAIN reqs \cap DOMAIN s.writing
           free == DOMAIN reqs \ fenced
           writing == [op \in DOMAIN s.writing \cup free |->
                         IF op \in free THEN W(op) ELSE s.writing[op]]
           deferred == [op \in DOMAIN s.deferred \cup fenced |->
                         IF op \in fenced THEN W(op) ELSE s.deferred[op]]
           t == submit_or_defer_append(s, reqs, view, kind)
<1>1. \A op \in DOMAIN reqs : W(op) \in AppendWrite
  BY DEF IsMap, AppendWrite
<1>2. IsMap(writing, Ops, AppendWrite) /\ IsMap(deferred, Ops, AppendWrite)
  BY <1>1 DEF IsMap, IsReplica
<1>3. t = [s EXCEPT !.writing = writing, !.deferred = deferred]
  BY DEF submit_or_defer_append
<1>4. \A op \in DOMAIN writing : writing[op].kind \in Kinds(s) \cup {kind}
  BY DEF Kinds
<1>5. \A op \in DOMAIN deferred : deferred[op].kind \in Kinds(s) \cup {kind}
  BY DEF Kinds
<1> HIDE DEF t, writing, deferred
<1>6. IsReplica(t) /\ t.writing = writing /\ t.deferred = deferred
  BY <1>2, <1>3 DEF IsReplica
<1>7. Kinds(t) \subseteq Kinds(s) \cup {kind}
  BY <1>4, <1>5, <1>6 DEF Kinds
<1>8. SameView(s, t) /\ t.inflight = s.inflight /\ t.outgoing = s.outgoing
  BY <1>3 DEF SameView, IsReplica
<1> QED BY <1>6, <1>7, <1>8 DEF Quiet, Keeps, Silent, t

\* release_deferred_append submits a write that was already pending.
LEMMA ReleaseQuiet ==
    ASSUME NEW s, IsReplica(s), NEW op \in Ops
    PROVE  Quiet(s, release_deferred_append(s, op), {})
<1>1. CASE op \in DOMAIN s.deferred
  <2> DEFINE writing == Put(s.writing, op, s.deferred[op])
             deferred == Without(s.deferred, {op})
             t == release_deferred_append(s, op)
  <2>1. s.deferred[op] \in AppendWrite
    BY <1>1 DEF IsReplica, IsMap
  <2>2. IsMap(writing, Ops, AppendWrite) /\ IsMap(deferred, Ops, AppendWrite)
    BY Zenon, <2>1, PutType, WithoutType DEF IsReplica
  <2>3. \A o \in DOMAIN writing : writing[o].kind \in Kinds(s)
    BY <1>1 DEF Kinds, Put
  <2>4. \A o \in DOMAIN deferred : deferred[o].kind \in Kinds(s)
    BY DEF Kinds, Without, Restrict
  <2>5. t = [s EXCEPT !.writing = writing, !.deferred = deferred]
    BY <1>1 DEF release_deferred_append
  <2> HIDE DEF writing, deferred, t
  <2>6. IsReplica(t) /\ t.writing = writing /\ t.deferred = deferred
    BY <2>2, <2>5 DEF IsReplica
  <2>7. Kinds(t) \subseteq Kinds(s)
    BY <2>3, <2>4, <2>6 DEF Kinds
  <2>8. SameView(s, t) /\ t.inflight = s.inflight /\ t.outgoing = s.outgoing
    BY <2>5 DEF SameView, IsReplica
  <2> QED BY <2>6, <2>7, <2>8 DEF Quiet, Keeps, Silent, t
<1>2. CASE op \notin DOMAIN s.deferred
  BY <1>2 DEF release_deferred_append, Quiet, Keeps, Silent, SameView
<1> QED BY <1>1, <1>2

\* adopt_append submits appends of one kind and touches no view or root.
LEMMA AdoptAppend ==
    ASSUME NEW s, IsReplica(s), NEW K, NEW kind \in Pending
    PROVE  Quiet(s, adopt_append(s, K, kind), {kind})
<1>1. s.view \in Nat
  BY DEF IsReplica
<1> QED BY Zenon, <1>1, HeadersType, SubmitAppend DEF adopt_append

\* A step that writes none of the fields the durable-view discipline reads.
LEMMA FrameQuiet ==
    ASSUME NEW s, NEW t, IsReplica(t), SameView(s, t), t.writing = s.writing,
           t.deferred = s.deferred, t.outgoing = s.outgoing,
           DOMAIN t.inflight \subseteq DOMAIN s.inflight
    PROVE  Quiet(s, t, {})
BY DEF Quiet, Keeps, Silent, Kinds

\* truncate touches the WAL alone.
LEMMA TruncateQuiet ==
    ASSUME NEW s, IsReplica(s), NEW above
    PROVE  Quiet(s, truncate(s, above), {})
<1> DEFINE gone == {op \in DOMAIN s.wal : op > above}
           lazy == [op \in DOMAIN s.wal |-> [s.wal[op] EXCEPT !.dropped = @ \/ op \in gone]]
           wal == IF LazyTruncate THEN lazy ELSE Without(s.wal, gone)
           t == truncate(s, above)
<1>1. IsMap(lazy, Ops, WalSlot)
  <2>1. ASSUME NEW op \in DOMAIN s.wal PROVE lazy[op] \in WalSlot
    <3>1. s.wal[op] \in WalSlot
      BY DEF IsReplica, IsMap
    <3>2. (s.wal[op].dropped \/ op \in gone) \in BOOLEAN
      OBVIOUS
    <3> QED BY Zenon, <3>1, <3>2 DEF WalSlot
  <2> QED BY Zenon, <2>1 DEF IsReplica, IsMap
<1>2. IsMap(wal, Ops, WalSlot)
  BY Zenon, <1>1, WithoutType DEF IsReplica
<1>3. t = [s EXCEPT !.wal = wal]
  BY DEF truncate
<1> HIDE DEF wal, t
<1>4. IsReplica(t)
  BY <1>2, <1>3 DEF IsReplica
<1>5. SameView(s, t) /\ t.writing = s.writing /\ t.deferred = s.deferred
      /\ t.outgoing = s.outgoing /\ t.inflight = s.inflight
  BY <1>3 DEF SameView, IsReplica
<1> QED BY <1>4, <1>5, FrameQuiet DEF t

\* Every root in flight is typed, and so is the latest.
LEMMA RootsType ==
    ASSUME NEW s, IsReplica(s)
    PROVE  /\ Len(s.roots) \in Nat /\ DOMAIN s.roots = 1 .. Len(s.roots)
           /\ \A i \in DOMAIN s.roots :
                 s.roots[i] \in RootWrite /\ s.roots[i].root \in Root /\ s.roots[i].root.view \in Nat
           /\ s.root \in Root /\ s.root.view \in Nat
<1>1. s.roots \in Seq(RootWrite) /\ s.root \in Root
  BY DEF IsReplica
<1>2. Len(s.roots) \in Nat /\ DOMAIN s.roots = 1 .. Len(s.roots)
      /\ \A i \in DOMAIN s.roots : s.roots[i] \in RootWrite
  BY <1>1
<1>3. \A w \in RootWrite : w.root \in Root
  BY DEF RootWrite
<1>4. \A root \in Root : root.view \in Nat
  BY DEF Root
<1> QED BY <1>1, <1>2, <1>3, <1>4

\* The root submit_durable_view writes is typed.
LEMMA NewRootType ==
    ASSUME NEW s, IsReplica(s)
    PROVE  [view |-> s.view, log_view |-> s.log_view, commit |-> s.commit_max,
            headers |-> Headers(s, 1 .. Min2(s.commit_max, s.op))] \in Root
BY Zenon, HeadersType DEF IsReplica, Root

\* A new root waits behind the one at the device, which nothing awaits any more.
LEMMA SubmitRoot ==
    ASSUME NEW s, IsReplica(s), NEW action \in SbAction
    PROVE  LET t == submit_durable_view(s, action)
           IN  /\ IsReplica(t)
               /\ t = [s EXCEPT !.roots = t.roots]
               /\ \/ /\ s.roots = <<>> /\ Len(t.roots) = 1 /\ DOMAIN t.roots = {1}
                     /\ t.roots[1].root.view = s.view /\ t.roots[1].action = action
                  \/ /\ s.roots # <<>> /\ Len(t.roots) = 2 /\ DOMAIN t.roots = {1, 2}
                     /\ t.roots[1].root = s.roots[1].root /\ t.roots[1].action = "none"
                     /\ t.roots[2].root.view = s.view /\ t.roots[2].action = action
<1> DEFINE root == [view |-> s.view, log_view |-> s.log_view, commit |-> s.commit_max,
                    headers |-> Headers(s, 1 .. Min2(s.commit_max, s.op))]
           write == [root |-> root, action |-> action]
           first == [s.roots[1] EXCEPT !.action = "none"]
           t == submit_durable_view(s, action)
<1>1. root \in Root
  BY NewRootType
<1>2. root.view = s.view
  OBVIOUS
<1> HIDE DEF root
<1>3. write \in RootWrite
  BY <1>1 DEF RootWrite
<1>4. CASE s.roots = <<>>
  <2>1. t = [s EXCEPT !.roots = <<write>>]
    BY <1>4 DEF submit_durable_view, root
  <2>2. <<write>> \in Seq(RootWrite)
    BY <1>3
  <2>3. IsReplica(t) /\ t.roots = <<write>>
    BY <2>1, <2>2 DEF IsReplica
  <2> QED BY <1>2, <1>4, <2>1, <2>3
<1>5. CASE s.roots # <<>>
  <2>1. t = [s EXCEPT !.roots = <<first, write>>]
    BY <1>5 DEF submit_durable_view, root
  <2>2. s.roots[1] \in RootWrite
    BY <1>5 DEF IsReplica
  <2>3. first \in RootWrite /\ first.root = s.roots[1].root /\ first.action = "none"
    BY <2>2 DEF RootWrite, SbAction
  <2> HIDE DEF first
  <2>4. <<first, write>> \in Seq(RootWrite)
    BY <1>3, <2>3
  <2>5. IsReplica(t) /\ t.roots = <<first, write>>
    BY <2>1, <2>4 DEF IsReplica
  <2> QED BY <1>2, <1>5, <2>1, <2>3, <2>5
<1> QED BY <1>4, <1>5

\* abandon_root leaves the latest root in flight without an action, and no view changes.
LEMMA AbandonRoot ==
    ASSUME NEW s, IsReplica(s)
    PROVE  LET t == abandon_root(s)
           IN  /\ IsReplica(t)
               /\ t = [s EXCEPT !.roots = t.roots]
               /\ \/ s.roots = <<>> /\ t.roots = <<>>
                  \/ /\ s.roots # <<>> /\ Len(t.roots) = 1 /\ DOMAIN t.roots = {1}
                     /\ t.roots[1].root = s.roots[1].root /\ t.roots[1].action = "none"
<1> DEFINE first == [s.roots[1] EXCEPT !.action = "none"]
           t == abandon_root(s)
<1>1. CASE s.roots = <<>>
  <2>1. t = [s EXCEPT !.roots = <<>>]
    BY <1>1 DEF abandon_root
  <2>2. IsReplica(t) /\ t.roots = <<>>
    BY <2>1 DEF IsReplica
  <2> QED BY <1>1, <2>1, <2>2
<1>2. CASE s.roots # <<>>
  <2>1. t = [s EXCEPT !.roots = <<first>>]
    BY <1>2 DEF abandon_root
  <2>2. s.roots[1] \in RootWrite
    BY <1>2 DEF IsReplica
  <2>3. first \in RootWrite /\ first.root = s.roots[1].root /\ first.action = "none"
    BY <2>2 DEF RootWrite, SbAction
  <2> HIDE DEF first
  <2>4. <<first>> \in Seq(RootWrite)
    BY <2>3
  <2>5. IsReplica(t) /\ t.roots = <<first>>
    BY <2>1, <2>4 DEF IsReplica
  <2> QED BY <1>2, <2>1, <2>3, <2>5
<1> QED BY <1>1, <1>2

-----------------------------------------------------------------------------
(* Repair and commit. *)

\* A failed assertion stops the replica and changes nothing else.
LEMMA AssertQuiet ==
    ASSUME NEW s, IsReplica(s), NEW holds PROVE Quiet(s, assert(s, holds), {})
<1>1. IsReplica(assert(s, holds))
  BY Zenon DEF assert, IsReplica
<1> QED BY Zenon, <1>1, FrameQuiet DEF assert, SameView, IsReplica

\* request_repair asks for bodies and announces no view.
LEMMA RequestRepairQuiet ==
    ASSUME NEW s, IsReplica(s), NEW r \in Replicas, NEW K \in SUBSET Ops
    PROVE  Quiet(s, request_repair(s, r, K), {})
<1> DEFINE t == [s EXCEPT !.repair = @ \cup K]
           ms == {RequestPrepare(r, op) : op \in K}
<1>1. IsReplica(t)
  BY DEF IsReplica
<1>2. Quiet(s, t, {})
  BY Zenon, <1>1, FrameQuiet DEF SameView, IsReplica
<1>3. ms \in SUBSET Message /\ \A m \in ms : ~advertises_authoritative_view(m)
  BY RequestType DEF RequestPrepare, advertises_authoritative_view
<1> HIDE DEF t, ms
<1>4. Quiet(t, emit(t, ms), {})
  BY <1>1, <1>3, EmitQuiet
<1>5. Quiet(s, emit(t, ms), {})
  BY <1>2, <1>4, QuietStep
<1> QED BY <1>5 DEF request_repair, t, ms

\* request_repair_run asks for a run of bodies and announces no view.
LEMMA RequestRepairRunQuiet ==
    ASSUME NEW s, IsReplica(s), NEW r \in Replicas, NEW lo \in Ops
    PROVE  Quiet(s, request_repair_run(s, r, lo), {})
<1> DEFINE run == {lo} \cup {hi \in lo .. Min2(s.commit_max, s.op) :
                               \A op \in (lo + 1) .. hi : ~Present(s, op)}
           t == [s EXCEPT !.repair = @ \cup run]
           ms == {RequestPrepareRange(r, op) : op \in run}
<1>1. run \subseteq Ops
  <2>1. Min2(s.commit_max, s.op) \in Frontier
    BY DEF Min2, IsReplica
  <2> QED BY <2>1, ConstantsAssumption DEF Ops, Frontier
<1> HIDE DEF run
<1>2. IsReplica(t)
  BY <1>1 DEF IsReplica
<1>3. Quiet(s, t, {})
  BY Zenon, <1>2, FrameQuiet DEF SameView, IsReplica
<1>4. ms \in SUBSET Message /\ \A m \in ms : ~advertises_authoritative_view(m)
  BY <1>1, RequestType DEF RequestPrepareRange, advertises_authoritative_view
<1> HIDE DEF t, ms
<1>5. Quiet(t, emit(t, ms), {})
  BY <1>2, <1>4, EmitQuiet
<1>6. Quiet(s, emit(t, ms), {})
  BY <1>3, <1>5, QuietStep
<1> QED BY <1>6 DEF request_repair_run, run, t, ms

\* Applying committed ops touches no view or root and sends nothing.
LEMMA ApplyQuiet ==
    ASSUME NEW s, IsReplica(s), NEW upto \in Frontier,
           (s.commit_min + 1) .. upto \subseteq DOMAIN s.log
    PROVE  Quiet(s, apply_upto(s, upto), {})
<1> DEFINE ops == (s.commit_min + 1) .. upto
           reqs == {s.log[op].req : op \in ops}
           events == {<<op, s.log[op].req>> : op \in ops}
           inflight == Without(s.inflight, 1 .. upto)
           t == apply_upto(s, upto)
<1>1. reqs \subseteq Requests /\ events \subseteq Ops \X Requests
  BY LogType
<1>2. IsMap(inflight, Ops, Inflight) /\ DOMAIN inflight \subseteq DOMAIN s.inflight
  <2>1. IsMap(s.inflight, Ops, Inflight)
    BY DEF IsReplica
  <2>2. IsMap(inflight, Ops, Inflight)
    BY <2>1, WithoutType, Zenon
  <2> QED BY <2>2 DEF Without, Restrict
<1>3. t = [s EXCEPT !.commit_min = upto, !.events = @ \cup events, !.clients = @ \cup reqs,
                    !.replied = @ \cup reqs, !.inflight = inflight]
  BY DEF apply_upto
<1> HIDE DEF reqs, events, inflight, t
<1>4. IsReplica(t)
  BY <1>1, <1>2, <1>3 DEF IsReplica
<1>5. SameView(s, t) /\ t.writing = s.writing /\ t.deferred = s.deferred
      /\ t.outgoing = s.outgoing /\ DOMAIN t.inflight \subseteq DOMAIN s.inflight
  BY <1>2, <1>3 DEF SameView, IsReplica
<1> QED BY <1>4, <1>5, FrameQuiet DEF t

\* The applicable prefix ends at a held op, at or above commit_min.
LEMMA LastApplicableType ==
    ASSUME NEW s, IsReplica(s), NEW ready
    PROVE  /\ last_applicable(s, ready) \in Frontier
           /\ s.commit_min <= last_applicable(s, ready)
           /\ (s.commit_min + 1) .. last_applicable(s, ready) \subseteq ready
<1> DEFINE S == {s.commit_min} \cup {op \in Ops : (s.commit_min + 1) .. op \subseteq ready}
<1>1. S \subseteq 0 .. MaxOp /\ S # {} /\ s.commit_min \in S
  BY FrontierType DEF IsReplica, Frontier, Ops
<1>2. Max(S) \in S /\ \A x \in S : x <= Max(S)
  BY <1>1, FrontierType, MaxMember
<1>3. Max(S) = s.commit_min \/ (s.commit_min + 1) .. Max(S) \subseteq ready
  BY <1>2
<1>4. Max(S) \in Frontier /\ s.commit_min \in Frontier /\ s.commit_min <= Max(S)
  BY <1>1, <1>2 DEF Frontier
<1> HIDE DEF S
<1>5. (s.commit_min + 1) .. Max(S) \subseteq ready
  <2>1. CASE Max(S) = s.commit_min
    <3>1. s.commit_min \in Nat
      BY Zenon, <1>4, FrontierType
    <3>2. (s.commit_min + 1) .. s.commit_min = {}
      BY <3>1
    <3> QED BY <2>1, <3>2
  <2> QED BY <1>3, <2>1
<1> QED BY <1>4, <1>5 DEF last_applicable, S

\* advance_commit touches no view or root and announces none.
LEMMA AdvanceCommitQuiet ==
    ASSUME NEW s, IsReplica(s), NEW r \in Replicas, NEW target \in Frontier
    PROVE  Quiet(s, advance_commit(s, r, target), {})
<1> DEFINE limit == Min2(target, s.op)
           ready == {op \in 1 .. limit : Present(s, op)}
           upto == last_applicable(s, ready)
           known == [s EXCEPT !.commit_max = Max2(@, target)]
           done == apply_upto(known, upto)
<1>1. limit \in Frontier
  BY DEF Min2, IsReplica
<1>2. IsReplica(known) /\ known.commit_min = s.commit_min /\ known.log = s.log
  <2>1. Max2(s.commit_max, target) \in Frontier
    BY DEF Max2, IsReplica
  <2> QED BY <2>1 DEF IsReplica
<1>3. Quiet(s, known, {})
  BY Zenon, <1>2, FrameQuiet DEF SameView, IsReplica
<1>4. upto \in Frontier /\ (s.commit_min + 1) .. upto \subseteq ready
  BY LastApplicableType
<1>5. ready \subseteq DOMAIN s.log
  BY DEF Present, Held
<1> HIDE DEF limit, ready, upto, known
<1>6. Quiet(known, done, {})
  BY <1>2, <1>4, <1>5, ApplyQuiet
<1>7. Quiet(s, done, {}) /\ IsReplica(done)
  BY <1>3, <1>6, QuietStep DEF Quiet, Keeps
<1> HIDE DEF done
<1>8. CASE upto < limit
  <2>1. upto + 1 \in Ops
    BY <1>1, <1>4, <1>8, ConstantsAssumption DEF Frontier, Ops
  <2>2. Quiet(done, request_repair_run(done, r, upto + 1), {})
    BY <1>7, <2>1, RequestRepairRunQuiet
  <2>3. Quiet(s, request_repair_run(done, r, upto + 1), {})
    BY <1>7, <2>2, QuietStep
  <2> QED BY <1>8, <2>3 DEF advance_commit, limit, ready, upto, known, done
<1>9. CASE ~(upto < limit)
  BY <1>7, <1>9 DEF advance_commit, limit, ready, upto, known, done
<1> QED BY <1>8, <1>9

\* What try_commit queues that speaks for a view: this view, by r, unless it awaits its root.
Announces(s, t, r) ==
    \A m \in t.outgoing :
        \/ m \in s.outgoing
        \/ ~advertises_authoritative_view(m)
        \/ m.from = r /\ m.view = s.view /\ ~pending_durable_view(s)

\* A primary's commit announces only its own view, and only a durable one.
LEMMA CommitThroughKeeps ==
    ASSUME NEW s, IsReplica(s), NEW r \in Replicas, NEW upto \in Frontier, s.commit_min <= upto,
           (s.commit_min + 1) .. upto \subseteq DOMAIN s.log
    PROVE  Keeps(s, commit_through(s, r, upto), {}) /\ Announces(s, commit_through(s, r, upto), r)
<1> DEFINE app == apply_upto(s, upto)
           done == [app EXCEPT !.commit_max = Max2(@, upto)]
           held == IF Acked(s, upto + 1) THEN request_repair_run(done, r, upto + 1) ELSE done
<1>1. Quiet(s, app, {}) /\ IsReplica(app)
  BY ApplyQuiet DEF Quiet, Keeps
<1> HIDE DEF app
<1>2. IsReplica(done)
  <2>1. Max2(app.commit_max, upto) \in Frontier
    BY <1>1 DEF Max2, IsReplica
  <2> QED BY Zenon, <1>1, <2>1 DEF IsReplica
<1>3. Quiet(app, done, {})
  BY Zenon, <1>1, <1>2, FrameQuiet DEF SameView, IsReplica
<1> HIDE DEF done
<1>4. Quiet(s, done, {})
  BY <1>1, <1>3, QuietStep
<1>5. Quiet(s, held, {}) /\ IsReplica(held)
  <2>1. CASE Acked(s, upto + 1)
    <3>1. upto + 1 \in Ops
      BY <2>1 DEF Acked, IsReplica, IsMap
    <3>2. Quiet(done, request_repair_run(done, r, upto + 1), {})
      BY <1>2, <3>1, RequestRepairRunQuiet
    <3> QED BY <1>4, <2>1, <3>2, QuietStep DEF Quiet, Keeps
  <2>2. CASE ~Acked(s, upto + 1)
    BY <1>2, <1>4, <2>2
  <2> QED BY <2>1, <2>2
<1> HIDE DEF held
<1>6. CASE upto > s.commit_min /\ ~pending_durable_view(s)
  <2> DEFINE t == emit(held, {Commit(done, r)})
  <2>1. {Commit(done, r)} \in SUBSET Message
    BY <1>2, AnnounceType
  <2>2. Keeps(held, t, {}) /\ t.outgoing = held.outgoing \cup {Commit(done, r)}
    BY <1>5, <2>1, EmitKeeps
  <2>3. Keeps(s, t, {})
    BY <1>5, <2>2, KeepsStep DEF Quiet
  <2>4. Commit(done, r).from = r /\ Commit(done, r).view = s.view
    BY <1>4 DEF Commit, Quiet, Keeps, SameView
  <2>5. commit_through(s, r, upto) = t
    BY <1>6 DEF commit_through, app, done, held
  <2> HIDE DEF t
  <2>6. Announces(s, t, r)
    BY <1>5, <1>6, <2>2, <2>4 DEF Announces, Quiet, Silent
  <2> QED BY <2>3, <2>5, <2>6
<1>7. CASE ~(upto > s.commit_min /\ ~pending_durable_view(s))
  <2>1. commit_through(s, r, upto) = held
    BY <1>7 DEF commit_through, app, done, held
  <2> QED BY <1>5, <2>1 DEF Announces, Quiet, Silent
<1> QED BY <1>6, <1>7

\* try_commit announces only the replica's own view, and only a durable one.
LEMMA TryCommitKeeps ==
    ASSUME NEW s, IsReplica(s), NEW r \in Replicas
    PROVE  Keeps(s, try_commit(s, r), {}) /\ Announces(s, try_commit(s, r), r)
<1> DEFINE ready == {op \in Ops : Acked(s, op) /\ Present(s, op)}
           upto == last_applicable(s, ready)
<1>1. CASE is_primary(s, r)
  <2>1. upto \in Frontier /\ s.commit_min <= upto /\ (s.commit_min + 1) .. upto \subseteq ready
    BY LastApplicableType
  <2>2. ready \subseteq DOMAIN s.log
    BY DEF Present, Held
  <2>3. try_commit(s, r) = commit_through(s, r, upto)
    BY <1>1 DEF try_commit
  <2> HIDE DEF upto, ready
  <2>4. (s.commit_min + 1) .. upto \subseteq DOMAIN s.log
    BY <2>1, <2>2
  <2> QED BY <2>1, <2>3, <2>4, CommitThroughKeeps
<1>2. CASE ~is_primary(s, r)
  BY <1>2 DEF try_commit, Keeps, Announces, SameView
<1> QED BY <1>1, <1>2

\* record_own_vote counts a vote in memory and sends nothing.
LEMMA RecordOwnVoteQuiet ==
    ASSUME NEW s, IsReplica(s), NEW r \in Replicas, NEW op
    PROVE  Quiet(s, record_own_vote(s, r, op), {})
<1> DEFINE t == record_own_vote(s, r, op)
<1>1. CASE op \in DOMAIN s.inflight
  <2> DEFINE inflight == [s.inflight EXCEPT ![op].oks = @ \cup {r}]
  <2>1. IsMap(inflight, Ops, Inflight) /\ DOMAIN inflight = DOMAIN s.inflight
    <3>1. s.inflight \in [DOMAIN s.inflight -> Inflight] /\ DOMAIN s.inflight \subseteq Ops
      BY DEF IsReplica, IsMap
    <3>2. s.inflight[op].oks \cup {r} \in SUBSET Replicas
      BY <1>1, <3>1 DEF Inflight
    <3>3. [s.inflight[op] EXCEPT !.oks = @ \cup {r}] \in Inflight
      BY <1>1, <3>1, <3>2 DEF Inflight
    <3> QED BY Zenon, <3>1, <3>3 DEF IsMap
  <2>2. t = [s EXCEPT !.inflight = inflight]
    BY <1>1 DEF record_own_vote, IsReplica
  <2> HIDE DEF inflight, t
  <2>3. IsReplica(t)
    BY <2>1, <2>2 DEF IsReplica
  <2>4. SameView(s, t) /\ t.writing = s.writing /\ t.deferred = s.deferred
        /\ t.outgoing = s.outgoing /\ DOMAIN t.inflight \subseteq DOMAIN s.inflight
    BY <2>1, <2>2 DEF SameView, IsReplica
  <2> QED BY <2>3, <2>4, FrameQuiet DEF t
<1>2. CASE op \notin DOMAIN s.inflight
  BY <1>2, FrameQuiet DEF record_own_vote, SameView
<1> QED BY <1>1, <1>2

\* append_prepare submits one append that will acknowledge, and nothing else.
LEMMA AppendPrepare ==
    ASSUME NEW s, IsReplica(s), NEW op \in Ops, NEW req \in Requests, NEW view \in Nat
    PROVE  /\ Quiet(s, append_prepare(s, op, req, view), {"Ack"})
           /\ append_prepare(s, op, req, view).inflight = s.inflight
           /\ op \in DOMAIN append_prepare(s, op, req, view).log
           /\ append_prepare(s, op, req, view).outgoing = s.outgoing
<1> DEFINE reqs == [o \in {op} |-> req]
           u == submit_or_defer_append(s, reqs, view, "Ack")
           log == Put(s.log, op, [req |-> req, body |-> "Present"])
           t == append_prepare(s, op, req, view)
<1>1. IsMap(reqs, Ops, Requests) /\ "Ack" \in Pending
  BY DEF IsMap, Pending
<1> HIDE DEF reqs
<1>2. Quiet(s, u, {"Ack"}) /\ IsReplica(u)
  BY <1>1, SubmitAppend DEF Quiet, Keeps
<1>3. u.inflight = s.inflight /\ u.outgoing = s.outgoing
  BY DEF submit_or_defer_append, IsReplica
<1>4. [req |-> req, body |-> "Present"] \in LogEntry /\ IsMap(s.log, Ops, LogEntry)
  BY DEF LogEntry, IsReplica
<1>5. IsMap(log, Ops, LogEntry) /\ op \in DOMAIN log
  BY <1>4, PutType DEF Put
<1>6. t = [u EXCEPT !.op = Max2(@, op), !.log = log]
  BY DEF append_prepare, reqs
<1> HIDE DEF u, log, t
<1>7. Max2(u.op, op) \in Frontier
  BY <1>2, FrontierType DEF Max2, IsReplica
<1>8. IsReplica(t) /\ t.log = log
  BY <1>2, <1>5, <1>6, <1>7 DEF IsReplica
<1>9. SameView(u, t) /\ t.writing = u.writing /\ t.deferred = u.deferred
      /\ t.outgoing = u.outgoing /\ t.inflight = u.inflight
  BY <1>2, <1>6 DEF SameView, IsReplica
<1>10. Quiet(u, t, {})
  BY <1>8, <1>9, FrameQuiet
<1>11. Quiet(s, t, {"Ack"})
  BY <1>2, <1>10, QuietStep
<1> QED BY <1>3, <1>5, <1>8, <1>9, <1>11 DEF t

\* request_tail_gap asks for bodies and announces no view.
LEMMA RequestTailGapQuiet ==
    ASSUME NEW s, IsReplica(s), NEW r \in Replicas
    PROVE  Quiet(s, request_tail_gap(s, r), {})
<1> DEFINE gap == (s.op + 1) .. s.commit_max
           ms == {RequestPrepare(r, op) : op \in gap}
<1>1. gap \subseteq Ops
  BY ConstantsAssumption DEF IsReplica, Frontier, Ops
<1> HIDE DEF gap
<1>2. ms \in SUBSET Message /\ \A m \in ms : ~advertises_authoritative_view(m)
  BY <1>1, RequestType DEF RequestPrepare, advertises_authoritative_view
<1> HIDE DEF ms
<1>3. Quiet(s, emit(s, ms), {})
  BY <1>2, EmitQuiet
<1> QED BY <1>3 DEF request_tail_gap, ms, gap

-----------------------------------------------------------------------------
(* The durable-view discipline within a step. *)

\* What a replica has queued in this step speaks for its durable view only, in its own name.
Speaks(s, r) ==
    \A m \in s.outgoing :
        advertises_authoritative_view(m) => m.from = r /\ m.view = s.root.view

Good(s, r) == IsReplica(s) /\ DurableView(s, r) /\ Speaks(s, r)

\* A step that keeps the view and the roots, and announces only the durable view, keeps
\* the discipline, if the appends it submits suit the status and the durable view.
LEMMA KeepsGood ==
    ASSUME NEW s, NEW t, NEW r, NEW K, Good(s, r), Keeps(s, t, K), Speaks(t, r),
           s.status = "ViewChange" => K \subseteq {"RepairFill", "none"},
           K \cap {"Ack", "AdoptAck"} # {} => s.view = s.durable_view
    PROVE  Good(t, r)
<1>1. RootsOrdered(t) /\ RootAwaited(t)
  BY DEF Good, DurableView, Keeps, SameView, RootsOrdered, RootAwaited
<1>2. pending_sb(t) = pending_sb(s) /\ (is_primary(t, r) <=> is_primary(s, r))
  BY DEF Keeps, SameView, pending_sb, is_primary
<1>3. t.status = "ViewChange" => DOMAIN t.inflight = {} /\ Kinds(t) \subseteq {"RepairFill", "none"}
  BY DEF Good, DurableView, Keeps, SameView
<1>4. Kinds(t) \cap {"Ack", "AdoptAck"} # {} => t.view = t.durable_view
  BY DEF Good, DurableView, Keeps, SameView
<1>5. (t.catching_up => t.status = "ViewChange")
      /\ (t.status = "Normal" /\ is_primary(t, r) /\ pending_sb(t) = "none" /\ ~t.pending_forfeit
            => t.view = t.durable_view)
  BY <1>2 DEF Good, DurableView, Keeps, SameView
<1> QED BY <1>1, <1>3, <1>4, <1>5 DEF Good, DurableView, Keeps

\* A quiet step keeps the discipline, under the same conditions.
LEMMA QuietGood ==
    ASSUME NEW s, NEW t, NEW r, NEW K, Good(s, r), Quiet(s, t, K),
           s.status = "ViewChange" => K \subseteq {"RepairFill", "none"},
           K \cap {"Ack", "AdoptAck"} # {} => s.view = s.durable_view
    PROVE  Good(t, r)
<1>1. Speaks(t, r)
  BY DEF Good, Quiet, Keeps, SameView, Silent, Speaks
<1> QED BY <1>1, KeepsGood DEF Quiet

\* A participant's view is durable.
LEMMA NotPending ==
    ASSUME NEW s, NEW r, Good(s, r), ~pending_durable_view(s), ~s.catching_up
    PROVE  s.view = s.durable_view /\ s.view = s.root.view
<1>1. s.view \in Nat /\ s.durable_view \in Nat
  BY DEF Good, IsReplica
<1>2. s.durable_view = s.root.view /\ s.durable_view <= s.view
  BY DEF Good, DurableView, RootsOrdered
<1>3. ~(s.view > s.durable_view)
  BY DEF pending_durable_view
<1> QED BY <1>1, <1>2, <1>3

\* A participant may speak for its view.
LEMMA EmitGood ==
    ASSUME NEW s, NEW r, Good(s, r), s.view = s.root.view, NEW ms \in SUBSET Message,
           \A m \in ms : advertises_authoritative_view(m) => m.from = r /\ m.view = s.view
    PROVE  Good(emit(s, ms), r)
<1>1. Keeps(s, emit(s, ms), {}) /\ emit(s, ms).outgoing = s.outgoing \cup ms
  BY EmitKeeps DEF Good
<1>2. Speaks(emit(s, ms), r)
  BY <1>1 DEF Good, Speaks, Keeps, SameView
<1> QED BY <1>1, <1>2, KeepsGood

\* try_commit keeps the discipline of a replica that does not probe an undurable view.
LEMMA TryCommitGood ==
    ASSUME NEW s, NEW r \in Replicas, Good(s, r), ~s.catching_up \/ s.view = s.root.view
    PROVE  Good(try_commit(s, r), r)
<1>1. Keeps(s, try_commit(s, r), {}) /\ Announces(s, try_commit(s, r), r)
  BY TryCommitKeeps DEF Good
<1>2. ~pending_durable_view(s) => s.view = s.root.view
  BY NotPending
<1>3. Speaks(try_commit(s, r), r)
  BY <1>1, <1>2 DEF Announces, Speaks, Good, Keeps, SameView
<1> QED BY <1>1, <1>3, KeepsGood

\* submit_durable_view establishes the discipline: after it the memory view has its root
\* in flight, whatever the view was raised to.
LEMMA SubmitGood ==
    ASSUME NEW s, NEW r, NEW action \in SbAction, IsReplica(s), RootsOrdered(s), Speaks(s, r),
           action # "none", action = "AdoptedStartView" => s.status = "Normal",
           s.catching_up => s.status = "ViewChange",
           s.status = "ViewChange" => DOMAIN s.inflight = {} /\ Kinds(s) \subseteq {"RepairFill", "none"},
           Kinds(s) \cap {"Ack", "AdoptAck"} # {} => s.view = s.durable_view
    PROVE  Good(submit_durable_view(s, action), r)
<1> DEFINE t == submit_durable_view(s, action)
<1>1. IsReplica(t) /\ t = [s EXCEPT !.roots = t.roots]
      /\ \/ /\ s.roots = <<>> /\ Len(t.roots) = 1 /\ DOMAIN t.roots = {1}
            /\ t.roots[1].root.view = s.view /\ t.roots[1].action = action
         \/ /\ s.roots # <<>> /\ Len(t.roots) = 2 /\ DOMAIN t.roots = {1, 2}
            /\ t.roots[1].root = s.roots[1].root /\ t.roots[1].action = "none"
            /\ t.roots[2].root.view = s.view /\ t.roots[2].action = action
  BY SubmitRoot
<1> HIDE DEF t
<1>2. /\ t.status = s.status /\ t.view = s.view /\ t.durable_view = s.durable_view
      /\ t.root = s.root /\ t.catching_up = s.catching_up /\ t.inflight = s.inflight
      /\ t.writing = s.writing /\ t.deferred = s.deferred /\ t.outgoing = s.outgoing
  BY Zenon, <1>1 DEF IsReplica
<1>3. s.roots # <<>> => 1 \in DOMAIN s.roots
  BY DEF IsReplica
<1>4. s.view \in Nat /\ s.root.view \in Nat
  BY DEF IsReplica, Root
<1>5. RootsOrdered(t) /\ RootAwaited(t)
  <2>1. CASE s.roots = <<>>
    <3>1. Len(t.roots) = 1 /\ DOMAIN t.roots = {1} /\ t.roots[1].root.view = s.view
          /\ t.roots[1].action = action
      BY <1>1, <2>1
    <3> QED BY <1>2, <1>4, <3>1 DEF RootsOrdered, RootAwaited
  <2>2. CASE s.roots # <<>>
    <3>1. Len(t.roots) = 2 /\ DOMAIN t.roots = {1, 2}
      BY <1>1, <2>2
    <3>2. t.roots[1].root.view = s.roots[1].root.view /\ t.roots[1].action = "none"
          /\ t.roots[2].root.view = s.view /\ t.roots[2].action = action
      BY <1>1, <2>2
    <3>3. s.roots[1].root.view \in Nat
      BY <1>3, <2>2, RootsType
    <3>4. s.root.view <= s.roots[1].root.view /\ s.roots[1].root.view <= s.view
      BY <1>3, <2>2 DEF RootsOrdered
    <3>5. RootsOrdered(t)
      BY <1>2, <1>4, <3>1, <3>2, <3>3, <3>4 DEF RootsOrdered
    <3>6. RootAwaited(t)
      BY <1>2, <3>1, <3>2 DEF RootAwaited
    <3> QED BY <3>5, <3>6
  <2> QED BY <2>1, <2>2
<1>6. pending_sb(t) # "none"
  BY <1>1 DEF pending_sb
<1>7. Kinds(t) = Kinds(s)
  BY <1>2 DEF Kinds
<1>8. DurableView(t, r)
  BY <1>2, <1>5, <1>6, <1>7 DEF DurableView
<1>9. Speaks(t, r)
  BY <1>2 DEF Speaks
<1> QED BY <1>1, <1>8, <1>9 DEF Good, t

=============================================================================
