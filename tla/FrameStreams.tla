---------------------------- MODULE FrameStreams ----------------------------
(***************************************************************************)
(* What one connection receives: the frame decoder (viewstamp-proto        *)
(* transport/frame/mod.rs) behind a byte stream with a label               *)
(* (labeled/mod.rs, conn/mod.rs) and behind the control and bulk streams   *)
(* of a QUIC connection (quic/bridge/mod.rs, quic/mod.rs).  Bytes arrive   *)
(* in pieces of any size, a stream may end between or inside frames or be  *)
(* reset, the hello may come with frames behind it, and the cap on a frame *)
(* rises when the peer is validated.                                       *)
(*                                                                         *)
(* A stream is the sequence of the lengths of its frames; a frame takes    *)
(* Prefix bytes for its length and then that many.  A decoder is described *)
(* by how many bytes it was given (have), the first frame it has not       *)
(* decoded (next), the decoded frames nobody has taken (ready) and its cap *)
(* (max): partial holds the bytes between the start of next and have.      *)
(***************************************************************************)
EXTENDS Integers, Sequences, FiniteSets

CONSTANTS
    Prefix,       \* LEN_PREFIX (4)
    HelloCap,     \* MAX_HELLO_LEN: the cap before the peer is validated, and the length of a stream's hello
    FrameCap,     \* MAX_FRAME_LEN
    StageChunk,   \* STAGE_CHUNK: the most bytes one pass reads from a stream
    Plans         \* what the peer sends: over "tcp", or over QUIC with the identity in a "hello" frame or in a
                  \* "cert"; its control frames, and its bulk streams, one opened after the other is reset

VARIABLE fs

Classes == {"Control", "Bulk"}

(* Where frame f of the stream s starts; Start(s, Len(s) + 1) is its size. *)
Start(s, f) ==
    LET Upto[g \in 0..(f - 1)] == IF g = 0 THEN 0 ELSE Upto[g - 1] + Prefix + s[g] IN Upto[f - 1]

Size(s) == Start(s, Len(s) + 1)

Least(set) == CHOOSE x \in set : \A y \in set : x <= y

-----------------------------------------------------------------------------
(* FrameDecoder.                                                           *)

NewDecoder(max) == [have |-> 0, next |-> 1, ready |-> <<>>, max |-> max, error |-> FALSE]

(* The frames from next on whose length prefix is buffered and exceeds the *)
(* cap, and the first frame that is not complete.                          *)
TooLong(s, d, max) == {f \in d.next..Len(s) : Start(s, f) + Prefix <= d.have /\ s[f] > max}

Incomplete(s, d) == Least({f \in d.next..(Len(s) + 1) : f > Len(s) \/ Start(s, f + 1) > d.have})

Decoded(d, upto) ==
    [d EXCEPT !.next = upto, !.ready = @ \o [i \in 1..(upto - d.next) |-> d.next + i - 1]]

(* extend, which first drains what is buffered: every complete frame, up   *)
(* to one whose length exceeds the cap.                                    *)
extend(s, d, n) ==
    LET got == [d EXCEPT !.have = @ + n]
        Take(bad) == IF bad = {} THEN Decoded(got, Incomplete(s, got))
                     ELSE [Decoded(got, Least(bad)) EXCEPT !.error = TRUE]
    IN  Take(TooLong(s, got, d.max))

(* buffer_capped_tail: the bytes behind the first frame are kept unread,   *)
(* with every length they show held to the final cap.                      *)
buffer_capped_tail(s, d) == [d EXCEPT !.error = TooLong(s, d, FrameCap) # {}]

(* extend_first: decodes one frame, under the cap before validation.       *)
extend_first(s, d, n) ==
    LET got == [d EXCEPT !.have = @ + n]
    IN  IF d.ready # <<>> THEN buffer_capped_tail(s, got)
        ELSE IF got.next \in TooLong(s, got, d.max) THEN [got EXCEPT !.error = TRUE]
        ELSE IF Incomplete(s, got) = got.next THEN got
        ELSE buffer_capped_tail(s, Decoded(got, got.next + 1))

partial_len(s, d) == d.have - Start(s, d.next)

(* decode_and_classify: a remainder that will not become a frame is torn,  *)
(* unless it is the tail kept behind the first frame.                      *)
TruncatedPartial(s, d) == partial_len(s, d) # 0 /\ (d.max = FrameCap \/ d.ready = <<>>)

-----------------------------------------------------------------------------
(* One connection.  sent and fin are the peer's side of each stream, read  *)
(* and dec ours; bulk is the stream the peer uses and recv the one we do.  *)

FrameStart(p) ==
    [plan |-> p, phase |-> "Handshaking", cause |-> "None", sent |-> [c \in Classes |-> 0],
     fin |-> [c \in Classes |-> "Open"], read |-> [c \in Classes |-> 0], bulk |-> 1, accepted |-> 0, recv |-> 0,
     dec |-> [c \in Classes |-> NewDecoder(IF c = "Bulk" \/ p.mode = "tcp" THEN FrameCap ELSE HelloCap)],
     notified |-> FALSE, closing |-> <<>>, delivered |-> <<>>, bound |-> FALSE, stranded |-> FALSE]

FrameInit == \E p \in Plans : fs = FrameStart(p)

StreamOf(x, c) ==
    IF c = "Control" THEN x.plan.control ELSE x.plan.bulk[IF x.recv = 0 THEN x.bulk ELSE x.recv]

close_local(x, cause) == IF x.phase = "Closed" THEN x ELSE [x EXCEPT !.phase = "Closed", !.cause = cause]

(* next_frame until the class has none: the messages go to the endpoint.   *)
Deliver(x, c) ==
    [x EXCEPT !.delivered = @ \o [i \in DOMAIN x.dec[c].ready |-> <<c, IF c = "Control" THEN 0 ELSE x.recv,
                                                                     x.dec[c].ready[i]>>],
              !.dec[c].ready = <<>>]

-----------------------------------------------------------------------------
(* The byte stream: the label, then frames.                                *)

(* finalize.                                                               *)
finalize(x) ==
    close_local(x, IF partial_len(x.plan.control, x.dec["Control"]) > 0 THEN "TruncatedFrame" ELSE "PeerClosed")

(* handle_conn_data with one chunk: the label is stripped (consume_inbound *)
(* and read_plaintext), the rest goes through the decoder; an accepted     *)
(* label validates the peer, and then the decoded frames are delivered.    *)
handle_conn_data(x, n, eof) ==
    LET had   == x.read["Control"]
        got   == had + n
        plain == (IF got > HelloCap THEN got - HelloCap ELSE 0) - (IF had > HelloCap THEN had - HelloCap ELSE 0)
        known == got >= HelloCap
        Accepted(y) == IF known THEN Deliver([y EXCEPT !.phase = "Validated", !.bound = TRUE], "Control") ELSE y
        Ended(y) == IF eof THEN finalize(y) ELSE y
        Read(y) == IF plain > 0 /\ y.dec["Control"].error THEN close_local(y, "FrameTooLong") ELSE Ended(Accepted(y))
    IN  Read([x EXCEPT !.sent["Control"] = got, !.read["Control"] = got,
                       !.dec["Control"] = extend(x.plan.control, @, plain)])

TcpSize(p) == HelloCap + Size(p.control)

TcpData(n, eof) ==
    /\ fs.plan.mode = "tcp" /\ fs.phase # "Closed"
    /\ fs.sent["Control"] + n <= TcpSize(fs.plan)
    /\ fs' = [handle_conn_data(fs, n, eof) EXCEPT !.fin["Control"] = IF eof THEN "Graceful" ELSE @]

-----------------------------------------------------------------------------
(* QUIC: the end of a stream is acted on once its frames are delivered.    *)

(* push_fin_close: an error over a torn stream over a clean end, each at   *)
(* most once.                                                              *)
push_fin_close(queue, c, disposition) ==
    IF disposition = "Clean"
    THEN IF \E i \in DOMAIN queue : queue[i][2] # "Clean" \/ queue[i][1] = c THEN queue
         ELSE Append(queue, <<c, "Clean">>)
    ELSE IF disposition = "Truncated" /\ \E i \in DOMAIN queue : queue[i][2] = "OverCap" THEN queue
    ELSE <<<<c, disposition>>>>

(* close_fault_class: the end of Control ends the connection, the end of   *)
(* Bulk only the stream.                                                   *)
close_fault_class(x, c) ==
    IF c = "Control" THEN close_local(x, "PeerClosed")
    ELSE [x EXCEPT !.recv = 0, !.read["Bulk"] = 0, !.dec["Bulk"] = NewDecoder(FrameCap)]

(* finish_fin_close asserts that everything decoded has been delivered.    *)
finish_fin_close(x, c, disposition) ==
    LET y == [x EXCEPT !.stranded = @ \/ (x.dec[c].ready # <<>>)]
    IN  CASE disposition = "Truncated" -> close_local(y, "TruncatedFrame")
          [] disposition = "OverCap"   -> close_local(y, "FrameTooLong")
          [] disposition = "Clean"     -> IF c = "Bulk" /\ x.recv = 0 THEN y ELSE close_fault_class(y, c)

FinishAll(x) ==
    LET Done[i \in 0..Len(x.closing)] ==
            IF i = 0 THEN [x EXCEPT !.closing = <<>>] ELSE finish_fin_close(Done[i - 1], x.closing[i][1], x.closing[i][2])
    IN  Done[Len(x.closing)]

(* A bug: the tail kept behind the hello is not decoded under the new cap. *)
bind_validated_tail_kept(x) ==
    [x EXCEPT !.phase = "Validated", !.bound = TRUE, !.dec["Control"].max = FrameCap, !.notified = TRUE]

(* bind_validated: the cap rises, what was kept behind the hello is        *)
(* decoded, an end already seen is judged again, and the connection is     *)
(* notified so that Bulk, unread until now, is read.                       *)
bind_validated(x) ==
    LET s == x.plan.control
        Torn(e) == IF e = <<"Control", "Clean">> THEN <<"Control", "Truncated">> ELSE e
        Judged(y, d) ==
            IF d.error THEN [y EXCEPT !.closing = push_fin_close(@, "Control", "OverCap")]
            ELSE [y EXCEPT !.closing = IF TruncatedPartial(s, d) THEN [i \in DOMAIN @ |-> Torn(@[i])] ELSE @,
                           !.notified = TRUE]
        Bound(y) == Judged(y, y.dec["Control"])
    IN  Bound([x EXCEPT !.phase = "Validated", !.bound = TRUE,
                        !.dec["Control"] = extend(s, [@ EXCEPT !.max = FrameCap], 0)])

(* The accept loop of ingest_recv: a new Bulk stream replaces the old one. *)
AcceptStreams(x) ==
    IF x.accepted = x.bulk \/ x.sent["Bulk"] = 0 THEN x
    ELSE [x EXCEPT !.accepted = x.bulk, !.recv = x.bulk, !.read["Bulk"] = 0, !.dec["Bulk"] = NewDecoder(FrameCap)]

(* ingest_recv, for one class: up to StageChunk bytes and, where they were *)
(* all, the end of the stream.                                             *)
RecvEnds(y, c, d) ==
    LET disposition == IF d.error THEN "OverCap" ELSE IF TruncatedPartial(StreamOf(y, c), d) THEN "Truncated" ELSE "Clean"
        pending     == \E k \in Classes : y.dec[k].ready # <<>>
    IN  IF disposition = "Clean" \/ pending THEN [y EXCEPT !.closing = push_fin_close(@, c, disposition)]
        ELSE close_local(y, IF d.error THEN "FrameTooLong" ELSE "TruncatedFrame")

ingest_class(x, c) ==
    LET avail == x.sent[c] - x.read[c]
        n     == IF avail > StageChunk THEN StageChunk ELSE avail
        more  == n = StageChunk
        first == x.phase = "Authenticating" /\ c = "Control"
        Read(y) == IF (x.fin[c] = "Graceful" /\ ~more) \/ y.dec[c].error THEN RecvEnds(y, c, y.dec[c])
                   ELSE [y EXCEPT !.notified = @ \/ more]
    IN  IF c = "Bulk" /\ x.recv = 0 THEN x
        ELSE IF x.fin[c] = "Abandoned" THEN close_fault_class(x, c)
        ELSE Read([x EXCEPT !.read[c] = @ + n,
                            !.dec[c] = IF first THEN extend_first(StreamOf(x, c), @, n) ELSE extend(StreamOf(x, c), @, n)])

ingest_recv(x) ==
    LET Bulk(y) == IF y.phase = "Validated" THEN ingest_class(y, "Bulk") ELSE y
    IN  Bulk(ingest_class(AcceptStreams(x), "Control"))

(* drain_bridge: what was notified is read, the first control frame of an  *)
(* unknown peer is its hello, the frames of a validated peer are delivered *)
(* and then the ended streams are closed.                                  *)
drain_bridge(x) ==
    LET Named(y) == IF y.plan.known THEN bind_validated(y) ELSE close_local(y, "IdentityRejected")
        Hello(y) == IF y.phase = "Authenticating" /\ y.dec["Control"].ready # <<>>
                    THEN Named([y EXCEPT !.dec["Control"].ready = Tail(@)]) ELSE y
        Taken(y) == IF y.phase = "Validated" THEN Deliver(Deliver(y, "Control"), "Bulk") ELSE y
    IN  FinishAll(Taken(Hello(IF x.notified THEN ingest_recv([x EXCEPT !.notified = FALSE]) ELSE x)))

(* Connected: the certificate is tried at once, the hello is waited for.   *)
Connected ==
    /\ fs.plan.mode # "tcp" /\ fs.phase = "Handshaking"
    /\ LET x == [fs EXCEPT !.phase = "Authenticating"]
       IN  fs' = drain_bridge(IF fs.plan.mode = "cert" THEN bind_validated(x) ELSE x)

Drain == fs.plan.mode # "tcp" /\ fs.phase \notin {"Handshaking", "Closed"} /\ fs.notified /\ fs' = drain_bridge(fs)

(* A datagram brings n bytes of a stream, its end or its reset; the        *)
(* connection is notified, and drained in this or a later pass.            *)
Arrives(c, n) ==
    /\ fs.plan.mode # "tcp" /\ fs.phase \notin {"Handshaking", "Closed"}
    /\ fs.fin[c] = "Open"
    /\ fs.sent[c] + n <= Size(IF c = "Control" THEN fs.plan.control ELSE fs.plan.bulk[fs.bulk])
    /\ fs' = [fs EXCEPT !.sent[c] = @ + n, !.notified = TRUE]

Ends(c, how) ==
    /\ fs.plan.mode # "tcp" /\ fs.phase \notin {"Handshaking", "Closed"}
    /\ fs.fin[c] = "Open" /\ fs.sent[c] > 0
    /\ fs' = [fs EXCEPT !.fin[c] = how, !.notified = TRUE]

(* reset_send_class of the peer and, with its next message, a new stream.  *)
Reopens ==
    /\ fs.plan.mode # "tcp" /\ fs.phase \notin {"Handshaking", "Closed"}
    /\ fs.fin["Bulk"] = "Abandoned" /\ fs.bulk < Len(fs.plan.bulk)
    /\ fs' = [fs EXCEPT !.bulk = @ + 1, !.sent["Bulk"] = 1, !.fin["Bulk"] = "Open", !.notified = TRUE]

FrameNext ==
    \/ \E n \in 0..StageChunk, eof \in BOOLEAN : (n > 0 \/ eof) /\ TcpData(n, eof)
    \/ Connected
    \/ Drain
    \/ \E c \in Classes : Arrives(c, 1) \/ \E how \in {"Graceful", "Abandoned"} : Ends(c, how)
    \/ Reopens

FrameSpec == FrameInit /\ [][FrameNext]_fs

-----------------------------------------------------------------------------
(* The frames delivered of a class, those that have arrived whole, and     *)
(* whether the class shows a frame over the cap or ends inside a frame.    *)
Got(c, k) == SelectSeq(fs.delivered, LAMBDA m : m[1] = c /\ m[2] = k)

HelloFrames(c) == IF c = "Control" /\ fs.plan.mode = "hello" THEN 1 ELSE 0

Bytes(c) == fs.sent[c] - (IF fs.plan.mode = "tcp" THEN HelloCap ELSE 0)

Sending(c) == IF c = "Control" THEN fs.plan.control ELSE fs.plan.bulk[fs.bulk]

Whole(c) ==
    LET s == Sending(c)
    IN  Cardinality({f \in DOMAIN s : Start(s, f + 1) <= Bytes(c) /\ \A g \in 1..f : s[g] <= FrameCap})

AllGot(c) == Len(Got(c, IF c = "Control" THEN 0 ELSE fs.bulk)) + HelloFrames(c) = Whole(c)

Oversize(c) ==
    LET s == Sending(c)
    IN  \E f \in DOMAIN s : Start(s, f) + Prefix <= Bytes(c)
                            /\ s[f] > (IF f <= HelloFrames(c) THEN HelloCap ELSE FrameCap)

Torn(c) ==
    LET s == Sending(c)
    IN  fs.fin[c] = "Graceful" /\ \A f \in 1..(Len(s) + 1) : Start(s, f) # Bytes(c)

(* Whatever the pieces in which bytes arrive and whenever the peer is      *)
(* validated, the messages delivered are the frames sent, whole, in order  *)
(* and only from a validated peer; nothing that has arrived is left        *)
(* waiting once the connection is no longer notified; a stream that ends   *)
(* has every whole frame delivered before the connection is closed, and    *)
(* the cause tells a torn or oversize frame from a clean end (drain_bridge *)
(* and the INV-1 assertion of finish_fin_close; handle_conn_data).         *)
FramesWhole ==
    /\ fs.delivered # <<>> => fs.bound
    /\ \A c \in Classes, k \in 0..fs.bulk :
         \A i \in DOMAIN Got(c, k) : Got(c, k)[i][3] = i + HelloFrames(c)
    /\ \A c \in Classes : Len(Got(c, IF c = "Control" THEN 0 ELSE fs.bulk)) + HelloFrames(c) <= Whole(c) \/ ~fs.bound
    /\ fs.phase = "Validated" /\ ~fs.notified =>
         AllGot("Control") /\ (fs.fin["Bulk"] # "Abandoned" => AllGot("Bulk"))
    /\ fs.phase = "Authenticating" /\ ~fs.notified => Whole("Control") = 0
    /\ fs.cause = "PeerClosed" /\ fs.fin["Control"] = "Graceful" /\ fs.bound => AllGot("Control") /\ ~Torn("Control")
    /\ fs.cause = "TruncatedFrame" => \E c \in Classes : Torn(c) /\ (fs.bound => AllGot(c))
    /\ fs.cause = "FrameTooLong" => \E c \in Classes : Oversize(c) /\ (fs.bound /\ fs.plan.mode # "tcp" => AllGot(c))
    /\ ~fs.stranded

=============================================================================
