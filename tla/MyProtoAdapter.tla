---------------------------- MODULE MyProtoAdapter ----------------------------
(***************************************************************************)
(* MyProtoAdapter (myproto_adapter.cpp): the framed-protocol parser.       *)
(* feed() appends the datagram to input_buffer_, wraps it in a fresh       *)
(* SrsBuffer and loops while bytes are left: STATE_HEADER runs             *)
(* parseHeader, STATE_PAYLOAD runs parsePayload, STATE_COMPLETE runs       *)
(* createStdFrame and goes back to STATE_HEADER; when the loop ends the    *)
(* consumed bytes are erased.  An error returns from feed at once, with    *)
(* nothing erased.                                                         *)
(*                                                                         *)
(* The sender's byte stream is wire, a sequence of frames [len, valid,     *)
(* key, b, ts]: payload length, header accepted (magic and length cap),    *)
(* video keyframe (flags bit 0 of a type-0 frame; an audio frame is never *)
(* a keyframe), B-frame flag and timestamp in ms.  Bytes are counted,     *)
(* not stored: input_buffer_ is the wire between offsets base and sent,    *)
(* and a header read at an offset that is not the start of a frame reads   *)
(* payload bytes, whose magic never matches.  A frame's payload is its     *)
(* NAL units (ParameterSets), which processParameterSets scans on a        *)
(* keyframe and the parameter-set store latches; every frame is H.264     *)
(* video.  Dimensions and the audio ADTS strip are data and are left out. *)
(*                                                                         *)
(* One iteration of the loop is one step: the loop may spin, and a step   *)
(* per iteration lets the checker see it.  No other step interleaves with  *)
(* a running feed: the adapter runs on one coroutine.                      *)
(***************************************************************************)
EXTENDS ParameterSets, Integers, FiniteSets, FiniteSetsExt

CONSTANTS
    SizeofHeader,  \* sizeof(MyProtoFrame), which parseHeader compares with
    BFrameDelay,   \* b_frame_delay_ms
    HotStarts,     \* values of the hot_start parameter start() may read
    DropB,         \* low_latency_drop_b
    Heartbeat,     \* heartbeat_interval_ms
    MaxTime,       \* bound on the cached clock
    Wires,         \* the byte streams a sender may send
    CutOffsets     \* offsets into a frame at which a datagram may end

ASSUME SizeofHeader \in Nat /\ BFrameDelay \in Nat /\ HotStarts \subseteq BOOLEAN
       /\ DropB \in BOOLEAN /\ Heartbeat \in Nat /\ MaxTime \in Nat

\* The bytes parseHeader reads: magic 4, length 4, type 1, codec 1,
\* timestamp 8, flags 1, width, height, sample_rate, channels 4 each.
HeaderBytes == 4 + 4 + 1 + 1 + 8 + 1 + 4 + 4 + 4 + 4

VARIABLES
    wire,      \* the sender's frames
    hotStart,  \* hot_start_
    sent,      \* bytes of the wire handed to feed so far
    base,      \* wire offset of input_buffer_[0]
    pos,       \* buffer_->pos() while feed runs
    inFeed,    \* a feed() call is running its loop
    state,     \* state_
    hdr,       \* frame_header_: the frame whose header was parsed
    got,       \* payload_buffer_.size()
    started,   \* stream_started_
    hasBase,   \* has_base_timestamp_
    baseTs,    \* base_timestamp_ms_
    lastDts,   \* last_dts_ms_
    lastWall,  \* last_frame_wallclock_ms_
    now,       \* srs_time_now_cached() in ms
    out,       \* events pushed downstream: frames, start and stop of stream
    handled,   \* frames createStdFrame has run on (history)
    psets,     \* param_manager_'s parameter_sets_
    closed     \* close() has run

vars == <<wire, hotStart, sent, base, pos, inFeed, state, hdr, got, started,
          hasBase, baseTs, lastDts, lastWall, now, out, handled, psets, closed>>

RECURSIVE FrameStart(_, _)
\* The wire offset of the header of frame i.
FrameStart(w, i) ==
    IF i = 1 THEN 0 ELSE FrameStart(w, i - 1) + HeaderBytes + w[i - 1].len

FrameEnd(w, i) == FrameStart(w, i) + HeaderBytes + w[i].len

WireLen(w) == IF w = <<>> THEN 0 ELSE FrameEnd(w, Len(w))

\* The offsets at which a datagram may end: CutOffsets into every frame
\* (within the wire), and the end of the wire.
CutPoints(w) ==
    ({FrameStart(w, i) + o : i \in DOMAIN w, o \in CutOffsets} \cap 1..WireLen(w))
        \cup {WireLen(w)}

\* Bytes left in buffer_.
Left == sent - (base + pos)

Init ==
    /\ wire \in Wires
    /\ hotStart \in HotStarts
    /\ sent = 0 /\ base = 0 /\ pos = 0
    /\ inFeed = FALSE
    /\ state = "HEADER"
    /\ hdr = 1 /\ got = 0
    /\ started = FALSE
    /\ hasBase = FALSE /\ baseTs = 0
    /\ lastDts = 0
    /\ lastWall = 0
    /\ now = 1
    /\ out = <<>>
    /\ handled = {}
    /\ psets = EmptyStore
    /\ closed = FALSE

\* Mutant of HeartbeatCheck: the stop event is sent, stream_started_ kept.
HeartbeatCheck_no_reset ==
    IF lastWall > 0 /\ Heartbeat > 0 /\ now - lastWall > Heartbeat /\ started
    THEN /\ out' = Append(out, [ev |-> "stop"])
         /\ UNCHANGED started
    ELSE UNCHANGED <<started, out>>

\* The heartbeat check at the top of feed: no frame for longer than the
\* interval pauses a started stream until the next keyframe.
HeartbeatCheck ==
    IF lastWall > 0 /\ Heartbeat > 0 /\ now - lastWall > Heartbeat /\ started
    THEN /\ started' = FALSE
         /\ out' = Append(out, [ev |-> "stop"])
    ELSE UNCHANGED <<started, out>>

\* feed(data, nbytes): a datagram carrying the wire up to offset c arrives;
\* the heartbeat check, the append to input_buffer_ and a fresh SrsBuffer
\* at its start.
Feed(c) ==
    /\ ~inFeed /\ ~closed
    /\ c > sent
    /\ HeartbeatCheck
    /\ sent' = c
    /\ pos' = 0
    /\ inFeed' = TRUE
    /\ UNCHANGED <<wire, hotStart, psets, closed, base, state, hdr, got, hasBase, baseTs, lastDts,
                   lastWall, now, handled>>

\* An error from the loop returns from feed: nothing is erased.
FeedError ==
    /\ inFeed' = FALSE
    /\ UNCHANGED <<wire, hotStart, psets, closed, sent, base, pos, state, hdr, got, started, hasBase,
                   baseTs, lastDts, lastWall, now, out, handled>>

\* parseHeader: with fewer than sizeof(MyProtoFrame) bytes left it returns
\* without reading, and the loop goes round again (an iteration that
\* changes nothing); otherwise it reads the 35 header bytes, fails on a bad
\* magic or length, or starts the payload.
ParseHeader ==
    /\ inFeed /\ Left > 0 /\ state = "HEADER"
    /\ IF Left < SizeofHeader
       THEN UNCHANGED vars
       ELSE LET at == {i \in DOMAIN wire : FrameStart(wire, i) = base + pos}
            IN  IF at = {} \/ ~wire[CHOOSE i \in at : TRUE].valid
                THEN FeedError
                ELSE /\ hdr' = CHOOSE i \in at : TRUE
                     /\ pos' = pos + HeaderBytes
                     /\ got' = 0
                     /\ state' = "PAYLOAD"
                     /\ UNCHANGED <<wire, hotStart, psets, closed, sent, base, inFeed, started, hasBase,
                                    baseTs, lastDts, lastWall, now, out, handled>>

\* Mutant of parsePayload: reads everything left, not at most what is needed.
parsePayload_unbounded ==
    /\ inFeed /\ Left > 0 /\ state = "PAYLOAD"
    /\ got' = got + Left
    /\ pos' = pos + Left
    /\ state' = IF got + Left >= wire[hdr].len THEN "COMPLETE" ELSE "PAYLOAD"
    /\ UNCHANGED <<wire, hotStart, psets, closed, sent, base, inFeed, hdr, started, hasBase, baseTs,
                   lastDts, lastWall, now, out, handled>>

\* parsePayload: append min(needed, left) bytes; complete when length
\* bytes are buffered.
parsePayload ==
    /\ inFeed /\ Left > 0 /\ state = "PAYLOAD"
    /\ LET toRead == IF wire[hdr].len - got < Left THEN wire[hdr].len - got ELSE Left
       IN  /\ got' = got + toRead
           /\ pos' = pos + toRead
           /\ state' = IF got + toRead >= wire[hdr].len THEN "COMPLETE" ELSE "PAYLOAD"
    /\ UNCHANGED <<wire, hotStart, psets, closed, sent, base, inFeed, hdr, started, hasBase, baseTs,
                   lastDts, lastWall, now, out, handled>>

\* Mutant of validateTimestamp: the check against last_dts_ms_ dropped.
validateTimestamp_no_last(dts, pts) == dts >= 0 /\ pts >= 0 /\ pts >= dts

\* validateTimestamp
validateTimestamp(dts, pts) ==
    /\ dts >= 0 /\ pts >= 0
    /\ ~(lastDts > 0 /\ dts < lastDts)
    /\ pts >= dts

\* The pts of a frame: dts plus the B-frame delay for a B-frame
\* (processBFrameTiming only raises a pts not above dts to the same value).
PtsOf(f, dts) == IF f.b THEN dts + BFrameDelay ELSE dts

\* The payload createStdFrame sets: H.264 bytes that start with neither a
\* 4- nor a 3-byte start code get a 4-byte one in front.
Normalize(nals) ==
    IF nals # <<>> /\ nals[1].sc = 0 THEN [nals EXCEPT ![1].sc = 4] ELSE nals

\* The kind processParameterSets latches for a unit of NAL type t.
KindOf(t) == IF t = 7 THEN "SPS" ELSE "PPS"

\* processParameterSets on an H.264 frame: on a non-empty keyframe, every
\* 00 00 00 01 start code followed by an SPS or PPS unit hands the bytes
\* from that unit to the end of the payload to update_parameter_set, in
\* payload order.  (A unit behind a 3-byte start code is not seen.)
processParameterSets(ps, key, p) ==
    IF ~key \/ p = <<>> THEN ps
    ELSE FoldLeft(LAMBDA acc, i :
                    IF p[i].sc = 4 /\ p[i].t \in {7, 8}
                    THEN update_parameter_set(acc, KindOf(p[i].t), SubSeq(p, i, Len(p)))
                    ELSE acc,
                  ps, [i \in 1..Len(p) |-> i])

\* resend_parameter_sets for a keyframe of the given dts: one keyframe
\* event per latched SPS, PPS or VPS, in the store's order.
resend_parameter_sets(ps, dts) ==
    LET all == SelectSeq(get_all_parameter_sets(ps),
                         LAMBDA e : e.kind \in {"SPS", "PPS", "VPS"})
    IN  [j \in 1..Len(all) |-> [ev |-> "param", kind |-> all[j].kind,
                                data |-> all[j].data, dts |-> dts]]

\* createStdFrame for frame f at time now, then state_ = STATE_HEADER: the
\* first frame fixes the base timestamp; an invalid timestamp is dropped;
\* a keyframe's parameter sets are latched; before the stream has started
\* only a keyframe (any frame in hot start) starts it and others are
\* dropped; in hot start a keyframe is preceded by the latched parameter
\* sets; a non-keyframe B-frame is dropped in low-latency mode; otherwise
\* last_dts_ms_ and the wallclock are updated and the frame is pushed.
createStdFrame ==
    /\ inFeed /\ Left > 0 /\ state = "COMPLETE"
    /\ LET f    == wire[hdr]
           bts  == IF hasBase THEN baseTs ELSE f.ts
           dts  == f.ts - bts
           pts  == PtsOf(f, dts)
           ok   == validateTimestamp(dts, pts)
           ps   == IF ok THEN processParameterSets(psets, f.key, Normalize(f.nals))
                   ELSE psets
           go   == started \/ hotStart \/ f.key
           push == ok /\ go /\ ~(DropB /\ f.b /\ ~f.key)
           frm  == [ev |-> "frame", i |-> hdr, dts |-> dts, pts |-> pts, key |-> f.key]
       IN  /\ hasBase' = TRUE
           /\ baseTs' = bts
           /\ psets' = ps
           /\ started' = (started \/ (ok /\ go))
           /\ out' = out \o (IF ok /\ go /\ ~started
                             THEN <<[ev |-> "start"]>> ELSE <<>>)
                         \o (IF ok /\ hotStart /\ f.key
                             THEN resend_parameter_sets(ps, dts) ELSE <<>>)
                         \o (IF push THEN <<frm>> ELSE <<>>)
           /\ lastDts' = IF push THEN dts ELSE lastDts
           /\ lastWall' = IF push THEN now ELSE lastWall
    /\ state' = "HEADER"
    /\ handled' = handled \cup {hdr}
    /\ UNCHANGED <<wire, hotStart, sent, base, pos, inFeed, hdr, got, now, closed>>

\* The loop ends with no bytes left: the consumed bytes are erased.
FeedReturn ==
    /\ inFeed /\ Left = 0
    /\ base' = base + pos
    /\ inFeed' = FALSE
    /\ UNCHANGED <<wire, hotStart, psets, closed, sent, pos, state, hdr, got, started, hasBase, baseTs,
                   lastDts, lastWall, now, out, handled>>

\* The cached clock advances between datagrams.
Tick ==
    /\ ~inFeed /\ now < MaxTime
    /\ now' = now + 1
    /\ UNCHANGED <<wire, hotStart, psets, closed, sent, base, pos, inFeed, state, hdr, got, started,
                   hasBase, baseTs, lastDts, lastWall, out, handled>>

\* close(): a started stream is stopped, the payload buffer and parser
\* state, stream_started_ and the base timestamp are reset and the
\* parameter sets cleared (input_buffer_ and last_dts_ms_ are kept).  The
\* handler then deletes the adapter, whose destructor's second close()
\* changes nothing more, and no datagram reaches it again.
Close ==
    /\ ~inFeed /\ ~closed
    /\ out' = IF started THEN Append(out, [ev |-> "stop"]) ELSE out
    /\ started' = FALSE
    /\ hasBase' = FALSE
    /\ state' = "HEADER"
    /\ got' = 0
    /\ psets' = clear_all(psets)
    /\ closed' = TRUE
    /\ UNCHANGED <<wire, hotStart, sent, base, pos, hdr, inFeed, baseTs, lastDts,
                   lastWall, now, handled>>

\* One iteration of the loop of feed, or its return.
FeedLoop == ParseHeader \/ parsePayload \/ createStdFrame \/ FeedReturn

Next ==
    \/ \E c \in CutPoints(wire) : Feed(c)
    \/ FeedLoop
    \/ Tick
    \/ Close

\* The loop is straight-line code on the adapter's coroutine: once feed has
\* been called it keeps running.
Spec == Init /\ [][Next]_vars /\ WF_vars(FeedLoop)
=============================================================================
